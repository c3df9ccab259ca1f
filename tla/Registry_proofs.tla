-------------------------- MODULE Registry_proofs --------------------------
(***************************************************************************)
(* The registry for any number of threads, names, settings, calls and      *)
(* flushers: registered loggers have the registry's settings, there is one *)
(* pool at a time, and no flusher is left running.                         *)
(***************************************************************************)
EXTENDS Registry, TLAPS

LevelValues == 0 .. Off

Pcs == {"idle", "initialize", "flush_all", "stop", "join", "shutdown_stop", "shutdown_join",
        "shutdown_drop", "shutdown_tp"}

LoggerObjects == [name : AllNames, level : LevelValues, attrs : [Attrs -> {0, 1}], pool : Nat,
                  configured : BOOLEAN]

WorkerStates == {"unused", "none", "wait", "callback", "flush_all", "exited"}

(* The type invariant, by the lock that protects each part.                *)
MapOK == /\ loggers \in [AllNames -> 0 .. MaxCalls + 1]
         /\ default_logger \in 0 .. MaxCalls + 1
         /\ made \in Nat
         /\ obj \in [Objects -> LoggerObjects]
         /\ global \in [Attrs -> {0, 1}]
         /\ global_level \in LevelValues
         /\ log_levels \in [AllNames -> LevelValues]
         /\ settled \in BOOLEAN
         /\ automatic \in BOOLEAN
PoolOK == /\ pools \in Nat
          /\ tp \in 0 .. pools
          /\ replaced \in 0 .. pools
          /\ queued \in Nat
FlushOK == /\ flusher \in Flushers \cup {Null}
           /\ worker \in [Flushers -> [thread : WorkerStates, active : BOOLEAN]]
ThreadsOK == /\ map_mutex \in Threads \cup Flushers \cup {Null}
             /\ flusher_mutex \in Threads \cup {Null}
             /\ tp_mutex \in Threads \cup {Null}
             /\ pc \in [Threads -> Pcs]
             /\ arg \in [Threads -> [worker : Flushers \cup {Null}, name : AllNames, pool : Nat]]
             /\ calls \in 0 .. MaxCalls
TypeOK == MapOK /\ PoolOK /\ FlushOK /\ ThreadsOK

FlusherPcs == {"stop", "join", "shutdown_stop", "shutdown_join"}

(* A thread is inside a critical section exactly while it holds its lock.  *)
LocksHeld ==
    \A t \in Threads : /\ flusher_mutex = t <=> pc[t] \in FlusherPcs
                       /\ tp_mutex = t <=> pc[t] = "initialize"
                       /\ map_mutex = t <=> pc[t] = "flush_all"
FlusherLocks == \A f \in Flushers : map_mutex = f <=> worker[f].thread = "flush_all"

(* Every logger object was asked for by a call, and a call of the async    *)
(* factory that holds tp_mutex_ has still to make its own.                 *)
ObjectsPaidFor == made + (IF tp_mutex = Null THEN 0 ELSE 1) <= calls + 1

Running(f) == worker[f].thread \notin {"unused", "none", "exited"}

(* The only flushers that run are the current one and the one that the     *)
(* holder of flusher_mutex_ is stopping.                                   *)
FlushersKnown ==
    \A f \in Flushers : Running(f) =>
        f = flusher \/ (flusher_mutex # Null /\ f = arg[flusher_mutex].worker)

(* A call between looking the pool up and making its logger has the pool   *)
(* that is current.                                                        *)
PoolCurrent == \A t \in Threads : pc[t] = "initialize" => arg[t].pool = tp

(* The inductive invariant: what the map's lock protects, and the rest.    *)
MapInv == MapOK /\ OnePool /\ RegisteredFollowGlobals
RestInv == /\ PoolOK /\ FlushOK /\ ThreadsOK
           /\ LocksHeld /\ FlusherLocks /\ ObjectsPaidFor /\ FlushersKnown /\ PoolCurrent
Inv == MapInv /\ RestInv
-----------------------------------------------------------------------------
LEMMA NullIsNoThread == Null \notin Threads /\ Null \notin Flushers /\ Threads \cap Flushers = {}
BY RegistryAssumption, SMT DEF Null, Flushers

LEMMA FromStrIsLevel == \A v : from_str(v) \in 1 .. Off
<1> SUFFICES ASSUME NEW v PROVE from_str(v) \in 1 .. Off
  OBVIOUS
<1>1. DOMAIN level_string_views = 1 .. 7
  BY SMT DEF level_string_views
<1>2. CASE Len(v) = 1 /\ v[1] \in ToSet(level_string_views)
  <2>1. \E i \in DOMAIN level_string_views : level_string_views[i] = v[1]
    BY <1>2 DEF ToSet
  <2>2. from_str(v) \in DOMAIN level_string_views
    BY <1>2, <2>1 DEF from_str
  <2>3. QED
    BY <1>1, <2>2 DEF Off
<1>3. CASE ~(Len(v) = 1 /\ v[1] \in ToSet(level_string_views))
  BY <1>3, SMT DEF from_str, Off
<1>4. QED
  BY <1>2, <1>3

LEMMA SpecLevels == /\ \A text : GlobalLevel(text) \in LevelValues
                    /\ \A text, name : NamedLevel(text, name) \in LevelValues
<1>1. \A v : from_str(v) \in LevelValues
  BY FromStrIsLevel, SMT DEF LevelValues, Off
<1>2. NoLevel \in LevelValues
  BY SMT DEF NoLevel, LevelValues, Off
<1>3. \A kv, k : LevelOf(kv, k) \in LevelValues
  BY <1>1, <1>2 DEF LevelOf
<1>4. QED
  BY <1>3 DEF GlobalLevel, NamedLevel

LEMMA NewLoggerType ==
    ASSUME NEW name \in AllNames, NEW pool \in Nat
    PROVE  /\ NewLogger(name, pool) \in LoggerObjects
           /\ NewLogger(name, pool).pool = pool
           /\ NewLogger(name, pool).name = name
           /\ NewLogger(name, pool).configured = FALSE
BY SMT DEF NewLogger, LoggerObjects, LevelValues, Info, Off

LEMMA LevelForType == ASSUME MapOK, NEW n \in AllNames PROVE LevelFor(n) \in LevelValues
BY DEF MapOK, LevelFor

(* There is always an object left for the logger a call makes.             *)
LEMMA FreshIsObject ==
    /\ \A t \in Threads : RestInv /\ made \in Nat /\ Call(t) => Fresh \in Objects
    /\ \A t \in Threads : RestInv /\ made \in Nat /\ pc[t] = "initialize" => Fresh \in Objects
<1>1. ASSUME NEW t \in Threads, RestInv, made \in Nat, Call(t) PROVE Fresh \in Objects
  BY <1>1, RegistryAssumption, SMT DEF RestInv, ObjectsPaidFor, ThreadsOK, Call, Fresh, Objects
<1>2. ASSUME NEW t \in Threads, RestInv, made \in Nat, pc[t] = "initialize"
      PROVE  Fresh \in Objects
  <2>1. tp_mutex # Null
    BY <1>2, NullIsNoThread DEF RestInv, LocksHeld
  <2>2. QED
    BY <1>2, <2>1, RegistryAssumption, SMT
       DEF RestInv, ObjectsPaidFor, ThreadsOK, Fresh, Objects
<1>3. QED
  BY <1>1, <1>2

LEMMA RegisteredObjects == MapOK => Registered \subseteq Objects
BY RegistryAssumption, SMT DEF MapOK, Registered, Objects, Null

-----------------------------------------------------------------------------
(* What the operations on the map keep.                                    *)

(* A logger that is configured under logger_map_mutex_ and enters the map  *)
(* in the same critical section.                                           *)
LEMMA InitializeKeepsMap ==
    ASSUME MapInv, Fresh \in Objects, NEW l \in LoggerObjects, l.pool \in {Null, tp},
           initialize_logger(l), UNCHANGED <<tp, replaced>>
    PROVE  MapInv'
<1> DEFINE registers == automatic /\ loggers[l.name] = Null
           new == [l EXCEPT !.level = LevelFor(l.name), !.attrs = global, !.configured = registers]
<1>1. /\ obj' = [obj EXCEPT ![Fresh] = new] /\ made' = Fresh
      /\ loggers' = IF registers THEN [loggers EXCEPT ![l.name] = Fresh] ELSE loggers
      /\ UNCHANGED <<default_logger, global, global_level, log_levels, settled, automatic>>
  BY DEF initialize_logger
<1>2. /\ new \in LoggerObjects /\ new.attrs = global /\ new.level = LevelFor(new.name)
      /\ new.pool \in {Null, tp} /\ new.configured = registers
  BY LevelForType DEF MapInv, MapOK, LoggerObjects
<1>3. Fresh \in 0 .. MaxCalls + 1 /\ Fresh \in Nat /\ l.name \in AllNames
  BY SMT DEF MapInv, MapOK, Fresh, Objects, LoggerObjects
<1>4. MapOK'
  BY <1>1, <1>2, <1>3 DEF MapInv, MapOK
<1>5. Registered' \subseteq Registered \cup {Fresh}
  BY <1>1, <1>3 DEF MapInv, MapOK, Registered
<1>6. \A o \in Registered' : obj'[o] = IF o = Fresh THEN new ELSE obj[o]
  BY <1>1, <1>4, RegisteredObjects DEF MapInv, MapOK
<1>7. OnePool'
  BY <1>2, <1>5, <1>6 DEF MapInv, OnePool, Null
<1>8. RegisteredFollowGlobals'
  <2>1. ASSUME NEW o \in Registered', obj'[o].configured
        PROVE  obj'[o].attrs = global' /\ (settled' => obj'[o].level = LevelFor(obj[o].name)')
    <3>1. CASE o = Fresh
      <4>1. obj'[o].attrs = global /\ obj'[o].level = LevelFor(obj'[o].name)
        BY <1>2, <1>6, <3>1
      <4>2. QED
        BY <1>1, <4>1 DEF LevelFor
    <3>2. CASE o # Fresh
      BY <1>1, <1>5, <1>6, <2>1, <3>2 DEF MapInv, RegisteredFollowGlobals, LevelFor
    <3>3. QED
      BY <3>1, <3>2
  <2>2. QED
    BY <2>1 DEF RegisteredFollowGlobals, LevelFor
<1>9. QED
  BY <1>4, <1>7, <1>8 DEF MapInv

(* A logger made by hand enters the map unconfigured.                      *)
LEMMA RegisterKeepsMap ==
    ASSUME MapInv, Fresh \in Objects, NEW name \in AllNames, MakeAndRegister(name),
           default_logger' \in {default_logger, Null, Fresh},
           UNCHANGED <<global, global_level, log_levels, settled, automatic, tp, replaced>>
    PROVE  MapInv'
<1> DEFINE new == NewLogger(name, Null)
<1>1. /\ obj' = [obj EXCEPT ![Fresh] = new] /\ made' = Fresh
      /\ loggers' = [loggers EXCEPT ![name] = Fresh]
  BY DEF MakeAndRegister
<1>2. new \in LoggerObjects /\ new.pool = Null /\ new.configured = FALSE
  <2>1. Null \in Nat
    BY SMT DEF Null
  <2>2. QED
    BY <2>1, NewLoggerType
<1>3. Fresh \in 0 .. MaxCalls + 1 /\ Fresh \in Nat /\ Null \in 0 .. MaxCalls + 1
  BY RegistryAssumption, SMT DEF MapInv, MapOK, Fresh, Objects, Null
<1>4. MapOK'
  BY <1>1, <1>2, <1>3 DEF MapInv, MapOK
<1>5. Registered' \subseteq Registered \cup {Fresh}
  BY <1>1, <1>3 DEF MapInv, MapOK, Registered
<1>6. \A o \in Registered' : obj'[o] = IF o = Fresh THEN new ELSE obj[o]
  BY <1>1, <1>4, RegisteredObjects DEF MapInv, MapOK
<1>7. OnePool'
  BY <1>2, <1>5, <1>6 DEF MapInv, OnePool
<1>8. RegisteredFollowGlobals'
  BY <1>2, <1>5, <1>6 DEF MapInv, RegisteredFollowGlobals, LevelFor
<1>9. QED
  BY <1>4, <1>7, <1>8 DEF MapInv

(* Loggers that leave the map, or do not change.                           *)
LEMMA DropKeepsMap ==
    ASSUME MapInv, loggers' \in [AllNames -> 0 .. MaxCalls + 1], Registered' \subseteq Registered,
           default_logger' \in 0 .. MaxCalls + 1, automatic' \in BOOLEAN,
           UNCHANGED <<made, obj, global, global_level, log_levels, settled, tp, replaced>>
    PROVE  MapInv'
<1>1. MapOK'
  BY DEF MapInv, MapOK
<1>2. OnePool'
  BY DEF MapInv, OnePool
<1>3. RegisteredFollowGlobals'
  BY DEF MapInv, RegisteredFollowGlobals, LevelFor
<1>4. QED
  BY <1>1, <1>2, <1>3 DEF MapInv

(* The setters reach every registered logger and change nothing of it but  *)
(* the setting.                                                            *)
LEMMA SetGlobalKeepsMap ==
    ASSUME MapInv, NEW t \in Threads, NEW a \in Attrs, set_global(t, a, 1)
    PROVE  MapInv'
<1>1. /\ global' = [global EXCEPT ![a] = 1]
      /\ obj' = [o \in Objects |-> IF o \in Registered THEN [obj[o] EXCEPT !.attrs[a] = 1]
                                                      ELSE obj[o]]
      /\ UNCHANGED <<loggers, default_logger, made, global_level, log_levels, settled, automatic,
                     tp, replaced>>
  BY DEF set_global, ForRegistered, MapCall, pool_vars
<1>2. Registered' = Registered
  BY <1>1 DEF Registered
<1>3. \A o \in Objects : obj[o] \in LoggerObjects
  BY DEF MapInv, MapOK
<1>4. \A o \in Objects : obj'[o] \in LoggerObjects
  BY <1>1, <1>3 DEF LoggerObjects
<1>5. MapOK'
  BY <1>1, <1>4 DEF MapInv, MapOK
<1>6. \A o \in Registered : /\ obj'[o].pool = obj[o].pool /\ obj'[o].level = obj[o].level
                            /\ obj'[o].name = obj[o].name
                            /\ obj'[o].configured = obj[o].configured
                            /\ obj'[o].attrs = [obj[o].attrs EXCEPT ![a] = 1]
  BY <1>1, <1>3, RegisteredObjects DEF MapInv, LoggerObjects
<1>7. OnePool'
  BY <1>1, <1>2, <1>6 DEF MapInv, OnePool
<1>8. RegisteredFollowGlobals'
  <2> SUFFICES ASSUME NEW o \in Registered, obj'[o].configured
               PROVE  obj'[o].attrs = global' /\ (settled' => obj'[o].level = LevelFor(obj[o].name)')
    BY <1>2 DEF RegisteredFollowGlobals
  <2>1. obj[o].attrs = global /\ (settled => obj[o].level = LevelFor(obj[o].name))
    BY <1>6 DEF MapInv, RegisteredFollowGlobals
  <2>2. QED
    BY <1>1, <1>6, <2>1 DEF LevelFor
<1>9. QED
  BY <1>5, <1>7, <1>8 DEF MapInv

(* The setters of levels: a registered logger keeps everything else.       *)
LEMMA LevelsKeepMap ==
    ASSUME MapInv, NEW changed \in [Objects -> LevelValues],
           obj' = [o \in Objects |-> [obj[o] EXCEPT !.level = changed[o]]],
           global_level' \in LevelValues, log_levels' \in [AllNames -> LevelValues],
           settled' \in BOOLEAN,
           settled' => \A o \in Registered : obj[o].configured =>
                                                changed[o] = LevelFor(obj[o].name)',
           UNCHANGED <<loggers, default_logger, made, global, automatic, tp, replaced>>
    PROVE  MapInv'
<1>1. Registered' = Registered /\ Registered \subseteq Objects
  BY RegisteredObjects DEF MapInv, Registered
<1>2. \A o \in Objects : obj[o] \in LoggerObjects
  BY DEF MapInv, MapOK
<1>3. \A o \in Objects : /\ obj'[o] \in LoggerObjects
                         /\ obj'[o].pool = obj[o].pool /\ obj'[o].name = obj[o].name
                         /\ obj'[o].configured = obj[o].configured
                         /\ obj'[o].attrs = obj[o].attrs
                         /\ obj'[o].level = changed[o]
  BY <1>2 DEF LoggerObjects
<1>4. MapOK'
  BY <1>3 DEF MapInv, MapOK
<1>5. OnePool'
  BY <1>1, <1>3 DEF MapInv, OnePool
<1>6. RegisteredFollowGlobals'
  <2> SUFFICES ASSUME NEW o \in Registered, obj'[o].configured
               PROVE  obj'[o].attrs = global' /\ (settled' => obj'[o].level = LevelFor(obj[o].name)')
    BY <1>1 DEF RegisteredFollowGlobals
  <2>1. obj[o].attrs = global /\ (settled' => changed[o] = LevelFor(obj[o].name)')
    BY <1>1, <1>3 DEF MapInv, RegisteredFollowGlobals
  <2>2. QED
    BY <1>1, <1>3, <2>1 DEF LevelFor
<1>7. QED
  BY <1>4, <1>5, <1>6 DEF MapInv

LEMMA SetLevelKeepsMap ==
    ASSUME MapInv, NEW t \in Threads, NEW v \in Levels, set_level(t, v)
    PROVE  MapInv'
<1> DEFINE changed == [o \in Objects |-> IF o \in Registered THEN v ELSE obj[o].level]
<1>1. v \in LevelValues
  BY RegistryAssumption, SMT DEF LevelValues, Off
<1>2. \A o \in Objects : obj[o] \in LoggerObjects
  BY DEF MapInv, MapOK
<1>3. changed \in [Objects -> LevelValues]
  BY <1>1, <1>2 DEF LoggerObjects
<1>4. obj' = [o \in Objects |-> [obj[o] EXCEPT !.level = changed[o]]]
  BY <1>2 DEF set_level, ForRegistered, LoggerObjects
<1>5. QED
  BY <1>1, <1>3, <1>4, LevelsKeepMap DEF set_level, MapCall, pool_vars, MapInv, MapOK

LEMMA LoadLevelsKeepsMap ==
    ASSUME MapInv, NEW t \in Threads, NEW text \in LevelSpecs, load_levels(t, text)
    PROVE  MapInv'
<1> DEFINE levels == [n \in AllNames |-> IF n = DefaultName THEN Null ELSE NamedLevel(text, n)]
           requested == GlobalLevel(text)
           changed == [o \in Objects |-> 
                         IF o \notin Registered THEN obj[o].level
                         ELSE IF levels[obj[o].name] # Null THEN levels[obj[o].name]
                         ELSE IF requested # Null THEN requested
                         ELSE obj[o].level]
<1>1. Null \in LevelValues /\ requested \in LevelValues
  BY SpecLevels, SMT DEF Null, LevelValues, Off
<1>2. levels \in [AllNames -> LevelValues]
  BY <1>1, SpecLevels
<1>3. \A o \in Objects : obj[o] \in LoggerObjects
  BY DEF MapInv, MapOK
<1>4. changed \in [Objects -> LevelValues]
  BY <1>1, <1>2, <1>3 DEF LoggerObjects
<1>5. set_levels(t, levels, requested)
  BY DEF load_levels
<1>6. obj' = [o \in Objects |-> [obj[o] EXCEPT !.level = changed[o]]]
  <2>1. \A o \in Objects : obj'[o] = [obj[o] EXCEPT !.level = changed[o]]
    BY <1>3, <1>5 DEF set_levels, LoggerObjects
  <2>2. obj' = [o \in Objects |-> obj'[o]]
    BY <1>5 DEF set_levels
  <2>3. QED
    BY <2>1, <2>2
<1>7. /\ log_levels' = levels /\ settled' = (requested # Null)
      /\ global_level' = IF requested # Null THEN requested ELSE global_level
      /\ UNCHANGED <<loggers, default_logger, made, global, automatic, tp, replaced>>
  BY <1>5 DEF set_levels, MapCall, pool_vars
<1>8. \A o \in Registered : settled' => changed[o] = LevelFor(obj[o].name)'
  BY <1>6, <1>7, <1>3, RegisteredObjects DEF LevelFor, LoggerObjects, MapInv
<1>9. QED
  BY <1>1, <1>2, <1>4, <1>6, <1>7, <1>8, LevelsKeepMap DEF MapInv, MapOK

LEMMA ApplyKeepsMap ==
    ASSUME MapInv, NEW t \in Threads, NEW p \in Objects, apply_logger_env_levels(t, p)
    PROVE  MapInv'
<1> DEFINE changed == [o \in Objects |-> IF o = p THEN LevelFor(obj[p].name) ELSE obj[o].level]
<1>1. \A o \in Objects : obj[o] \in LoggerObjects
  BY DEF MapInv, MapOK
<1>2. changed \in [Objects -> LevelValues]
  BY <1>1, LevelForType DEF LoggerObjects, MapInv
<1>3. /\ obj' = [obj EXCEPT ![p].level = LevelFor(obj[p].name)]
      /\ UNCHANGED <<loggers, default_logger, made, global, global_level, log_levels, settled,
                     automatic, tp, replaced>>
  BY DEF apply_logger_env_levels, MapCall, pool_vars
<1>4. obj' = [o \in Objects |-> [obj[o] EXCEPT !.level = changed[o]]]
  BY <1>1, <1>3 DEF LoggerObjects, MapInv, MapOK
<1>5. \A o \in Registered : settled' /\ obj[o].configured => changed[o] = LevelFor(obj[o].name)'
  BY <1>1, <1>3, <1>4, RegisteredObjects DEF LevelFor, LoggerObjects, MapInv, 
     RegisteredFollowGlobals
<1>6. QED
  BY <1>2, <1>3, <1>4, <1>5, LevelsKeepMap DEF MapInv, MapOK

-----------------------------------------------------------------------------
(* What each operation keeps of the rest.                                  *)

LEMMA MapUntouched ==
    ASSUME MapInv, UNCHANGED <<map_vars, tp, replaced>>
    PROVE  MapInv'
BY DEF MapInv, MapOK, OnePool, RegisteredFollowGlobals, Registered, LevelFor, map_vars

(* A call that is one critical section of logger_map_mutex_.               *)
LEMMA MapCallKeepsRest ==
    ASSUME RestInv, MapOK, NEW t \in Threads, Call(t), made' = made \/ made' = made + 1,
           UNCHANGED <<tp, queued, pools, replaced, flusher, worker, map_mutex, flusher_mutex,
                       tp_mutex, pc, arg>>
    PROVE  RestInv'
<1>1. calls' = calls + 1 /\ calls < MaxCalls
  BY DEF Call
<1>2. calls' \in 0 .. MaxCalls
  BY <1>1, RegistryAssumption, SMT DEF RestInv, ThreadsOK
<1>3. ObjectsPaidFor'
  BY <1>1, SMT DEF RestInv, ObjectsPaidFor, MapOK, ThreadsOK
<1>4. PoolOK' /\ FlushOK' /\ ThreadsOK'
  BY <1>1, <1>2 DEF RestInv, PoolOK, FlushOK, ThreadsOK
<1>5. LocksHeld' /\ FlusherLocks' /\ FlushersKnown' /\ PoolCurrent'
  BY <1>1 DEF RestInv, LocksHeld, FlusherLocks, FlushersKnown, Running, PoolCurrent
<1>6. QED
  BY <1>3, <1>4, <1>5 DEF RestInv

LEMMA CreateAsyncKeepsInv ==
    ASSUME Inv, NEW t \in Threads, NEW name \in AllNames, create_async(t, name)
    PROVE  Inv'
<1> USE DEF Inv
<1>1. /\ pc[t] = "idle" /\ calls' = calls + 1 /\ calls < MaxCalls
      /\ tp_mutex = Null /\ tp_mutex' = t
      /\ pc' = [pc EXCEPT ![t] = "initialize"]
      /\ arg' = [arg EXCEPT ![t] = [NoArg EXCEPT !.name = name, !.pool = tp']]
      /\ UNCHANGED <<map_vars, queued, replaced, flusher, worker, map_mutex, flusher_mutex>>
  BY DEF create_async, Call, Goto, flush_vars
<1>2. \/ tp = Null /\ tp' = pools + 1 /\ pools' = pools + 1
      \/ tp # Null /\ tp' = tp /\ pools' = pools
  BY DEF create_async
<1>3. MapInv'
  <2>1. MapOK' /\ RegisteredFollowGlobals'
    BY <1>1 DEF MapInv, MapOK, RegisteredFollowGlobals, Registered, LevelFor, map_vars
  <2>2. OnePool'
    BY <1>1, <1>2 DEF MapInv, OnePool, Registered, map_vars
  <2>3. QED
    BY <2>1, <2>2 DEF MapInv
<1>4. PoolOK' /\ FlushOK'
  BY <1>1, <1>2, SMT DEF RestInv, PoolOK, FlushOK
<1>5. calls' \in 0 .. MaxCalls
  BY <1>1, RegistryAssumption, SMT DEF RestInv, ThreadsOK
<1>6. tp' \in Nat
  BY <1>2, SMT DEF RestInv, PoolOK
<1>7. ThreadsOK'
  BY <1>1, <1>5, <1>6 DEF RestInv, ThreadsOK, Pcs, NoArg
<1>8. LocksHeld' /\ FlusherLocks'
  BY <1>1, NullIsNoThread DEF RestInv, LocksHeld, FlusherLocks, ThreadsOK, FlusherPcs
<1>9. ObjectsPaidFor'
  BY <1>1, SMT DEF RestInv, MapInv, MapOK, ObjectsPaidFor, ThreadsOK, map_vars
<1>10. FlushersKnown'
  <2>1. flusher_mutex # Null => flusher_mutex \in Threads /\ flusher_mutex # t
    BY <1>1 DEF RestInv, LocksHeld, ThreadsOK, FlusherPcs
  <2>2. QED
    BY <1>1, <2>1 DEF RestInv, FlushersKnown, Running, ThreadsOK
<1>11. PoolCurrent'
  BY <1>1, NullIsNoThread DEF RestInv, LocksHeld, PoolCurrent, ThreadsOK, NoArg
<1>12. QED
  BY <1>3, <1>4, <1>7, <1>8, <1>9, <1>10, <1>11 DEF RestInv

LEMMA InitializeAsyncKeepsInv ==
    ASSUME Inv, NEW t \in Threads, initialize_async(t)
    PROVE  Inv'
<1> USE DEF Inv
<1>1. /\ pc[t] = "initialize" /\ pc' = [pc EXCEPT ![t] = "idle"] /\ tp_mutex' = Null
      /\ arg' = [arg EXCEPT ![t] = NoArg] /\ made' = Fresh
      /\ initialize_logger(NewLogger(arg[t].name, arg[t].pool))
      /\ UNCHANGED <<tp, queued, pools, replaced, flusher, worker, map_mutex, flusher_mutex, calls>>
  BY DEF initialize_async, initialize_logger, Goto, flush_vars, pool_vars
<1>2. tp_mutex = t /\ t # Null /\ arg[t].pool = tp
  BY <1>1, NullIsNoThread DEF RestInv, LocksHeld, PoolCurrent
<1>3. MapInv'
  <2>1. arg[t].name \in AllNames /\ arg[t].pool \in Nat
    BY DEF RestInv, ThreadsOK
  <2>2. Fresh \in Objects
    BY <1>1, FreshIsObject DEF MapInv, MapOK
  <2>3. QED
    BY <1>1, <1>2, <2>1, <2>2, NewLoggerType, InitializeKeepsMap
<1>4. PoolOK' /\ FlushOK'
  BY <1>1 DEF RestInv, PoolOK, FlushOK
<1>5. ThreadsOK'
  BY <1>1, SMT DEF RestInv, ThreadsOK, Pcs, NoArg, AllNames, Null
<1>6. LocksHeld' /\ FlusherLocks'
  BY <1>1, <1>2, NullIsNoThread DEF RestInv, LocksHeld, FlusherLocks, ThreadsOK, FlusherPcs
<1>7. ObjectsPaidFor'
  BY <1>1, <1>2, SMT DEF RestInv, MapInv, MapOK, ObjectsPaidFor, ThreadsOK, Fresh
<1>8. FlushersKnown'
  <2>1. flusher_mutex # Null => flusher_mutex \in Threads /\ flusher_mutex # t
    BY <1>1 DEF RestInv, LocksHeld, ThreadsOK, FlusherPcs
  <2>2. QED
    BY <1>1, <2>1 DEF RestInv, FlushersKnown, Running, ThreadsOK
<1>9. PoolCurrent'
  BY <1>1 DEF RestInv, PoolCurrent, ThreadsOK
<1>10. QED
  BY <1>3, <1>4, <1>5, <1>6, <1>7, <1>8, <1>9 DEF RestInv

(* A pool is let go, by init_thread_pool for a new one or by shutdown.     *)
LEMMA ReleaseKeepsInv ==
    ASSUME Inv, NEW t \in Threads, init_thread_pool(t) \/ shutdown_tp(t)
    PROVE  Inv'
<1> USE DEF Inv
<1>1. /\ tp_mutex = Null /\ replaced' = pools
      /\ UNCHANGED <<map_vars, queued, flusher, worker, map_mutex, flusher_mutex, tp_mutex, arg>>
      /\ \/ /\ tp' = pools + 1 /\ pools' = pools + 1 /\ pc' = pc
            /\ calls' = calls + 1 /\ calls < MaxCalls
         \/ /\ tp' = Null /\ pools' = pools /\ pc[t] = "shutdown_tp"
            /\ pc' = [pc EXCEPT ![t] = "idle"] /\ calls' = calls
  BY DEF init_thread_pool, shutdown_tp, ReleasePool, Call, Goto, flush_vars, locks
<1>2. PoolOK' /\ FlushOK'
  BY <1>1, SMT DEF RestInv, PoolOK, FlushOK, Null
<1>3. MapInv'
  <2>1. MapOK' /\ RegisteredFollowGlobals'
    BY <1>1 DEF MapInv, MapOK, RegisteredFollowGlobals, Registered, LevelFor, map_vars
  <2>2. \A o \in Registered : obj[o].pool # Null => obj[o].pool \in 1 .. pools
    BY RegisteredObjects, SMT DEF MapInv, OnePool, RestInv, PoolOK, Null
  <2>3. OnePool'
    BY <1>1, <2>2 DEF OnePool, Registered, map_vars
  <2>4. QED
    BY <2>1, <2>3 DEF MapInv
<1>4. calls' \in 0 .. MaxCalls
  BY <1>1, RegistryAssumption, SMT DEF RestInv, ThreadsOK
<1>5. ThreadsOK'
  BY <1>1, <1>4 DEF RestInv, ThreadsOK, Pcs
<1>6. LocksHeld' /\ FlusherLocks' /\ FlushersKnown'
  BY <1>1 DEF RestInv, LocksHeld, FlusherLocks, FlushersKnown, Running, ThreadsOK, FlusherPcs
<1>7. ObjectsPaidFor'
  BY <1>1, SMT DEF RestInv, MapInv, MapOK, ObjectsPaidFor, ThreadsOK, map_vars
<1>8. PoolCurrent'
  BY <1>1, NullIsNoThread DEF RestInv, LocksHeld, PoolCurrent, ThreadsOK
<1>9. QED
  BY <1>2, <1>3, <1>5, <1>6, <1>7, <1>8 DEF RestInv

(* Taking and leaving logger_map_mutex_ in flush_all, by a thread or by a  *)
(* flusher.                                                                *)
LEMMA FlushAllKeepsInv ==
    ASSUME Inv, NEW t \in Threads, flush_all(t) \/ flush_all_end(t)
    PROVE  Inv'
<1> USE DEF Inv
<1>1. /\ UNCHANGED <<map_vars, tp, pools, replaced, flusher, worker, flusher_mutex, tp_mutex, arg>>
      /\ \/ /\ map_mutex = Null /\ map_mutex' = t /\ pc[t] = "idle"
            /\ pc' = [pc EXCEPT ![t] = "flush_all"] /\ queued' = queued
            /\ calls' = calls + 1 /\ calls < MaxCalls
         \/ /\ map_mutex = t /\ map_mutex' = Null /\ pc[t] = "flush_all"
            /\ pc' = [pc EXCEPT ![t] = "idle"] /\ queued' \in {queued, queued + 1}
            /\ calls' = calls
  BY DEF flush_all, flush_all_end, flush_all_lock, flush_all_run, Call, Goto, flush_vars, pool_vars
<1>2. MapInv'
  BY <1>1, MapUntouched
<1>3. PoolOK' /\ FlushOK'
  BY <1>1, SMT DEF RestInv, PoolOK, FlushOK
<1>4. calls' \in 0 .. MaxCalls
  BY <1>1, RegistryAssumption, SMT DEF RestInv, ThreadsOK
<1>5. ThreadsOK'
  BY <1>1, <1>4 DEF RestInv, ThreadsOK, Pcs
<1>6. LocksHeld' /\ FlusherLocks'
  BY <1>1, NullIsNoThread DEF RestInv, LocksHeld, FlusherLocks, ThreadsOK, FlusherPcs
<1>7. ObjectsPaidFor'
  BY <1>1, SMT DEF RestInv, MapInv, MapOK, ObjectsPaidFor, ThreadsOK, map_vars
<1>8. FlushersKnown' /\ PoolCurrent'
  BY <1>1 DEF RestInv, FlushersKnown, Running, PoolCurrent, ThreadsOK
<1>9. QED
  BY <1>2, <1>3, <1>5, <1>6, <1>7, <1>8 DEF RestInv

LEMMA FlusherKeepsInv ==
    ASSUME Inv, NEW f \in Flushers, FlusherStep(f)
    PROVE  Inv'
<1> USE DEF Inv
<1>1. PICK where \in WorkerStates :
      /\ worker' = [worker EXCEPT ![f].thread = where]
      /\ UNCHANGED <<map_vars, tp, pools, replaced, flusher, flusher_mutex, tp_mutex, pc, arg, calls>>
      /\ Running(f)
      /\ \/ /\ where \in {"callback", "exited"} /\ map_mutex' = map_mutex /\ queued' = queued
            /\ worker[f].thread = "wait"
         \/ /\ where = "flush_all" /\ map_mutex = Null /\ map_mutex' = f /\ queued' = queued
            /\ worker[f].thread = "callback"
         \/ /\ where = "wait" /\ map_mutex = f /\ map_mutex' = Null
            /\ queued' \in {queued, queued + 1} /\ worker[f].thread = "flush_all"
  BY DEF FlusherStep, worker_wakes, worker_callback, flush_all_lock, flush_all_run, WorkerStates,
         Running, pool_vars, locks
<1>2. MapInv'
  BY <1>1, MapUntouched
<1>3. PoolOK' /\ FlushOK'
  BY <1>1, SMT DEF RestInv, PoolOK, FlushOK, WorkerStates
<1>4. ThreadsOK'
  BY <1>1 DEF RestInv, ThreadsOK
<1>5. \A g \in Flushers : worker'[g].thread = IF g = f THEN where ELSE worker[g].thread
  BY <1>1 DEF RestInv, FlushOK
<1>6. LocksHeld'
  BY <1>1, NullIsNoThread DEF RestInv, LocksHeld, ThreadsOK
<1>7. FlusherLocks'
  BY <1>1, <1>5, NullIsNoThread DEF RestInv, FlusherLocks
<1>8. FlushersKnown'
  BY <1>1, <1>5 DEF RestInv, FlushersKnown, Running
<1>9. ObjectsPaidFor' /\ PoolCurrent'
  BY <1>1 DEF RestInv, ObjectsPaidFor, PoolCurrent, map_vars
<1>10. QED
  BY <1>2, <1>3, <1>4, <1>6, <1>7, <1>8, <1>9 DEF RestInv

(* flush_every and shutdown take flusher_mutex_ and remember the flusher   *)
(* they replace.                                                           *)
LEMMA ReplaceFlusherKeepsInv ==
    ASSUME Inv, NEW t \in Threads, flush_every(t) \/ shutdown(t)
    PROVE  Inv'
<1> USE DEF Inv
<1>1. /\ pc[t] = "idle" /\ calls' = calls + 1 /\ calls < MaxCalls
      /\ flusher_mutex = Null /\ flusher_mutex' = t
      /\ arg' = [arg EXCEPT ![t].worker = flusher]
      /\ UNCHANGED <<map_vars, tp, queued, pools, replaced, map_mutex, tp_mutex>>
  BY DEF flush_every, shutdown, Call, pool_vars
<1>2. PICK where \in {"stop", "shutdown_stop"} : pc' = [pc EXCEPT ![t] = where]
  BY DEF flush_every, shutdown, Goto
<1>3. \/ flusher' = Null /\ worker' = worker
      \/ \E f \in Flushers : \E w \in [thread : {"wait", "none"}, active : BOOLEAN] :
            /\ worker[f].thread = "unused" /\ worker' = [worker EXCEPT ![f] = w] /\ flusher' = f
  BY DEF flush_every, shutdown
<1>4. MapInv'
  BY <1>1, MapUntouched
<1>5. PoolOK' /\ FlushOK'
  BY <1>1, <1>3 DEF RestInv, PoolOK, FlushOK, WorkerStates
<1>6. calls' \in 0 .. MaxCalls
  BY <1>1, RegistryAssumption, SMT DEF RestInv, ThreadsOK
<1>7. ThreadsOK'
  BY <1>1, <1>2, <1>6 DEF RestInv, ThreadsOK, FlushOK, Pcs
<1>8. LocksHeld'
  BY <1>1, <1>2, NullIsNoThread DEF RestInv, LocksHeld, ThreadsOK, FlusherPcs
<1>9. FlusherLocks'
  BY <1>1, <1>3 DEF RestInv, FlusherLocks, FlushOK
<1>10. FlushersKnown'
  <2>1. arg'[flusher_mutex'].worker = flusher /\ flusher_mutex' # Null
    BY <1>1, NullIsNoThread DEF RestInv, ThreadsOK
  <2>2. \A f \in Flushers : Running(f) => f = flusher
    BY <1>1 DEF RestInv, FlushersKnown
  <2>3. QED
    BY <1>3, <2>1, <2>2 DEF FlushersKnown, Running, RestInv, FlushOK
<1>11. ObjectsPaidFor'
  BY <1>1, SMT DEF RestInv, MapInv, MapOK, ObjectsPaidFor, ThreadsOK, map_vars
<1>12. PoolCurrent'
  BY <1>1, <1>2 DEF RestInv, PoolCurrent, ThreadsOK
<1>13. QED
  BY <1>4, <1>5, <1>7, <1>8, <1>9, <1>10, <1>11, <1>12 DEF RestInv

LEMMA StopKeepsInv ==
    ASSUME Inv, NEW t \in Threads, worker_stop(t)
    PROVE  Inv'
<1> USE DEF Inv
<1>1. PICK where \in {"join", "shutdown_join"} :
      /\ pc[t] \in {"stop", "shutdown_stop"} /\ pc' = [pc EXCEPT ![t] = where]
      /\ UNCHANGED <<map_vars, tp, queued, pools, replaced, flusher, map_mutex, flusher_mutex,
                     tp_mutex, arg, calls>>
  BY DEF worker_stop, Goto, pool_vars, locks
<1>2. FlushOK' /\ \A f \in Flushers : worker'[f].thread = worker[f].thread
  <2>1. \/ worker' = worker
        \/ \E g \in Flushers : worker' = [worker EXCEPT ![g].active = FALSE]
    BY DEF worker_stop, RestInv, ThreadsOK
  <2>2. ASSUME NEW g \in Flushers, worker' = [worker EXCEPT ![g].active = FALSE]
        PROVE  /\ worker' \in [Flushers -> [thread : WorkerStates, active : BOOLEAN]]
               /\ \A f \in Flushers : worker'[f].thread = worker[f].thread
    BY <2>2 DEF RestInv, FlushOK
  <2>3. QED
    BY <1>1, <2>1, <2>2 DEF RestInv, FlushOK
<1>3. MapInv'
  BY <1>1, MapUntouched
<1>4. PoolOK' /\ ThreadsOK' /\ ObjectsPaidFor'
  BY <1>1 DEF RestInv, PoolOK, ThreadsOK, ObjectsPaidFor, Pcs, map_vars
<1>5. LocksHeld' /\ FlusherLocks'
  BY <1>1, <1>2 DEF RestInv, LocksHeld, FlusherLocks, ThreadsOK, FlusherPcs
<1>6. FlushersKnown' /\ PoolCurrent'
  BY <1>1, <1>2 DEF RestInv, FlushersKnown, Running, PoolCurrent, ThreadsOK
<1>7. QED
  BY <1>2, <1>3, <1>4, <1>5, <1>6 DEF RestInv

(* The join returns only when the old flusher's thread is gone.            *)
LEMMA JoinKeepsInv ==
    ASSUME Inv, NEW t \in Threads, worker_join(t)
    PROVE  Inv'
<1> USE DEF Inv
<1>1. PICK where \in {"idle", "shutdown_drop"} :
      /\ pc[t] \in {"join", "shutdown_join"} /\ pc' = [pc EXCEPT ![t] = where]
      /\ flusher_mutex' = Null /\ arg' = [arg EXCEPT ![t] = NoArg]
      /\ UNCHANGED <<map_vars, tp, queued, pools, replaced, flusher, worker, map_mutex, tp_mutex,
                     calls>>
  BY DEF worker_join, Goto, pool_vars, flush_vars
<1>2. flusher_mutex = t
  BY <1>1 DEF RestInv, LocksHeld, FlusherPcs
<1>3. MapInv'
  BY <1>1, MapUntouched
<1>4. PoolOK' /\ FlushOK' /\ ObjectsPaidFor'
  BY <1>1 DEF RestInv, PoolOK, FlushOK, ObjectsPaidFor, map_vars
<1>5. ThreadsOK'
  BY <1>1, SMT DEF RestInv, ThreadsOK, Pcs, NoArg, AllNames, Null
<1>6. LocksHeld' /\ FlusherLocks'
  BY <1>1, <1>2, NullIsNoThread DEF RestInv, LocksHeld, FlusherLocks, ThreadsOK, FlusherPcs
<1>7. FlushersKnown'
  BY <1>1, <1>2, NullIsNoThread DEF worker_join, RestInv, FlushersKnown, Running
<1>8. PoolCurrent'
  BY <1>1 DEF RestInv, PoolCurrent, ThreadsOK
<1>9. QED
  BY <1>3, <1>4, <1>5, <1>6, <1>7, <1>8 DEF RestInv

LEMMA DropAllKeepsMap ==
    ASSUME MapInv, drop_all, UNCHANGED <<tp, replaced>>
    PROVE  MapInv'
<1>1. Null \in 0 .. MaxCalls + 1
  BY RegistryAssumption, SMT DEF Null
<1>2. Registered' = {}
  BY DEF drop_all, Registered
<1>3. QED
  BY <1>1, <1>2, DropKeepsMap DEF drop_all, MapInv, MapOK

LEMMA ShutdownDropKeepsInv ==
    ASSUME Inv, NEW t \in Threads, shutdown_drop(t)
    PROVE  Inv'
<1> USE DEF Inv
<1>1. /\ pc[t] = "shutdown_drop" /\ pc' = [pc EXCEPT ![t] = "shutdown_tp"] /\ drop_all
      /\ UNCHANGED <<tp, queued, pools, replaced, flusher, worker, map_mutex, flusher_mutex,
                     tp_mutex, arg, calls>>
  BY DEF shutdown_drop, Goto, pool_vars, flush_vars, locks
<1>2. MapInv'
  BY <1>1, DropAllKeepsMap
<1>3. PoolOK' /\ FlushOK' /\ ThreadsOK' /\ ObjectsPaidFor'
  BY <1>1 DEF RestInv, PoolOK, FlushOK, ThreadsOK, ObjectsPaidFor, Pcs, drop_all
<1>4. LocksHeld' /\ FlusherLocks' /\ FlushersKnown' /\ PoolCurrent'
  BY <1>1 DEF RestInv, LocksHeld, FlusherLocks, FlushersKnown, Running, PoolCurrent, ThreadsOK,
              FlusherPcs
<1>5. QED
  BY <1>2, <1>3, <1>4 DEF RestInv

-----------------------------------------------------------------------------
LEMMA NextKeepsInv == Inv /\ [Next]_vars => Inv'
<1> SUFFICES ASSUME Inv, [Next]_vars PROVE Inv'
  OBVIOUS
<1> USE DEF Inv
<1>1. MapOK /\ made \in Nat
  BY DEF MapInv, MapOK
<1>2. ASSUME NEW t \in Threads, Call(t), made' = made \/ made' = made + 1,
             UNCHANGED <<pool_vars, flush_vars, locks, pc, arg>>
      PROVE  RestInv'
  BY <1>1, <1>2, MapCallKeepsRest DEF pool_vars, flush_vars, locks
<1>3. ASSUME NEW t \in Threads, NEW n \in AllNames, create(t, n) PROVE Inv'
  <2>1. /\ Call(t) /\ initialize_logger(NewLogger(n, Null)) /\ made' = made + 1
        /\ UNCHANGED <<pool_vars, flush_vars, locks, pc, arg>> /\ UNCHANGED <<tp, replaced>>
    BY <1>3 DEF create, initialize_logger, Fresh, pool_vars
  <2>2. Null \in Nat /\ Fresh \in Objects
    BY <1>1, <2>1, FreshIsObject, SMT DEF Null
  <2>3. MapInv'
    BY <2>1, <2>2, NewLoggerType, InitializeKeepsMap
  <2>4. QED
    BY <1>2, <2>1, <2>3
<1>4. ASSUME NEW t \in Threads, NEW n \in AllNames, drop(t, n) PROVE Inv'
  <2>1. Null \in 0 .. MaxCalls + 1
    BY RegistryAssumption, SMT DEF Null
  <2>2. loggers' \in [AllNames -> 0 .. MaxCalls + 1] /\ Registered' \subseteq Registered
    BY <1>1, <1>4, <2>1 DEF drop, Registered, MapOK
  <2>3. MapInv'
    BY <1>1, <1>4, <2>1, <2>2, DropKeepsMap DEF drop, MapCall, pool_vars, MapOK
  <2>4. QED
    BY <1>2, <1>4, <2>3 DEF drop, MapCall
<1>5. ASSUME NEW t \in Threads, NEW n \in AllNames,
             set_default_logger(t, n) \/ \E r \in BOOLEAN : register_logger(t, n, r)
      PROVE  Inv'
  <2>1. /\ Call(t) /\ UNCHANGED <<pool_vars, flush_vars, locks, pc, arg>>
        /\ UNCHANGED <<global, global_level, log_levels, settled, automatic, tp, replaced>>
    BY <1>5 DEF set_default_logger, register_logger, MapCall, pool_vars
  <2>2. Fresh \in Objects
    BY <1>1, <2>1, FreshIsObject
  <2>3. CASE MakeAndRegister(n) /\ default_logger' \in {default_logger, Null, Fresh}
    <3>1. MapInv'
      BY <2>1, <2>2, <2>3, RegisterKeepsMap
    <3>2. made' = made + 1
      BY <2>3 DEF MakeAndRegister, Fresh
    <3>3. QED
      BY <1>2, <2>1, <3>1, <3>2
  <2>4. CASE UNCHANGED <<made, obj, loggers>> /\ default_logger' \in {default_logger, Null}
    <3>1. Null \in 0 .. MaxCalls + 1 /\ Registered' = Registered
      BY <2>4, RegistryAssumption, SMT DEF Null, Registered
    <3>2. MapInv'
      BY <1>1, <2>1, <2>4, <3>1, DropKeepsMap DEF MapOK
    <3>3. QED
      BY <1>2, <2>1, <2>4, <3>2
  <2>5. QED
    BY <1>5, <2>3, <2>4 DEF set_default_logger, register_logger
<1>6. ASSUME NEW t \in Threads, NEW a \in Attrs, set_global(t, a, 1) PROVE Inv'
  BY <1>2, <1>6, SetGlobalKeepsMap DEF set_global, MapCall
<1>7. ASSUME NEW t \in Threads, NEW v \in Levels, set_level(t, v) PROVE Inv'
  BY <1>2, <1>7, SetLevelKeepsMap DEF set_level, MapCall
<1>8. ASSUME NEW t \in Threads, NEW text \in LevelSpecs, load_levels(t, text) PROVE Inv'
  BY <1>2, <1>8, LoadLevelsKeepsMap DEF load_levels, set_levels, MapCall
<1>9. ASSUME NEW t \in Threads, NEW o \in Objects, apply_logger_env_levels(t, o) PROVE Inv'
  BY <1>2, <1>9, ApplyKeepsMap DEF apply_logger_env_levels, MapCall
<1>10. ASSUME NEW t \in Threads, NEW v \in BOOLEAN, set_automatic_registration(t, v) PROVE Inv'
  <2>1. /\ Call(t) /\ UNCHANGED <<pool_vars, flush_vars, locks, pc, arg>> /\ automatic' = v
        /\ UNCHANGED <<loggers, default_logger, made, obj, global, global_level, log_levels,
                       settled, tp, replaced>>
    BY <1>10 DEF set_automatic_registration, MapCall, pool_vars
  <2>2. Registered' = Registered
    BY <2>1 DEF Registered
  <2>3. MapInv'
    BY <1>1, <2>1, <2>2, DropKeepsMap DEF MapOK
  <2>4. QED
    BY <1>2, <2>1, <2>3
<1>11. ASSUME NEW t \in Threads, DropAll(t) PROVE Inv'
  BY <1>2, <1>11, DropAllKeepsMap DEF DropAll, drop_all, pool_vars
<1>12. CASE PoolWorker
  <2>1. /\ UNCHANGED <<map_vars, tp, pools, replaced, flusher, worker, map_mutex, flusher_mutex,
                       tp_mutex, pc, arg, calls>>
        /\ queued > 0 /\ queued' = queued - 1
    BY <1>12 DEF PoolWorker, flush_vars, locks
  <2>2. PoolOK'
    BY <2>1, SMT DEF RestInv, PoolOK
  <2>3. FlushOK' /\ ThreadsOK' /\ LocksHeld' /\ FlusherLocks' /\ ObjectsPaidFor' /\ FlushersKnown'
        /\ PoolCurrent'
    BY <2>1 DEF RestInv, FlushOK, ThreadsOK, LocksHeld, FlusherLocks, ObjectsPaidFor,
                FlushersKnown, Running, PoolCurrent, map_vars
  <2>4. QED
    BY <2>1, <2>2, <2>3, MapUntouched DEF RestInv
<1>13. CASE UNCHANGED vars
  <2>1. UNCHANGED <<map_vars, tp, queued, pools, replaced, flusher, worker, map_mutex,
                    flusher_mutex, tp_mutex, pc, arg, calls>>
    BY <1>13 DEF vars, pool_vars, flush_vars, locks
  <2>2. RestInv'
    BY <2>1 DEF RestInv, PoolOK, FlushOK, ThreadsOK, LocksHeld, FlusherLocks, ObjectsPaidFor,
                FlushersKnown, Running, PoolCurrent, map_vars
  <2>3. QED
    BY <2>1, <2>2, MapUntouched
<1>14. ASSUME NEW t \in Threads, ApiCall(t) PROVE Inv'
  BY <1>3, <1>4, <1>5, <1>6, <1>7, <1>8, <1>9, <1>10, <1>11, <1>14, CreateAsyncKeepsInv,
     ReleaseKeepsInv, FlushAllKeepsInv, ReplaceFlusherKeepsInv
     DEF ApiCall
<1>15. ASSUME NEW t \in Threads, Continue(t) PROVE Inv'
  BY <1>15, InitializeAsyncKeepsInv, FlushAllKeepsInv, StopKeepsInv, JoinKeepsInv,
     ShutdownDropKeepsInv, ReleaseKeepsInv
     DEF Continue
<1>16. QED
  BY <1>12, <1>13, <1>14, <1>15, FlusherKeepsInv DEF Next, Finished

LEMMA InitInv == Init => Inv
<1> SUFFICES ASSUME Init PROVE Inv
  OBVIOUS
<1>1. /\ Null \in Nat /\ Null \in 0 .. MaxCalls + 1 /\ 1 \in 0 .. MaxCalls + 1 /\ 1 \in Objects
      /\ Info \in LevelValues /\ Null \in LevelValues
  BY RegistryAssumption, SMT DEF Null, Info, LevelValues, Off, Objects
<1>2. \A o \in Objects : /\ obj[o] \in LoggerObjects /\ obj[o].pool = Null
                         /\ obj[o].configured = FALSE
  BY <1>1, NewLoggerType DEF Init, AllNames
<1>3. MapOK
  <2>1. obj \in [Objects -> LoggerObjects]
    BY <1>2 DEF Init
  <2>2. QED
    BY <1>1, <2>1, SMT DEF Init, MapOK
<1>4. OnePool /\ RegisteredFollowGlobals
  BY <1>2, <1>3, RegisteredObjects DEF OnePool, RegisteredFollowGlobals
<1>5. PoolOK /\ FlushOK /\ ObjectsPaidFor
  BY SMT DEF Init, PoolOK, FlushOK, ObjectsPaidFor, Null, WorkerStates
<1>6. ThreadsOK
  <2>1. NoArg \in [worker : Flushers \cup {Null}, name : AllNames, pool : Nat]
    BY <1>1 DEF NoArg, AllNames
  <2>2. 0 \in 0 .. MaxCalls
    BY RegistryAssumption, SMT
  <2>3. QED
    BY <2>1, <2>2 DEF Init, ThreadsOK, Pcs
<1>7. LocksHeld /\ FlusherLocks /\ FlushersKnown /\ PoolCurrent
  BY NullIsNoThread DEF Init, LocksHeld, FlusherLocks, FlushersKnown, Running, PoolCurrent,
                        FlusherPcs
<1>8. QED
  BY <1>3, <1>4, <1>5, <1>6, <1>7 DEF Inv, MapInv, RestInv

LEMMA Invariant == Spec => []Inv
BY InitInv, NextKeepsInv, PTL DEF Spec

(* Every variable keeps its type; there is an object for every logger.     *)
THEOREM TypeCorrect == Spec => []TypeOK
<1>1. Inv => TypeOK
  BY DEF Inv, MapInv, RestInv, TypeOK
<1>2. QED
  BY <1>1, Invariant, PTL

(* A logger that the registry configured and registered has the settings   *)
(* of the registry, however creations and setters interleave.              *)
THEOREM LoggersFollowGlobals == Spec => []RegisteredFollowGlobals
<1>1. Inv => RegisteredFollowGlobals
  BY DEF Inv, MapInv
<1>2. QED
  BY <1>1, Invariant, PTL

(* Two creations of async loggers never make two pools.                    *)
THEOREM PoolIsShared == Spec => []OnePool
<1>1. Inv => OnePool
  BY DEF Inv, MapInv
<1>2. QED
  BY <1>1, Invariant, PTL

(* No flusher thread survives the flush_every or shutdown that replaced it.*)
THEOREM FlusherNeverStray == Spec => []NoStrayFlusher
<1>1. Inv => NoStrayFlusher
  BY DEF Inv, RestInv, FlushersKnown, Running, NoStrayFlusher
<1>2. QED
  BY <1>1, Invariant, PTL
=============================================================================
