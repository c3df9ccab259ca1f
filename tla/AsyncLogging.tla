---------------------------- MODULE AsyncLogging ----------------------------
(***************************************************************************)
(* details/thread_pool and async_logger: logging threads post messages to  *)
(* the pool's queue, worker threads take them out and run the sinks.       *)
(*                                                                         *)
(* The pool is kept alive by shared_ptrs: the registry's (or the user's)   *)
(* own one, held by the thread Main, and the one each logging call takes   *)
(* out of the logger's weak_ptr for the time of the call.  Whoever lets    *)
(* the last one go runs ~thread_pool, be it Main or a logging thread.      *)
(*                                                                         *)
(* The queue is used by its interface: one enqueue or dequeue is one step, *)
(* and a call that would wait is a step that is not enabled yet.  The      *)
(* module MpmcQueue looks inside.                                          *)
(***************************************************************************)
EXTENDS FifoOps, FiniteSets

CONSTANTS Clients,          \* logging threads
          Main,             \* the thread that owns the pool
          Workers,          \* threads that may be in threads_
          Loggers,          \* async loggers that share the pool
          overflow_policy,  \* overflow_policy_ of each logger
          NumSinks,         \* sinks_ of every logger: 1 .. NumSinks
          sink_level,       \* level_ of each sink
          Levels,           \* levels a message may have
          flush_level,      \* flush_level_ of the loggers
          Capacity,         \* q_max_items
          MaxCalls,         \* bound: log and flush calls made in a behaviour
          MaxThrows         \* bound: exceptions thrown by sinks

Policies == {"block", "overrun_oldest", "discard_new"}

Sinks == 1 .. NumSinks

ASSUME PoolAssumption ==
    /\ Main \notin Clients
    /\ IsFiniteSet(Clients)
    /\ IsFiniteSet(Workers) /\ Workers # {}
    /\ Capacity \in Nat \ {0}
    /\ MaxCalls \in Nat /\ MaxThrows \in Nat
    /\ NumSinks \in Nat \ {0}
    /\ overflow_policy \in [Loggers -> Policies]
    /\ Levels \subseteq Nat
    /\ sink_level \in [Sinks -> Nat]
    /\ flush_level \in Nat

VARIABLES
    q,                  \* the pool's queue of async_msg
    holders,            \* threads that hold a shared_ptr to the pool
    pc, msg,            \* of Main and the clients
    terminates,         \* terminate messages ~thread_pool has posted
    pool,               \* "alive", "destroying", "gone"
    wpc, wmsg, wsink,   \* of the workers; wsink is the loop variable over sinks_
    written,            \* written[s]: what sink s was given, in order
    flushed,            \* flushed[s]: how much of written[s] was flushed
    \* history
    sent,               \* sent[c]: the messages of c's calls; the n-th call is <<c, n>>
    lost,               \* calls whose message was overrun
    dropped,            \* calls whose message was discarded
    refused,            \* calls that found no pool, reported to err_handler_
    failed,             \* failed[s]: calls whose message sink s threw on
    flush_done,         \* flush_done[s]: flush requests sink s completed
    throws              \* how often a sink threw

client_vars == <<holders, pc, msg, terminates, pool, sent, refused>>
worker_vars == <<wpc, wmsg, wsink, written, flushed, failed, flush_done, throws>>
vars == <<q, client_vars, worker_vars, lost, dropped>>

Threads == Clients \cup {Main}

Call(m) == <<m.from, m.n>>

Terminate == [type |-> "terminate", from |-> Main, n |-> 0, level |-> 0]

(* A default-constructed or moved-from async_msg.                          *)
NoMsg == Terminate

Msg == [type : {"log"}, from : Clients, n : 1 .. MaxCalls, level : Levels]
       \cup [type : {"flush"}, from : Clients, n : 1 .. MaxCalls, level : {0}]

(* The threads the pool was created with.                                  *)
PoolThreads == {w \in Workers : wpc[w] # "absent"}

NumCalls == Cardinality({call \in Clients \X (1 .. MaxCalls) : call[2] \in DOMAIN sent[call[1]]})

-----------------------------------------------------------------------------
Init == /\ q = <<>>
        /\ holders = {Main}
        /\ pc = [t \in Threads |-> "idle"]
        /\ msg = [t \in Threads |-> NoMsg]
        /\ terminates = 0
        /\ pool = "alive"
        /\ \E threads_ \in SUBSET Workers :
              /\ threads_ # {}                   \* threads_n == 0 throws
              /\ wpc = [w \in Workers |-> IF w \in threads_ THEN "dequeue" ELSE "absent"]
        /\ wmsg = [w \in Workers |-> NoMsg]
        /\ wsink = [w \in Workers |-> 1]
        /\ written = [s \in Sinks |-> <<>>]
        /\ flushed = [s \in Sinks |-> 0]
        /\ sent = [c \in Clients |-> <<>>]
        /\ lost = {}
        /\ dropped = {}
        /\ refused = {}
        /\ failed = [s \in Sinks |-> {}]
        /\ flush_done = [s \in Sinks |-> {}]
        /\ throws = 0

(* A logger that keeps a plain pointer: a call goes through as long as the *)
(* pool's memory is there, during the destructor too.                      *)
lock_raw_pointer == pool # "gone"

(* thread_pool_.lock() succeeds while somebody holds a shared_ptr.         *)
lock_pool == holders # {}

(* async_logger::sink_it_ and flush_, up to the call of post_log or        *)
(* post_flush: take a shared_ptr to the pool, or report that it is gone.   *)
LogCall(c, type, level, logger) ==
    /\ pc[c] = "idle"
    /\ NumCalls < MaxCalls
    /\ LET m == [type |-> type, from |-> c, n |-> Len(sent[c]) + 1, level |-> level]
       IN  /\ sent' = [sent EXCEPT ![c] = Append(@, m)]
           /\ IF lock_pool
              THEN /\ holders' = holders \cup {c}
                   /\ msg' = [msg EXCEPT ![c] = m]
                   /\ pc' = [pc EXCEPT ![c] = overflow_policy[logger]]
                   /\ UNCHANGED refused
              ELSE /\ refused' = refused \cup {Call(m)}
                   /\ UNCHANGED <<holders, msg, pc>>
    /\ UNCHANGED <<q, worker_vars, lost, dropped, terminates, pool>>

(* post_async_msg_ with the policy of the calling logger.                  *)
post_async_msg(t) ==
    /\ \/ /\ pc[t] = "block"
          /\ HasRoom(q, Capacity)
          /\ q' = Append(q, msg[t])
          /\ UNCHANGED <<lost, dropped>>
       \/ /\ pc[t] = "overrun_oldest"
          /\ q' = PushItems(q, Capacity, msg[t])
          /\ lost' = IF HasRoom(q, Capacity) THEN lost ELSE lost \cup {Call(Head(q))}
          /\ UNCHANGED dropped
       \/ /\ pc[t] = "discard_new"
          /\ IF HasRoom(q, Capacity)
             THEN q' = Append(q, msg[t]) /\ UNCHANGED dropped
             ELSE dropped' = dropped \cup {Call(msg[t])} /\ UNCHANGED q
          /\ UNCHANGED lost
    /\ pc' = [pc EXCEPT ![t] = "release"]
    /\ msg' = [msg EXCEPT ![t] = NoMsg]
    /\ UNCHANGED <<worker_vars, holders, terminates, pool, sent, refused>>

(* A shared_ptr to the pool goes out of scope; the last one to go destroys *)
(* the pool on the spot, in the thread that held it.                       *)
ReleasePool(t) ==
    /\ holders' = holders \ {t}
    /\ IF holders = {t}
       THEN pool' = "destroying" /\ pc' = [pc EXCEPT ![t] = "post_terminate"]
       ELSE pc' = [pc EXCEPT ![t] = "idle"] /\ UNCHANGED pool
    /\ UNCHANGED <<q, worker_vars, msg, terminates, sent, refused, lost, dropped>>

(* The end of sink_it_ or flush_.                                          *)
EndCall(c) == pc[c] = "release" /\ ReleasePool(c)

(* registry::shutdown, or the user's last pointer: tp_.reset().            *)
ResetPool == Main \in holders /\ ReleasePool(Main)

(* ~thread_pool that posts a single terminate message.                     *)
PostTerminate_once(t) ==
    /\ pc[t] = "post_terminate"
    /\ HasRoom(q, Capacity)
    /\ q' = Append(q, Terminate)
    /\ terminates' = terminates + 1
    /\ pc' = [pc EXCEPT ![t] = "join"]
    /\ UNCHANGED <<worker_vars, holders, msg, pool, sent, refused, lost, dropped>>

(* ~thread_pool: one terminate message per worker, with the block policy.  *)
PostTerminate(t) ==
    /\ pc[t] = "post_terminate"
    /\ HasRoom(q, Capacity)
    /\ q' = Append(q, Terminate)
    /\ terminates' = terminates + 1
    /\ pc' = [pc EXCEPT ![t] = IF terminates + 1 = Cardinality(PoolThreads) THEN "join" ELSE @]
    /\ UNCHANGED <<worker_vars, holders, msg, pool, sent, refused, lost, dropped>>

(* ~thread_pool that detaches its threads instead of joining them.         *)
JoinWorkers_detach(t) ==
    /\ pc[t] = "join"
    /\ pool' = "gone"
    /\ pc' = [pc EXCEPT ![t] = "idle"]
    /\ UNCHANGED <<q, worker_vars, holders, msg, terminates, sent, refused, lost, dropped>>

(* ~thread_pool: join every worker; the queue dies with the pool.          *)
JoinWorkers(t) ==
    /\ pc[t] = "join"
    /\ \A w \in PoolThreads : wpc[w] = "stopped"
    /\ pool' = "gone"
    /\ pc' = [pc EXCEPT ![t] = "idle"]
    /\ UNCHANGED <<q, worker_vars, holders, msg, terminates, sent, refused, lost, dropped>>

-----------------------------------------------------------------------------
(* process_next_msg_ that takes the newest message instead of the oldest.  *)
process_next_msg_newest(w) ==
    /\ wpc[w] = "dequeue"
    /\ q # <<>>
    /\ q' = SubSeq(q, 1, Len(q) - 1)
    /\ wmsg' = [wmsg EXCEPT ![w] = q[Len(q)]]
    /\ wsink' = [wsink EXCEPT ![w] = 1]
    /\ wpc' = [wpc EXCEPT ![w] = CASE q[Len(q)].type = "log"       -> "sink_it"
                                   [] q[Len(q)].type = "flush"     -> "flush"
                                   [] q[Len(q)].type = "terminate" -> "stopped"]
    /\ UNCHANGED <<client_vars, written, flushed, failed, flush_done, throws, lost, dropped>>

(* process_next_msg_: take a message and choose the branch of the switch.  *)
process_next_msg(w) ==
    /\ wpc[w] = "dequeue"
    /\ q # <<>>
    /\ q' = Tail(q)
    /\ wmsg' = [wmsg EXCEPT ![w] = Head(q)]
    /\ wsink' = [wsink EXCEPT ![w] = 1]
    /\ wpc' = [wpc EXCEPT ![w] = CASE Head(q).type = "log"       -> "sink_it"
                                   [] Head(q).type = "flush"     -> "flush"
                                   [] Head(q).type = "terminate" -> "stopped"]
    /\ UNCHANGED <<client_vars, written, flushed, failed, flush_done, throws, lost, dropped>>

should_log(s, level) == level >= sink_level[s]

(* level::off *)
Off == 6

should_flush(level) == level >= flush_level /\ level # Off

(* The worker is done with sink s of its loop: the next sink, or, after    *)
(* the last one, the flush the message's level asks for, or the next       *)
(* message.                                                                *)
NextSink(w) ==
    IF wsink[w] < NumSinks
    THEN wsink' = [wsink EXCEPT ![w] = @ + 1] /\ UNCHANGED <<wpc, wmsg>>
    ELSE /\ wsink' = [wsink EXCEPT ![w] = 1]
         /\ IF wpc[w] = "sink_it" /\ should_flush(wmsg[w].level)
            THEN wpc' = [wpc EXCEPT ![w] = "flush"] /\ UNCHANGED wmsg
            ELSE wpc' = [wpc EXCEPT ![w] = "dequeue"] /\ wmsg' = [wmsg EXCEPT ![w] = NoMsg]

Throws == throws < MaxThrows /\ throws' = throws + 1

(* The catch around the whole loop instead of around each sink.            *)
backend_sink_it_stops_at_throw(w) ==
    /\ wpc[w] = "sink_it"
    /\ LET s == wsink[w]
           m == wmsg[w]
       IN  \/ /\ should_log(s, m.level)
              /\ written' = [written EXCEPT ![s] = Append(@, Call(m))]
              /\ NextSink(w)
              /\ UNCHANGED <<failed, throws>>
           \/ /\ should_log(s, m.level)
              /\ Throws
              /\ failed' = [failed EXCEPT ![s] = @ \cup {Call(m)}]
              /\ wsink' = [wsink EXCEPT ![w] = 1]
              /\ wpc' = [wpc EXCEPT ![w] = "dequeue"]
              /\ UNCHANGED <<written, wmsg>>
           \/ /\ ~should_log(s, m.level)
              /\ NextSink(w)
              /\ UNCHANGED <<written, failed, throws>>
    /\ UNCHANGED <<q, client_vars, flushed, flush_done, lost, dropped>>

(* backend_sink_it_: one turn of the loop over the sinks.  sink->log may   *)
(* throw; the exception goes to err_handler_ and the loop goes on.         *)
backend_sink_it(w) ==
    /\ wpc[w] = "sink_it"
    /\ NextSink(w)
    /\ LET s == wsink[w]
           m == wmsg[w]
       IN  \/ /\ should_log(s, m.level)
              /\ written' = [written EXCEPT ![s] = Append(@, Call(m))]
              /\ UNCHANGED <<failed, throws>>
           \/ /\ should_log(s, m.level)
              /\ Throws
              /\ failed' = [failed EXCEPT ![s] = @ \cup {Call(m)}]
              /\ UNCHANGED written
           \/ /\ ~should_log(s, m.level)
              /\ UNCHANGED <<written, failed, throws>>
    /\ UNCHANGED <<q, client_vars, flushed, flush_done, lost, dropped>>

(* backend_flush_: one turn of its loop.  A sink that throws is skipped.   *)
backend_flush(w) ==
    /\ wpc[w] = "flush"
    /\ NextSink(w)
    /\ LET s == wsink[w]
       IN  \/ /\ flushed' = [flushed EXCEPT ![s] = Len(written[s])]
              /\ flush_done' = [flush_done EXCEPT ![s] = @ \cup {Call(wmsg[w])}]
              /\ UNCHANGED throws
           \/ Throws /\ UNCHANGED <<flushed, flush_done>>
    /\ UNCHANGED <<q, client_vars, written, failed, lost, dropped>>

-----------------------------------------------------------------------------
CallStep(t) == post_async_msg(t) \/ EndCall(t) \/ PostTerminate(t) \/ JoinWorkers(t)

WorkerStep(w) == process_next_msg(w) \/ backend_sink_it(w) \/ backend_flush(w)

(* Nobody is in a call and the pool is gone: nothing more has to happen.   *)
Finished == /\ pool = "gone"
            /\ \A t \in Threads : pc[t] = "idle"
            /\ UNCHANGED vars

Next == \/ \E c \in Clients, logger \in Loggers :
              \/ \E level \in Levels : LogCall(c, "log", level, logger)
              \/ LogCall(c, "flush", 0, logger)
        \/ \E t \in Threads : CallStep(t)
        \/ ResetPool
        \/ \E w \in Workers : WorkerStep(w)
        \/ Finished

Spec == Init /\ [][Next]_vars

(* Every thread runs when it can, and the program shuts the pool down at   *)
(* some point.  Nobody is obliged to log.                                  *)
Fairness == /\ \A t \in Threads : WF_vars(CallStep(t))
            /\ \A w \in Workers : WF_vars(WorkerStep(w))
            /\ WF_vars(ResetPool)

FairSpec == Spec /\ Fairness

-----------------------------------------------------------------------------
Calls == Clients \X (1 .. MaxCalls)

Stopped == {w \in Workers : wpc[w] = "stopped"}

(* Every terminate message stops a worker.  It may be waiting in the queue *)
(* next to messages of overrun_oldest loggers, yet none is ever overrun:   *)
(* ~thread_pool would wait in join for a worker that never stops.          *)
NoTerminateLost ==
    terminates = Cardinality({i \in DOMAIN q : q[i].type = "terminate"})
                 + Cardinality(Stopped)

Offered(s, call) == call \in failed[s] \/ \E i \in DOMAIN written[s] : written[s][i] = call

(* The message of call n of c reached the queue and stayed there until a   *)
(* worker took it, and it is one that sink s logs.                         *)
Due(s, c, n) == /\ sent[c][n].type = "log"
                /\ should_log(s, sent[c][n].level)
                /\ <<c, n>> \notin lost \cup dropped \cup refused

(* "Upon destruction, logs all remaining messages in the queue"            *)
(* (async_logger.h): once ~thread_pool returned, the message of every call *)
(* was overrun, discarded or refused, or it was offered to every sink      *)
(* whose level lets it through, whatever the other sinks threw.            *)
DrainedOnDestruction ==
    pool = "gone" =>
        /\ q = <<>>
        /\ \A c \in Clients : \A n \in DOMAIN sent[c] :
              \A s \in Sinks : Due(s, c, n) => Offered(s, <<c, n>>)

(* With one worker a sink receives the messages of a client in the order   *)
(* of its calls, whatever was overrun or discarded in between.             *)
OrderPerClient ==
    Cardinality(PoolThreads) = 1 => \A s \in Sinks : \A i, j \in DOMAIN written[s] :
        (i < j /\ written[s][i][1] = written[s][j][1])
            => written[s][i][2] < written[s][j][2]

(* With one worker a completed flush covers every earlier message of the   *)
(* client that asked for it: each is in the flushed part of the sink,      *)
(* unless the sink threw on it.                                            *)
FlushCoversEarlierCalls ==
    Cardinality(PoolThreads) = 1 => \A s \in Sinks : \A call \in flush_done[s] :
        \A n \in 1 .. call[2] :
            (Due(s, call[1], n) /\ <<call[1], n>> \notin failed[s])
                => \E i \in 1 .. flushed[s] : written[s][i] = <<call[1], n>>

(* A logging call returns: the blocking ones too, and also the one that    *)
(* finds itself running ~thread_pool.                                      *)
CallsReturn == \A t \in Threads : []<>(pc[t] = "idle")

(* Shutting down terminates: once the owner and the calls in progress let  *)
(* go of the pool, its workers stop and ~thread_pool returns.              *)
PoolEventuallyGone == <>(pool = "gone")
=============================================================================
