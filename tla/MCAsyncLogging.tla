--------------------------- MODULE MCAsyncLogging ---------------------------
(* Three loggers, one per overflow policy, share the pool; the second sink *)
(* lets only the higher of the two levels through, which is also the level *)
(* that flushes.                                                           *)
EXTENDS AsyncLogging

CONSTANTS lblock, loverrun, ldiscard,
          Busy      \* a client

MCPolicy == [l \in Loggers |-> CASE l = lblock   -> "block"
                                 [] l = loverrun -> "overrun_oldest"
                                 [] l = ldiscard -> "discard_new"]

MCSinkLevel == [s \in Sinks |-> s]

(* Bound: two calls, and more where order is the question, with one worker *)
(* and sinks that do not throw: three, or up to MaxCalls of one client,    *)
(* who may as well be this one since the clients are alike.                *)
Load == \/ NumCalls <= 2
        \/ /\ Cardinality(PoolThreads) = 1 /\ throws = 0
           /\ NumCalls <= 3 \/ NumCalls = Len(sent[Busy])

MCFairSpec == Init /\ [][Next /\ Load']_vars /\ Fairness
=============================================================================
