---------------------------- MODULE BoundedFifo ----------------------------
(***************************************************************************)
(* What details/circular_q.h promises its users, without the ring: the     *)
(* specification that CircularQ is shown to implement.                     *)
(***************************************************************************)
EXTENDS FifoOps

CONSTANTS Objects,      \* queue objects that may be copied and moved
          Items,        \* what the queues hold
          Capacities    \* capacities a queue may be created with

VARIABLE fifo           \* fifo[o] = [cap, items, overruns]

-----------------------------------------------------------------------------
FifoInit == fifo = [o \in Objects |-> DisabledFifo]

Push(o, item) == fifo' = [fifo EXCEPT ![o] = Pushed(fifo[o], item)]

Pop(o) == /\ fifo[o].items # <<>>
          /\ fifo' = [fifo EXCEPT ![o] = [cap      |-> fifo[o].cap,
                                          items    |-> Tail(fifo[o].items),
                                          overruns |-> fifo[o].overruns]]

ResetOverruns(o) ==
    fifo' = [fifo EXCEPT ![o] = [cap      |-> fifo[o].cap,
                                 items    |-> fifo[o].items,
                                 overruns |-> 0]]

(* o receives a fresh queue, a copy of p, or p's contents.                 *)
Renew(o) == \E cap \in Capacities : fifo' = [fifo EXCEPT ![o] = NewFifo(cap)]

Copy(o, p) == fifo' = [fifo EXCEPT ![o] = fifo[p]]

Move(o, p) == /\ o # p
              /\ fifo' = [fifo EXCEPT ![o] = fifo[p], ![p] = DisabledFifo]

FifoNext ==
    \/ \E o \in Objects : \/ \E item \in Items : Push(o, item)
                          \/ Pop(o)
                          \/ ResetOverruns(o)
                          \/ Renew(o)
    \/ \E o, p \in Objects : Copy(o, p) \/ Move(o, p)

FifoSpec == FifoInit /\ [][FifoNext]_fifo
=============================================================================
