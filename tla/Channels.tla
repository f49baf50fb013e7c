----------------------------- MODULE Channels -----------------------------
(* What the kernel relies on when a processor asks another one to run a     *)
(* handler (xcpu_request): every processor has a bounded queue of requests, *)
(* which it serves in the order they were accepted, each of them once.  A   *)
(* processor whose request finds the queue full stops for good.  Smp        *)
(* implements these operations with rings in shared memory.                 *)
EXTENDS Naturals, Sequences

CONSTANTS Cpus, Requests,
          Capacity      \* requests a queue holds

VARIABLES queue,        \* accepted requests of every processor, oldest first
          stopped       \* processors that gave up

chanVars == <<queue, stopped>>

ChanInit == queue = [c \in Cpus |-> <<>>] /\ stopped = {}

\* Processor c asks processor d to handle r.
Send(c, d, r) ==
    \/ /\ Len(queue[d]) < Capacity
       /\ queue' = [queue EXCEPT ![d] = Append(@, r)]
       /\ UNCHANGED stopped
    \/ /\ Len(queue[d]) >= Capacity
       /\ stopped' = stopped \cup {c}
       /\ UNCHANGED queue

\* Processor d takes the oldest request and handles it.
Deliver(d) ==
    /\ queue[d] # <<>>
    /\ queue' = [queue EXCEPT ![d] = Tail(@)]
    /\ UNCHANGED stopped

ChanNext ==
    \/ \E c \in Cpus \ stopped, d \in Cpus, r \in Requests : Send(c, d, r)
    \/ \E d \in Cpus \ stopped : Deliver(d)

ChanSpec == ChanInit /\ [][ChanNext]_chanVars
=============================================================================
