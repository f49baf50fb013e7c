------------------------------ MODULE MCSched ------------------------------
(* Instances of SchedRR for TLC: two threads of one priority and one above, *)
(* with timeslices of a tick or two.                                        *)
EXTENDS SchedRR

CONSTANTS low, peer, high

MCThreads == {low, peer, high}

params(prio, len) ==
    [prio |-> prio, sens |-> prio, len |-> len, slice |-> len,
     delay |-> 0, maxdelay |-> 0, quantum |-> 0]
ParamsOf(ofLow, ofPeer, ofHigh) == [t \in MCThreads \cup {idle} |->
    CASE t = low -> ofLow [] t = peer -> ofPeer [] t = high -> ofHigh
      [] t = idle -> params(0, 1)]

Nothing == {}
NoRequests == [t \in MCThreads |-> {}]
SetPrio(t, p) == [dest |-> t, prio |-> p, preempt |-> nil, time |-> nil]

SetDelays(t, s, d) ==
    [dest |-> t, prio |-> nil, preempt |-> [sens |-> s, maxdelay |-> d], time |-> nil]
SetTime(t, n, q) ==
    [dest |-> t, prio |-> nil, preempt |-> nil, time |-> [len |-> n, quantum |-> q]]

\* Priorities: wakeups, interrupts, changes of priority and of delays,
\* halting and deletion.
PrioParams == ParamsOf([params(0, 1) EXCEPT !.delay = 1, !.maxdelay = 1], params(0, 1), params(1, 1))
PrioRequests == [t \in MCThreads |->
    IF t = high THEN {SetPrio(low, 1), SetDelays(low, 1, 1)} ELSE {}]
OnlyHigh == {high}
OnlyLow == {low}
OnlyPeer == {peer}
PrioHalts == {<<high, low>>, <<peer, peer>>}
SliceDeletes == {<<peer, low>>, <<low, high>>}

\* Timeslices: two threads share the highest priority, one has a quantum.
SliceParams == ParamsOf(params(0, 2), [params(1, 2) EXCEPT !.quantum = 3], params(1, 1))
SliceRequests == [t \in MCThreads |-> IF t = peer THEN {SetTime(low, 1, 1)} ELSE {}]
Peers == {peer, high}
=============================================================================
