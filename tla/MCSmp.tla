------------------------------- MODULE MCSmp -------------------------------
(* Smp for TLC: a thread calls the second processor, a thread of a third    *)
(* one posts requests to it without end, and a mailbox holds two requests.  *)
EXTENDS Smp

CONSTANTS cpu1, cpu2, cpu3, caller, poster

MCCpus == {cpu1, cpu2, cpu3}
MCThreads == {caller, poster}
MCHome == [t \in MCThreads |-> IF t = caller THEN cpu1 ELSE cpu3]
MCSuspended == [c \in MCCpus |-> IF c = cpu2 THEN 1 ELSE 0]
MCCalls == {<<caller, cpu2>>}
MCPosts == {<<poster, cpu2>>}
=============================================================================
