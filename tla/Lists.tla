------------------------------- MODULE Lists -------------------------------
(* The circular doubly-linked lists of queueing.h, seen from their head:    *)
(* the sequence of the threads met from the head on.                        *)
EXTENDS Naturals, Sequences

InList(q, t) == \E i \in 1..Len(q) : q[i] = t

EnqueueTail(q, t) == Append(q, t)
EnqueueHead(q, t) == <<t>> \o q

\* List q without t, which is in it at most once.  If t is the head, its
\* successor becomes the head.
Without(q, t) ==
    IF InList(q, t)
    THEN LET i == CHOOSE k \in 1..Len(q) : q[k] = t
         IN  [j \in 1..(Len(q) - 1) |-> q[IF j < i THEN j ELSE j + 1]]
    ELSE q

\* The members of list q that are in S, in the order of q.
Among(q, S) ==
    LET among[n \in 0..Len(q)] ==
            IF n = 0 THEN <<>>
            ELSE IF q[n] \in S THEN Append(among[n - 1], q[n]) ELSE among[n - 1]
    IN  among[Len(q)]
=============================================================================
