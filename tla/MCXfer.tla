------------------------------- MODULE MCXfer -------------------------------
(* Instances of Xfer for TLC: a client and another thread send strings to a *)
(* server; who is in whose space, which pages fault, who may be aborted.    *)
EXTENDS Xfer

CONSTANTS client, other, server

MCThreads == {client, other, server}
OwnSpaces == [t \in MCThreads |-> IF t = client THEN 1 ELSE 2]

It(len, ptrs) == [len |-> len, ptrs |-> ptrs]
S(len) == <<It(len, 1)>>

Msg(to, strings, faults, xfer) ==
    [to |-> to, strings |-> strings, absent |-> faults, xfer |-> xfer]
Buf(buffers, faults, xfer) ==
    [buffers |-> buffers, absent |-> faults, xfer |-> xfer]
OpsOf(ofClient, ofOther, ofServer) == [t \in MCThreads |->
    CASE t = client -> ofClient [] t = other -> ofOther [] t = server -> ofServer]

\* Strings of one item and of two, of one substring and of two.
Shapes == {<<S(2)>>, <<S(3), S(1)>>, <<<<It(1, 2), It(2, 1)>>>>,
           <<<<It(1, 1), It(1, 2)>>, S(2)>>, <<<<It(2, 2)>>, S(1)>>}
Room == {<<>>, <<S(3)>>, <<S(4), S(2)>>, <<<<It(1, 2), It(2, 1)>>, S(1)>>,
         <<<<It(2, 2)>>, <<It(1, 2)>>>>}
Long == <<<<It(1, 2)>>, S(2)>>
Roomy == <<<<It(2, 1), It(1, 1)>>, S(2)>>
\* Pages at the begin and in the middle of Long and Roomy.
First == <<1, 1, 1>>
Second == <<1, 1, 2>>
Final == <<2, 1, 1>>

\* Every shape into every buffer between two spaces, with faults of the
\* receiver; and within one space with faults of the sender, and timeouts.
PassSends == OpsOf(
    {Msg(server, s, {}, "never") : s \in Shapes \cup {Long}}, {},
    {Msg(other, Long, {First}, "zero"), Msg(other, Long, {Second, Final}, "finite")})
PassReceives == OpsOf({},
    {Buf(Roomy, {}, "never")},
    {Buf(b, {}, "never") : b \in Room} \cup {Buf(Roomy, {First, Final}, "never")})
ClientAndServer == {client, server}

\* The smallest instances in which the hazards bite: a fault of the sender
\* whose receiver is aborted; and one of the receiver with a timeout, of a
\* sender in another space, whose string does not fit, and of one in its own.
SenderFaults == OpsOf({Msg(server, <<S(2)>>, {First}, "finite")}, {}, {})
ReceivePlain == OpsOf({}, {}, {Buf(<<S(2)>>, {}, "never")})
SendTimed == OpsOf({Msg(server, <<S(2)>>, {}, "finite")},
                   {Msg(server, <<S(1)>>, {}, "finite")}, {})
ReceiverFaults == OpsOf({}, {}, {Buf(<<S(1)>>, {First}, "never")})
Nobody == {}
Server == {server}
=============================================================================
