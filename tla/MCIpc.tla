------------------------------- MODULE MCIpc -------------------------------
(* Instances of Ipc for TLC: a server, a client and a third thread, who    *)
(* issues which IPC, and who may unwind whom.                              *)
EXTENDS Ipc

CONSTANTS server, client, other

MCThreads == {server, client, other}

ipc(to, from, snd, rcv) ==
    [to |-> to, from |-> from, snd |-> snd, rcv |-> rcv,
     virt |-> nilthread, typed |-> FALSE]
Receive(from, rcv) == ipc(nilthread, from, "never", rcv)
Send(to, snd) == ipc(to, nilthread, snd, "never")
Call(to) == ipc(to, to, "never", "never")
ReplyWait(to, from) == ipc(to, from, "zero", "never")
Forward(to, v) == [Send(to, "never") EXCEPT !.virt = v]
CallsOf(ofServer, ofClient, ofOther) == [t \in MCThreads |->
    CASE t = server -> ofServer [] t = client -> ofClient [] t = other -> ofOther]

SameSpace == [t \in MCThreads |-> 1]
OwnSpaces == [t \in MCThreads |-> IF t = other THEN 2 ELSE 1]
NoPager == [t \in MCThreads |-> nilthread]
PagerIsServer == [t \in MCThreads |-> IF t = client THEN server ELSE nilthread]
NoRights == {}

\* A server that answers, polls and waits, clients that call it, only send
\* or only receive, with every kind of timeout, or name an id of nobody.
CallsCore == CallsOf(
    {Receive(anythread, "never"), Receive(anylocalthread, "zero"),
     Receive(client, "finite"), ReplyWait(client, anythread),
     ReplyWait(other, client), ReplyWait(client, anylocalthread)},
    {Call(server), Send(server, "finite"), Receive(anythread, "finite"),
     [Send(server, "never") EXCEPT !.typed = TRUE]},
    {Call(server), Send(client, "zero"), Receive(anylocalthread, "finite"),
     Receive(client, "finite"), Send(invalid, "never"),
     ipc(server, invalid, "never", "never")})

\* A middleman that forwards calls of other to the server in the name of
\* other, which the server answers directly.
CallsForward == CallsOf(
    {Receive(anythread, "never"), ReplyWait(other, anythread)},
    {Receive(anythread, "never"), Forward(server, other), Forward(server, client)},
    {Call(client), Send(server, "never")})

\* A server that answers and waits, and clients unwound in any state.
CallsUnwind == CallsOf(
    {Receive(anythread, "never"), ReplyWait(client, anythread)},
    {Call(server), Send(server, "finite")},
    {Send(server, "never"), Receive(client, "never")})
OtherAborts == {<<client, other>>}
OtherAndClient == {<<client, other>>, <<other, client>>}
DeleteClient == {<<server, client>>}

\* The smallest instances in which the hazards bite.
CallsReplyWait == CallsOf(
    {Receive(anythread, "never"), ReplyWait(client, anythread)},
    {Call(server)}, {Send(server, "never")})
AbortServer == {<<client, server>>}

CallsSendPoll == CallsOf(
    {Receive(anythread, "never"), ipc(client, anythread, "zero", "zero")},
    {Call(server)}, {Send(server, "never"), ipc(server, invalid, "never", "never")})

CallsTimeout == CallsOf(
    {Receive(anythread, "never"), Receive(anythread, "finite")},
    {Send(server, "finite"), [Send(server, "never") EXCEPT !.typed = TRUE]},
    {Send(server, "never")})
DeleteServer == {<<other, server>>}

CallsHalt == CallsOf(
    {Receive(anythread, "never"), ReplyWait(client, anythread)},
    {ipc(server, server, "never", "finite")}, {Send(server, "never")})
HaltClient == {<<other, client>>}
=============================================================================
