------------------------------- MODULE MCXIpc -------------------------------
(* Instances of XIpc for TLC: a server on a processor of its own, and two   *)
(* threads that use it on another one.                                      *)
EXTENDS XIpc

CONSTANTS cpu1, cpu2, server, client, user

MCCpus == {cpu1, cpu2}
MCThreads == {server, client, user}
MCHome == [t \in MCThreads |-> IF t = server THEN cpu1 ELSE cpu2]

ipc(to, from, snd, rcv) == [to |-> to, from |-> from, snd |-> snd, rcv |-> rcv]
CallsOf(ofServer, ofClient, ofUser) == [t \in MCThreads |->
    CASE t = server -> ofServer [] t = client -> ofClient [] t = user -> ofUser]

\* The server answers and waits, or polls; the client calls it, the other one
\* sends and receives from anybody.
MCCalls == CallsOf(
    {ipc(client, anythread, "zero", "never"), ipc(nilthread, anythread, "never", "zero"),
     ipc(user, anythread, "zero", "zero")},
    {ipc(server, server, "never", "never")},
    {ipc(server, nilthread, "never", "never"), ipc(server, nilthread, "zero", "never"),
     ipc(nilthread, anythread, "never", "never")})

\* Besides, the client receives from the server without calling it, twice.
Twice == [MCCalls EXCEPT ![client] = @ \cup {ipc(nilthread, server, "never", "never")}]
=============================================================================
