------------------------------- MODULE MCTlb -------------------------------
(* Instances of Tlb for TLC.                                                *)
EXTENDS Tlb

CONSTANTS cpu1, cpu2, cpu3, pager, client

MCCpus == {cpu1, cpu2}
MCSpaces == {pager, client}

\* The pager revokes its mapping and what the client has of it, the client its
\* own, and the pager a large fpage that it has given to nobody.
MCRevocations == {[by |-> pager, from |-> {pager, client}, large |-> FALSE],
                  [by |-> client, from |-> {client}, large |-> FALSE],
                  [by |-> pager, from |-> {pager}, large |-> TRUE]}
OneSender == {cpu1}

\* The pager revokes a large fpage that the client has a mapping of.
Large == {[by |-> pager, from |-> {pager, client}, large |-> TRUE]}
NoSender == {}
\* Both processors map in an IPC to the same receiver, over what the client has.
Overmap == {[by |-> pager, from |-> {pager, client}, large |-> FALSE]}

=============================================================================
