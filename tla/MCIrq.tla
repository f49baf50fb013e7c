------------------------------- MODULE MCIrq -------------------------------
(* Instances of Irq for TLC.                                                *)
EXTENDS Irq

CONSTANTS level, edge, driver, driver2

MCIrqs == {level, edge}
MCEdge == {edge}
MCHandlers == {driver, driver2}

\* One driver for both interrupts; the level may be given to a second one and
\* back, and be disabled, unless the message that its thread sent itself has not
\* been acknowledged.
MCAssociations == {<<edge, driver>>, <<level, driver>>, <<level, driver2>>, <<level, level>>}
MCChangeIn == {"halted", "polling", "aborted", "waiting_forever"} \X {"loop"}
MCDeletions == {driver2}

\* The same, whenever it likes.
AnyTime == {"halted", "polling", "aborted", "waiting_forever"} \X {"loop", "delivered"}
=============================================================================
