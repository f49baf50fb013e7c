-------------------------------- MODULE Irq --------------------------------
(* Interrupts as IPC (api/v4/interrupt.cc) over the IO-APIC                 *)
(* (platform/generic/intctrl-apic.cc), on one processor.  Every interrupt   *)
(* has a kernel thread.  An interrupt is masked and becomes a message of    *)
(* its thread to the handler: at once if the handler waits for it, and      *)
(* else the thread polls in the handler's send queue and sends the message  *)
(* when it is run.  The handler acknowledges by a message to the thread,    *)
(* which unmasks the interrupt.                                             *)
(*                                                                          *)
(* The kernel runs with interrupts disabled; which of the threads that can  *)
(* run does is left open.  Handlers send acknowledgements with a timeout of *)
(* zero: an interrupt thread does not look at its own send queue.           *)
EXTENDS Lists, FiniteSets

CONSTANTS
    Irqs, Handlers, null,
    anythread,
    EdgeTriggered,      \* the other interrupts are level triggered
    Associations,       \* <<i, h>>: ThreadControl may make h the handler of i
    ChangeIn,           \* bound: it changes handlers in these states of the
                        \* interrupt thread, <<state, where it goes on>>
    Deletions           \* the handlers that may be deleted

States == {"halted", "aborted", "polling", "locked_running", "running", "waiting_forever"}

ASSUME IrqAssumption ==
    /\ IsFiniteSet(Irqs) /\ IsFiniteSet(Handlers) /\ Irqs \cap Handlers = {}
    /\ anythread \notin Irqs /\ null \notin Irqs \cup Handlers \cup {anythread} \cup States
    /\ EdgeTriggered \subseteq Irqs /\ Deletions \subseteq Handlers
    /\ Associations \subseteq Irqs \X (Irqs \cup Handlers)
    /\ \A a \in Associations : a[2] \in Handlers \cup {a[1]}

VARIABLES
    raised,             \* the interrupts whose device wants to be serviced
    latched,            \* edges on their way to the processor
    masked, pending,    \* the redirection table: entry.x.mask, pending
    disabled,           \* interrupts masked in the IO-APIC and without a vector
    state,              \* of an interrupt thread; null before it is activated
    goes_on,            \* where it goes on: in the loop or after its delivery
    handler,            \* get_irq_handler; the interrupt itself if disabled
    partner,            \* the partner of an interrupt thread
    exists,             \* the handlers that exist
    hstate, from,       \* state of a handler, whom it waits for
    send_queue,         \* of a handler
    serving,            \* the interrupt whose message a handler was given
    todo                \* the handlers that have not serviced its device yet

devices == <<raised, latched>>
table == <<masked, pending, disabled>>
threads == <<state, goes_on, handler, partner>>
users == <<exists, hstate, from, send_queue, serving, todo>>
vars == <<devices, table, threads, users>>

TypeOK ==
    /\ raised \subseteq Irqs /\ latched \subseteq EdgeTriggered
    /\ masked \subseteq Irqs /\ pending \subseteq masked \cap EdgeTriggered /\ disabled \subseteq Irqs
    /\ state \in [Irqs -> States \cup {null}]
    /\ goes_on \in [Irqs -> {"loop", "delivered"}]
    /\ handler \in [Irqs -> Irqs \cup Handlers] /\ partner \in [Irqs -> Handlers \cup {null}]
    /\ exists \subseteq Handlers
    /\ hstate \in [Handlers -> {"running", "waiting", "locked_waiting"}]
    /\ from \in [Handlers -> Irqs \cup {anythread}]
    /\ send_queue \in [Handlers -> Seq(Irqs)]
    /\ serving \in [Handlers -> Irqs \cup {null}] /\ todo \subseteq Handlers

Init ==
    /\ raised = {} /\ latched = {}
    /\ masked = Irqs /\ pending = {} /\ disabled = Irqs
    /\ state = [i \in Irqs |-> null] /\ goes_on = [i \in Irqs |-> "loop"]
    /\ handler = [i \in Irqs |-> i] /\ partner = [i \in Irqs |-> null]
    /\ exists = Handlers
    /\ hstate = [h \in Handlers |-> "running"] /\ from = [h \in Handlers |-> anythread]
    /\ send_queue = [h \in Handlers |-> <<>>]
    /\ serving = [h \in Handlers |-> null] /\ todo = {}

-----------------------------------------------------------------------------
(* From the device to the handler                                           *)

\* A device signals.  (An edge that the IO-APIC masks would be lost: drivers
\* start such devices when they have their interrupt.)
Raise(i) ==
    /\ i \notin raised /\ (i \in EdgeTriggered => i \notin disabled)
    /\ raised' = raised \cup {i}
    /\ latched' = latched \cup ({i} \cap EdgeTriggered)
    /\ UNCHANGED <<table, threads, users>>

\* The shortcut of handle_interrupt, for a handler that waits for the message.
Deliver(i, h) ==
    /\ state' = [state EXCEPT ![i] = "waiting_forever"]
    /\ partner' = [partner EXCEPT ![i] = h]
    /\ hstate' = [hstate EXCEPT ![h] = "running"]
    /\ serving' = [serving EXCEPT ![h] = i] /\ todo' = todo \cup {h}
    /\ UNCHANGED send_queue

\* scheduler_t::schedule_interrupt.
ScheduleInterrupt(i, h) ==
    /\ state' = [state EXCEPT ![i] = "polling"]
    /\ partner' = [partner EXCEPT ![i] = h]
    /\ send_queue' = [send_queue EXCEPT ![h] = EnqueueTail(@, i)]
    /\ UNCHANGED <<hstate, serving, todo>>

WaitsFor(h, i) == hstate[h] = "waiting" /\ from[h] \in {i, anythread}

\* handle_interrupt, for a thread in state s.
HandleInterrupt(i, s) ==
    LET h == handler[i]
    IN  \/ /\ s # "halted"
           /\ UNCHANGED <<state, partner, hstate, serving, todo, send_queue>>
        \/ /\ s = "halted" /\ h \notin exists
           /\ state' = [state EXCEPT ![i] = "aborted"]
           /\ UNCHANGED <<partner, hstate, serving, todo, send_queue>>
        \/ /\ s = "halted" /\ h \in exists /\ WaitsFor(h, i)
           /\ Deliver(i, h)
        \/ /\ s = "halted" /\ h \in exists /\ ~WaitsFor(h, i)
           /\ ScheduleInterrupt(i, h)

\* The interrupt reaches the processor while interrupts are enabled.  A level
\* does when it is not masked in the IO-APIC, which intctrl_t::mask does for
\* levels only.
Signalled(i) ==
    IF i \in EdgeTriggered THEN i \in latched ELSE i \in raised \ (masked \cup disabled)

HandleIrqMut2(i) ==
    /\ Signalled(i)
    /\ latched' = latched \ {i}
    /\ masked' = masked \cup ({i} \ EdgeTriggered)
    /\ IF i \in EdgeTriggered /\ i \in masked
       THEN /\ pending' = pending \cup {i}
            /\ UNCHANGED <<state, partner, hstate, serving, todo, send_queue>>
       ELSE HandleInterrupt(i, state[i]) /\ UNCHANGED pending
    /\ UNCHANGED <<raised, disabled, goes_on, handler, exists, from>>

HandleIrqMut(i) ==
    /\ Signalled(i)
    /\ latched' = latched \ {i}
    /\ UNCHANGED pending
    /\ masked' = masked \cup {i}
    /\ IF i \in EdgeTriggered /\ i \in masked
       THEN UNCHANGED <<state, partner, hstate, serving, todo, send_queue>>
       ELSE HandleInterrupt(i, state[i])
    /\ UNCHANGED <<raised, disabled, goes_on, handler, exists, from>>

\* intctrl_t::handle_irq: mask, and deliver; an edge that comes while the
\* interrupt is masked is kept pending.
HandleIrq(i) ==
    /\ Signalled(i)
    /\ latched' = latched \ {i}
    /\ masked' = masked \cup {i}
    /\ IF i \in EdgeTriggered /\ i \in masked
       THEN /\ pending' = pending \cup {i}
            /\ UNCHANGED <<state, partner, hstate, serving, todo, send_queue>>
       ELSE HandleInterrupt(i, state[i]) /\ UNCHANGED pending
    /\ UNCHANGED <<raised, disabled, goes_on, handler, exists, from>>

-----------------------------------------------------------------------------
(* The interrupt thread                                                     *)

InSendQueue(i) == \E h \in Handlers : InList(send_queue[h], i)

SendMut(i) ==
    LET h == handler[i]
    IN  /\ InSendQueue(i) /\ goes_on[i] = "loop"
        /\ state' = [state EXCEPT ![i] = "waiting_forever"]
        /\ goes_on' = [goes_on EXCEPT ![i] = "delivered"]
        /\ partner' = [partner EXCEPT ![i] = h]
        /\ hstate' = [hstate EXCEPT ![h] = "running"]
        /\ serving' = [serving EXCEPT ![h] = i] /\ todo' = todo \cup {h}
        /\ UNCHANGED <<send_queue, pending, masked>>

\* irq_thread finds itself in a send queue: it sends, and waits for the
\* acknowledgement in the middle of its loop.
Send(i) ==
    LET h == handler[i]
    IN  /\ InSendQueue(i) /\ goes_on[i] = "loop"
        /\ send_queue' = [send_queue EXCEPT ![h] = Without(@, i)]
        /\ state' = [state EXCEPT ![i] = "waiting_forever"]
        /\ goes_on' = [goes_on EXCEPT ![i] = "delivered"]
        /\ partner' = [partner EXCEPT ![i] = h]
        /\ hstate' = [hstate EXCEPT ![h] = "running"]
        /\ serving' = [serving EXCEPT ![h] = i] /\ todo' = todo \cup {h}
        /\ UNCHANGED <<pending, masked>>

\* intctrl_t::unmask, and what irq_thread does with its result: an edge that is
\* pending is delivered, and the interrupt stays masked.
Unmask(i) ==
    IF i \in pending
    THEN pending' = pending \ {i} /\ HandleInterrupt(i, "halted") /\ UNCHANGED masked
    ELSE /\ masked' = masked \ {i}
         /\ state' = [state EXCEPT ![i] = "halted"]
         /\ UNCHANGED <<pending, partner, hstate, serving, todo, send_queue>>

\* It was activated by an acknowledgement.
Acknowledged(i) ==
    /\ ~InSendQueue(i) \/ goes_on[i] = "delivered"
    /\ goes_on' = [goes_on EXCEPT ![i] = "loop"]
    /\ Unmask(i)

IrqThread(i) ==
    /\ state[i] \in {"locked_running", "running"}
    /\ Send(i) \/ Acknowledged(i)
    /\ UNCHANGED <<devices, disabled, handler, exists, from>>

-----------------------------------------------------------------------------
(* The handler                                                              *)

\* It does what the device wants, once before it acknowledges.
Service(h) ==
    /\ hstate[h] = "running" /\ h \in todo \cap exists
    /\ raised' = raised \ {serving[h]}
    /\ todo' = todo \ {h}
    /\ UNCHANGED <<latched, table, threads, exists, hstate, from, send_queue, serving>>

\* The interrupt thread found by a receive from src: the head of the send
\* queue, or that one.
Sender(h, src) ==
    IF src = anythread
    THEN IF send_queue[h] = <<>> THEN null ELSE Head(send_queue[h])
    ELSE src

\* Receive phase of SYS_IPC; th is the state of the interrupt threads after the
\* send phase.
Receive(h, src, th) ==
    LET i == Sender(h, src)
    IN  IF i # null /\ th[i] = "polling" /\ partner[i] = h
        THEN /\ state' = [th EXCEPT ![i] = "locked_running"]
             /\ hstate' = [hstate EXCEPT ![h] = "locked_waiting"]
             /\ UNCHANGED from
        ELSE /\ state' = th
             /\ hstate' = [hstate EXCEPT ![h] = "waiting"]
             /\ from' = [from EXCEPT ![h] = src]

Wait(h, src) ==
    /\ hstate[h] = "running" /\ h \in exists /\ serving[h] = null
    /\ Receive(h, src, state)
    /\ UNCHANGED <<devices, table, goes_on, handler, partner, exists, send_queue, serving, todo>>

\* Acknowledge the interrupt served, and wait for the next.  If its thread does
\* not wait for this handler (any more), the send phase fails.
ReplyWait(h, src) ==
    LET i == serving[h]
    IN  /\ hstate[h] = "running" /\ h \in exists \ todo /\ i # null
        /\ IF state[i] = "waiting_forever" /\ partner[i] = h
           THEN Receive(h, src, [state EXCEPT ![i] = "running"])
           ELSE UNCHANGED <<state, hstate, from>>
        /\ serving' = [serving EXCEPT ![h] = null]
        /\ UNCHANGED <<devices, table, goes_on, handler, partner, exists, send_queue, todo>>

-----------------------------------------------------------------------------
(* ThreadControl                                                            *)

\* intctrl_t::enable and disable.
Enable(i) ==
    /\ pending' = pending \ {i} /\ masked' = masked \ {i} /\ disabled' = disabled \ {i}
Disable(i) ==
    /\ pending' = pending \ {i} /\ masked' = masked \cup {i} /\ disabled' = disabled \cup {i}

\* thread_control_interrupt: a new handler, or with the interrupt itself, none.
\* It enables the interrupt, whatever its thread was waiting for.
ThreadControl(i, h) ==
    /\ <<i, h>> \in Associations
    /\ h \in exists \/ (h = i /\ state[i] # null)
    /\ state[i] # null => handler[i] # h /\ <<state[i], goes_on[i]>> \in ChangeIn
    /\ send_queue' = IF state[i] = "polling"
                     THEN [send_queue EXCEPT ![partner[i]] = Without(@, i)]
                     ELSE send_queue
    /\ handler' = [handler EXCEPT ![i] = h]
    /\ state' = [state EXCEPT ![i] = IF h = i THEN "aborted" ELSE "halted"]
    /\ IF h = i THEN Disable(i) ELSE Enable(i)
    /\ UNCHANGED <<devices, goes_on, partner, exists, hstate, from, serving, todo>>

\* A handler is deleted, while its interrupts could be given to another one and
\* no interrupt thread is in its send queue.
Delete(h) ==
    /\ h \in Deletions \cap exists /\ send_queue[h] = <<>>
    /\ \A i \in Irqs : handler[i] = h => <<state[i], goes_on[i]>> \in ChangeIn
    /\ exists' = exists \ {h}
    /\ serving' = [serving EXCEPT ![h] = null]
    /\ UNCHANGED <<devices, table, threads, hstate, from, send_queue, todo>>

-----------------------------------------------------------------------------
Next ==
    \/ \E i \in Irqs :
           \/ Raise(i) \/ HandleIrq(i) \/ IrqThread(i)
           \/ \E h \in Handlers \cup {i} : ThreadControl(i, h)
    \/ \E h \in Handlers :
           \/ Service(h) \/ Delete(h)
           \/ \E src \in Irqs \cup {anythread} : Wait(h, src) \/ ReplyWait(h, src)

\* The processor takes interrupts and the interrupt threads run; a handler keeps
\* serving interrupts and waiting for the next.
Handles(h) == Service(h) \/ Wait(h, anythread) \/ ReplyWait(h, anythread)
Fairness ==
    /\ \A i \in Irqs : WF_vars(HandleIrq(i)) /\ WF_vars(IrqThread(i))
    /\ \A h \in Handlers : WF_vars(Handles(h))

Spec == Init /\ [][Next]_vars /\ Fairness
-----------------------------------------------------------------------------
(* Properties                                                               *)

\* The send queues hold the interrupt threads that poll on their handler, each
\* once, and a handler locked for a transfer has one that is about to send:
\* irq_thread takes its place in the queue for the order to send.
SendersQueued ==
    /\ \A i \in Irqs, h \in Handlers :
           InList(send_queue[h], i) <=>
               state[i] \in {"polling", "locked_running"} /\ partner[i] = h
    /\ \A h \in exists : hstate[h] = "locked_waiting" =>
           \E i \in Irqs : state[i] = "locked_running" /\ partner[i] = h /\ goes_on[i] = "loop"

\* From an interrupt to the acknowledgement of its message, the interrupt stays
\* masked: a handler is not sent a second message before.
MaskedUntilAcknowledged ==
    \A i \in Irqs : state[i] \in {"polling", "locked_running", "running", "waiting_forever"}
                        => i \in masked

\* What a device signals is serviced, however the interrupts of several devices
\* meet a busy handler, and though an edge may come while the last message is
\* not acknowledged; unless the interrupt gets another handler or none, its
\* handler is deleted, or handlers keep waiting for one interrupt only.
Handler(i, h) == handler[i] = h /\ h \in exists
WaitsOnly(h) == hstate[h] = "waiting" /\ from[h] # anythread
Serviced ==
    (\A h \in Handlers : <>[]~WaitsOnly(h)) =>
        \A i \in Irqs, h \in Handlers :
            (i \in raised /\ Handler(i, h)) ~> (i \notin raised \/ ~Handler(i, h))
=============================================================================
