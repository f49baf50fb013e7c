-------------------------------- MODULE Smp --------------------------------
(* Asynchronous requests between processors (api/v4/smp.h, api/v4/smp.cc):  *)
(* every processor has a mailbox, a ring that the others fill under its     *)
(* spinlock and that its owner empties when the interrupt of a request or   *)
(* of the timer finds it outside the kernel.  The kernel runs with          *)
(* interrupts disabled, but a handler may switch to another thread and      *)
(* leave the walk of the mailbox suspended on the stack of the old one.     *)
(*                                                                          *)
(* The requests modelled are calls that wait for an answer (as those of     *)
(* ExchangeRegisters and ThreadControl), whose handler sends the answer by  *)
(* another request, and posts that need none (Schedule).                    *)
EXTENDS Naturals, Sequences, FiniteSets

CONSTANTS
    Cpus, Threads, null,
    Home,                   \* the processor of every thread
    Calls,                  \* <<t, d>>: thread t may call processor d
    Posts,                  \* <<t, d>>: its requests to d that nobody answers
    MaxEntries,             \* MAX_MAILBOX_ENTRIES
    MaxSuspended            \* bound: the suspended walks of every processor

ASSUME SmpAssumption ==
    /\ IsFiniteSet(Cpus) /\ IsFiniteSet(Threads)
    /\ null \notin Cpus \cup Threads \cup {"call", "reply", "post"}
    /\ Home \in [Threads -> Cpus] /\ Calls \cup Posts \subseteq Threads \X Cpus
    /\ MaxEntries \in Nat /\ MaxEntries >= 2 /\ MaxSuspended \in [Cpus -> Nat]

\* cpu_mb_entry_t: the handler, the thread it is about.
Requests == [handler : {"call", "reply", "post"}, tcb : Threads]
Slots == 0..(MaxEntries - 1)
Sends == [req : Requests, to : Cpus, slot : Slots, back : {"user", "return"}]
NoRequest == [handler |-> null, tcb |-> null]

VARIABLES
    entries, first_alloc, first_free, lock,     \* cpu_mailboxes
    ipi,            \* processors with a latched IDT_LAPIC_XCPU_IPI
    pc,             \* where a processor is
    out,            \* the request it is sending, and where to
    entry,          \* walk_mailbox's copy of the request it handles
    suspended,      \* walks left inside their handler by a thread switch
    waiting         \* threads that wait for the answer to their call

boxes == <<entries, first_alloc, first_free, lock>>
vars == <<boxes, ipi, pc, out, entry, suspended, waiting>>

\* "user": in user mode or asleep, with interrupts enabled; the other places
\* are in the kernel.
Places == {"user", "alloc", "set", "take", "handle", "stopped"}

TypeOK ==
    /\ entries \in [Cpus -> [Slots -> Requests \cup {NoRequest}]]
    /\ first_alloc \in [Cpus -> Slots] /\ first_free \in [Cpus -> Slots]
    /\ lock \in [Cpus -> Cpus \cup {null}]
    /\ ipi \subseteq Cpus
    /\ pc \in [Cpus -> Places]
    /\ out \in [Cpus -> Sends \cup {null}]
    /\ entry \in [Cpus -> Requests \cup {NoRequest}]
    /\ suspended \in [Cpus -> Nat] /\ \A c \in Cpus : suspended[c] <= MaxSuspended[c]
    /\ waiting \subseteq Threads

Init ==
    /\ entries = [c \in Cpus |-> [i \in Slots |-> NoRequest]]
    /\ first_alloc = [c \in Cpus |-> 0] /\ first_free = [c \in Cpus |-> 0]
    /\ lock = [c \in Cpus |-> null]
    /\ ipi = {}
    /\ pc = [c \in Cpus |-> "user"]
    /\ out = [c \in Cpus |-> null]
    /\ entry = [c \in Cpus |-> NoRequest]
    /\ suspended = [c \in Cpus |-> 0]
    /\ waiting = {}

NextSlot(i) == (i + 1) % MaxEntries
GoTo(c, place) == pc' = [pc EXCEPT ![c] = place]

\* walk_mailbox looks for a request, without the lock, and then takes it.
Walk(c) == GoTo(c, IF first_free[c] # first_alloc[c] THEN "take" ELSE "user")

-----------------------------------------------------------------------------
(* The sender                                                               *)

\* xcpu_request: what to send where, and what follows.
Request(c, d, r, back) ==
    /\ out' = [out EXCEPT ![c] = [req |-> r, to |-> d, slot |-> 0, back |-> back]]
    /\ GoTo(c, "alloc")

\* A system call of thread t asks processor d; t blocks until the answer.
Call(t, d) ==
    /\ pc[Home[t]] = "user" /\ t \notin waiting /\ <<t, d>> \in Calls
    /\ Request(Home[t], d, [handler |-> "call", tcb |-> t], "user")
    /\ waiting' = waiting \cup {t}
    /\ UNCHANGED <<boxes, ipi, entry, suspended>>

\* One that needs no answer.
Post(t, d) ==
    /\ pc[Home[t]] = "user" /\ t \notin waiting /\ <<t, d>> \in Posts
    /\ Request(Home[t], d, [handler |-> "post", tcb |-> t], "user")
    /\ UNCHANGED <<boxes, ipi, entry, suspended, waiting>>

FullMut(d) == FALSE
\* One entry stays free, to tell a full ring from an empty one.
Full(d) == NextSlot(first_free[d]) = first_alloc[d]

\* cpu_mb_t::alloc, which keeps the lock; spin_forever if there is no entry.
Alloc(c) ==
    LET d == out[c].to
    IN  /\ pc[c] = "alloc" /\ lock[d] = null
        /\ IF Full(d)
           THEN GoTo(c, "stopped") /\ UNCHANGED <<boxes, out>>
           ELSE /\ out' = [out EXCEPT ![c].slot = first_free[d]]
                /\ first_free' = [first_free EXCEPT ![d] = NextSlot(@)]
                /\ lock' = [lock EXCEPT ![d] = c]
                /\ GoTo(c, "set")
                /\ UNCHANGED <<entries, first_alloc>>
        /\ UNCHANGED <<ipi, entry, suspended, waiting>>

\* A handler is done: the walk goes on, or the handler has switched to another
\* thread and the walk stays behind.
Return(c) ==
    \/ Walk(c) /\ UNCHANGED suspended
    \/ /\ suspended[c] < MaxSuspended[c]
       /\ suspended' = [suspended EXCEPT ![c] = @ + 1]
       /\ GoTo(c, "user")

\* cpu_mb_entry_t::set and cpu_mb_t::commit, then smp_xcpu_trigger.
Commit(c) ==
    LET d == out[c].to
    IN  /\ pc[c] = "set"
        /\ entries' = [entries EXCEPT ![d][out[c].slot] = out[c].req]
        /\ lock' = [lock EXCEPT ![d] = null]
        /\ ipi' = ipi \cup {d}
        /\ out' = [out EXCEPT ![c] = null]
        /\ IF out[c].back = "return" THEN Return(c) ELSE GoTo(c, "user") /\ UNCHANGED suspended
        /\ UNCHANGED <<first_alloc, first_free, entry, waiting>>

-----------------------------------------------------------------------------
(* The receiver                                                             *)

\* smp_trigger_ipi calls process_xcpu_mailbox.
Interrupt(c) ==
    /\ pc[c] = "user" /\ c \in ipi
    /\ ipi' = ipi \ {c}
    /\ Walk(c)
    /\ UNCHANGED <<boxes, out, entry, suspended, waiting>>

TimerInterruptMut(c) == pc[c] = "user" /\ UNCHANGED vars
\* handle_timer_interrupt calls process_xcpu_mailbox.
TimerInterrupt(c) ==
    /\ pc[c] = "user"
    /\ Walk(c)
    /\ UNCHANGED <<boxes, ipi, out, entry, suspended, waiting>>

\* The thread with a suspended walk is switched to again.
Resume(c) ==
    /\ pc[c] = "user" /\ suspended[c] > 0
    /\ suspended' = [suspended EXCEPT ![c] = @ - 1]
    /\ Walk(c)
    /\ UNCHANGED <<boxes, ipi, out, entry, waiting>>

TakeMut(c) ==
    /\ pc[c] = "take"
    /\ entry' = [entry EXCEPT ![c] = entries[c][first_alloc[c]]]
    /\ entries' = [entries EXCEPT ![c][first_alloc[c]] = NoRequest]
    /\ first_alloc' = [first_alloc EXCEPT ![c] = NextSlot(@)]
    /\ GoTo(c, "handle")
    /\ UNCHANGED <<first_free, lock, ipi, out, suspended, waiting>>
\* It copies the oldest request and frees its entry under the lock.
Take(c) ==
    /\ pc[c] = "take" /\ lock[c] = null
    /\ entry' = [entry EXCEPT ![c] = entries[c][first_alloc[c]]]
    /\ entries' = [entries EXCEPT ![c][first_alloc[c]] = NoRequest]
    /\ first_alloc' = [first_alloc EXCEPT ![c] = NextSlot(@)]
    /\ GoTo(c, "handle")
    /\ UNCHANGED <<first_free, lock, ipi, out, suspended, waiting>>

\* The handler of a call answers, that of an answer wakes the caller.
Handle(c) ==
    LET t == entry[c].tcb
    IN  /\ pc[c] = "handle"
        /\ entry' = [entry EXCEPT ![c] = NoRequest]
        /\ \/ /\ entry[c].handler = "call"
              /\ Request(c, Home[t], [handler |-> "reply", tcb |-> t], "return")
              /\ UNCHANGED <<suspended, waiting>>
           \/ /\ entry[c].handler = "reply"
              /\ waiting' = waiting \ {t}
              /\ Return(c)
              /\ UNCHANGED out
           \/ /\ entry[c].handler = "post"
              /\ Return(c)
              /\ UNCHANGED <<out, waiting>>
        /\ UNCHANGED <<boxes, ipi>>

-----------------------------------------------------------------------------
Next ==
    \/ \E t \in Threads, d \in Cpus : Call(t, d) \/ Post(t, d)
    \/ \E c \in Cpus :
          \/ Alloc(c) \/ Commit(c)
          \/ Interrupt(c) \/ TimerInterrupt(c) \/ Resume(c)
          \/ Take(c) \/ Handle(c)

\* Every processor goes on executing in the kernel; an interrupt stays latched
\* until it is taken, before the next instruction outside the kernel, so a
\* processor that keeps returning there cannot put it off for ever.
Fairness ==
    \A c \in Cpus :
        /\ WF_vars(Alloc(c) \/ Commit(c) \/ Take(c) \/ Handle(c))
        /\ SF_vars(Interrupt(c)) /\ SF_vars(TimerInterrupt(c))

Spec == Init /\ [][Next]_vars /\ Fairness
-----------------------------------------------------------------------------
(* Properties                                                               *)

\* The index of the k-th request in the ring of processor d.
Nth(d, k) == (first_alloc[d] + k - 1) % MaxEntries
Held(d) == (first_free[d] + MaxEntries - first_alloc[d]) % MaxEntries
\* The last entry does not count as long as its sender has not written it.
Accepted(d) == IF lock[d] = null THEN Held(d) ELSE Held(d) - 1

Queue(d) == [k \in 1..Accepted(d) |-> entries[d][Nth(d, k)]]

Queues == [d \in Cpus |-> Queue(d)]
Stopped == {c \in Cpus : pc[c] = "stopped"}
Channel == INSTANCE Channels WITH
    Capacity <- MaxEntries - 1, queue <- Queues, stopped <- Stopped

\* A ring, its unlocked test for requests and its entries that are allocated
\* before they are written are a bounded first-in first-out queue: no request
\* is lost, repeated, overtaken or taken before it is complete, and a sender
\* stops only if MAX_MAILBOX_ENTRIES - 1 requests are waiting.
ImplementsChannels == Channel!ChanSpec

IsFor(r, t) == r.tcb = t /\ r.handler # "post"
\* Its request in a mailbox, being handled, being sent.
Mailed(t) == {x \in Cpus \X Slots : IsFor(entries[x[1]][x[2]], t)}
Handled(t) == {c \in Cpus : pc[c] = "handle" /\ IsFor(entry[c], t)}
Sending(t) == {c \in Cpus : pc[c] \in {"alloc", "set", "stopped"} /\ IsFor(out[c].req, t)}
InFlight(t) == Cardinality(Mailed(t)) + Cardinality(Handled(t)) + Cardinality(Sending(t))

\* A thread that waits for an answer has exactly one call or answer on its way:
\* in a mailbox, about to be sent or being handled; a thread that does not
\* wait has none.
OneRequestPerWait == \A t \in Threads : InFlight(t) = (IF t \in waiting THEN 1 ELSE 0)
\* A processor handles complete requests only (ASSERT(entry.handler) of
\* walk_mailbox): the walk sees first_free move before the entry is written, and
\* must not take it before its sender is done.
HandlesComplete == \A c \in Cpus : pc[c] = "handle" => entry[c] # NoRequest
\* No request is lost, doubled or taken half-written on its way to the answer.
RequestsExact == OneRequestPerWait /\ HandlesComplete

\* A thread that waits for another processor gets its answer, however the
\* interrupts of several requests merge and however often a handler switches
\* away from the walk, unless a mailbox overflows and stops a processor, or a
\* spinlock starves one: the locks of mailboxes are not fair.
Starved(c) == <>[](pc[c] = "alloc")
CallsAnswered ==
    (\A c \in Cpus : ~Starved(c)) =>
        \A t \in Threads : t \in waiting ~> (t \notin waiting \/ \E c \in Cpus : pc[c] = "stopped")
=============================================================================
