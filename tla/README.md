# A formal model of the Pistachio microkernel

Pistachio is the L4 microkernel of the Universities of Karlsruhe and New South
Wales: threads, address spaces, and synchronous IPC between threads, with a
scheduler in the kernel. This directory holds TLA+ specifications of its IPC,
its scheduler, its protocols between processors, its mapping database, its
interrupt threads and its memory allocators, TLC configurations that check them
on small instances, and proofs, checked by TLAPS, of what holds for every
instance.

Paths below are relative to `src/kernel/src/` unless they start with `src/`.

Contents: 1 inventory, 2 modules and code, 3 runs, 4 bounds, 5 fairness,
6 proofs, 7 where the code disagrees with its comments, 8 what is not modelled,
9 plan.

## 1. Inventory

### How the parts fit together

A processor runs one thread at a time, named by its TCB. The kernel runs with
interrupts disabled and changes threads only in `scheduler_t::schedule`, so
between two switches a system call is atomic, and a thread that was switched
away from continues, possibly much later, inside the system call it had begun.
That is the main source of difficulty: what a thread tested before a switch
need not hold after it.

    user level     SYS_IPC   ExchangeRegisters   ThreadControl   Schedule   ThreadSwitch   page fault
                      |             |                  |             |            |            |
    IPC path  <-------+--- unwind <-+------------------+             |            |   (IPC to the pager)
      |  states, partners, send queues, wakeup queue                 |            |
      v                                                              v            v
    scheduler: ready queues, timeslices, current thread  <---  timer interrupt, device interrupts
      |
    other processors: mailboxes, synchronous requests, lists of threads to activate, TCB locks
      |
    spaces --- mapping database --- page tables, TLBs          interrupt threads --- IO-APIC
                   |
            mapping buffers --- kernel memory

The parts share the TCB: IPC writes the state, the partner and the send queue,
the scheduler reads the state and keeps the ready and wakeup queues, the timer
interrupt writes the state of the threads whose timeout has expired and pushes
a notification on their kernel stack, an interrupt thread sends to its handler
by writing both TCBs. Between processors nothing is atomic but what a spinlock
protects: TCB locks, mailbox locks, `mdb_lock`, the lock of the list of threads
to activate, and the spinlock of the kernel memory allocator. A processor that
spins does so with interrupts disabled.

### Components

**IPC path** (`api/v4/ipc.cc`, `tcb.h`, `threadstate.h`, `queueing.h`; modelled
in part). State: per thread the thread state, the partner, the send queue of
the threads that want to send to it, the flag "in a send queue", the message
registers, an armed timeout, and the point in SYS_IPC where its kernel stack
continues. Operations: SYS_IPC (send phase, receive phase, both), page-fault
IPC, propagation. Hard: rendezvous by direct switch, with queues updated
lazily; a sender and a receiver that each tested the other before a switch;
timeouts that fire in between; failure of one phase after the other has
happened. Correct when: no runnable thread is lost, no rendezvous is missed,
each transfer has exactly its two threads, a delivered message wakes its
receiver, polling senders are served.

**IPC unwinding and thread deletion** (`api/v4/thread.cc`; modelled in part).
State: notifications, a saved state and partner for nested IPCs. Operations:
unwind, timeout and error notifications, deletion. Hard: two threads leave an
operation that only one of them was told to leave. Correct when: the partner of
an unwound thread leaves as well, no queue keeps an entry, a deleted TCB stays
dead.

**ExchangeRegisters** (`api/v4/exregs.cc`; modelled in part). Operations: abort
an IPC, halt, resume. Correct when: a halted thread runs again only when it is
resumed.

**Extended IPC transfer** (`api/v4/ipcx.cc`, `space.cc`; modelled in part).
State: the cursors of the loop over the items of sender and receiver, how far
the copy is, the copy areas, a saved IPC per thread, a transfer timeout in the
sender. Operations: copy of strings, mapping of pages, page faults of either
thread in the middle (nested IPC, tunnelled page faults). Hard: a string and its
buffer are divided differently; a fault turns the roles of the two around; either
thread may be aborted, or the timeout fire, anywhere in the nested IPC. Correct
when: what is copied and what is reported as copied are exact, and the two threads
leave the transfer together, whatever ends it.

**Round-robin scheduler** (`api/v4/sched-rr/*`, `api/v4/schedule.{cc,h}`,
`preempt.h`; modelled in part, complete for one processor). State: a circular
list per priority, a cached highest priority, the ready flags, the thread whose
timeslice is charged, timeslice, delay and quantum of each thread, the wakeup
queue, the delay and pending flags in the UTCBs. Operations: the variants of
`schedule`, end of timeslice, the timer interrupt, ThreadSwitch, Schedule, and
what the rest of the kernel asks for. Hard: stale entries that are removed
lazily, timeslices donated to a thread that outlives the donor, several
timeouts on one tick, delays of preemption. Correct when: queues are exact,
runnable threads are found, the highest priority runs, timeslices and delays
are bounded, peers take turns.

**Hierarchical scheduler** (`api/v4/sched-hs/*`; not modelled). An
alternative chosen at configuration time: priority queues inside threads,
strides. Correct when: a domain gets its share.

**Cross-processor calls** (`api/v4/smp.{cc,h}`; modelled in part). State: one
ring of 32 entries per processor, a synchronous entry with a pending and an
acknowledgement mask. Operations: request, process, synchronous request and
answer. Hard: the test for an empty ring has no lock, and an entry is allocated
before it is written; a handler may switch threads and leave the walk of the
mailbox behind; a full ring stops the sender's processor; a synchronous request
reuses its entry as soon as it is acknowledged, and two processors may wait for
each other. Correct when: every request is handled once, in order of entry, and
every synchronous request is answered.

**Cross-processor scheduling and IPC** (`api/v4/schedule.{cc,h}`,
`sched-rr/schedule.cc`, the SMP branches of `ipc.cc` and `thread.cc`; modelled
in part). State: a requeue list per processor, requests of Schedule in a
queue of 128, the processor of each thread, a lock per TCB. Operations: remote
activation, migration, remote IPC, remote Schedule. Hard: a sender and a
receiver that write each other's state from two processors; a pointer that
tells by NULL that a thread is in no list; a thread that migrates while
another processor activates it. Correct when: no activation is lost or
done twice, each transfer has its two threads, nobody waits for a thread that
waits for him.

**Interrupt threads** (`api/v4/interrupt.cc`) and **IO-APIC**
(`platform/generic/intctrl-apic.cc`; both modelled in part). State: per
interrupt a thread that is halted, polling or waiting for the acknowledgement,
the controller's mask, a pending flag for edges. Hard: a device that signals
again before the acknowledgement; a handler that is busy, replaced or deleted.
Correct when: an interrupt stays masked until it is acknowledged, and each is
serviced.

**Thread control and address spaces** (`api/v4/thread.{cc,h}`, `space.{cc,h}`;
not modelled apart from deletion). State: which TCBs exist, are active, in
which space; the thread count of a space. Correct when: a space is freed when
its last thread leaves and not before.

**Kernel memory allocator** (`generic/kmemory.cc`; modelled). State: a
sorted list of free chunks and its length. Operations: alloc, aligned alloc,
free, init, add. Correct when: no chunk is handed out twice, none is lost.

**Mapping buffer allocator** (`generic/mapping_alloc.cc`; modelled). State: per
buffer size a list of frames that have a free buffer. Operations: allocation
and release of a buffer. Hard: a frame leaves its list when it is full, comes
back when one buffer is freed and goes back to the kernel memory when all are,
from any place of the list. Correct when: the lists and the buffers in use
account for every frame.

**Mapping database** (`generic/mapping.cc`, `mdb*.cc`; modelled in part).
State: lists of mappings per frame and per piece of a frame, with depths in
place of pointers to parents, arrays of lists below whole pages. Operations:
map, flush and unmap. Hard: one loop walks lists and arrays, removes what it
walks over, and finds by depths where it may stop. Correct when: a revoked
mapping takes all its descendants with it and nothing else.

**Page-table walker** (`generic/linear_ptab_walker.cc`; modelled in part: the
order in which it tests the source, calls the database, writes the entry,
clears and flushes). **x86 glue** (`glue/v4-x86/*`; modelled in part: which
TLBs are flushed when). Hard: the entry is written after the lock of
the database was released; a processor changes its space while another decides
whether its TLB needs a flush. Correct when: nobody goes on using a revoked
mapping.

**Variable radix tables** (`generic/vrt.cc`), **address-space identifiers**
(`generic/asid.h`): not modelled. The first is a data structure with splitting
and joining of tables; the second a free list with recycling of the oldest
entry. On x86 the first serves IO ports only; the second the PowerPC ports.

**Hardware virtualisation, other architectures and platforms,
kernel information page, kernel debugger, user level, vendored code**: not
modelled, see section 8.

`PROJECT.json` lists every component with its sources and the hazards of the
code at their lines. A hazard with no property says why it has none.

## 2. Modules and code

| module | models | relation |
|---|---|---|
| `Lists` | the circular lists of `queueing.h` as sequences seen from the head | used by `Ipc`, `SchedRR`, `XIpc`, `Irq`, `Mdb` |
| `Dispatch` | the scheduler as IPC sees it: the operations `schedule(dest, flags)`, `schedule(dest1, dest2)`, `schedule()`, with the policy left open | extended by `Ipc`, `Dispatcher` |
| `Ipc` | SYS_IPC, page-fault IPC, timeouts, unwinding, ExchangeRegisters, deletion, on one processor | |
| `Dispatcher` | abstract specification: a scheduler is anything each of whose steps is an operation of `Dispatch` | refined by `SchedRR` |
| `SchedRR` | the round-robin scheduler with its policy | implements `Dispatcher` |
| `Strings` | the loop over string items of `extended_transfer`, as operators on its locals, with a reference definition of what has to be copied where | extended by `Xfer` |
| `Xfer` | the transfer: copy, page faults and tunnelling, transfer timeouts, unwinding, on one processor | |
| `XIpc` | SYS_IPC and activation between processors | |
| `Channels` | abstract specification: bounded first-in first-out queues of requests between processors | refined by `Smp` |
| `Smp` | the mailboxes, their interrupts and the walk over them | implements `Channels` |
| `Derivation` | abstract specification: who was mapped from whom, and revoking what is derived | refined by `Mdb` |
| `Mdb` | the mapping database and the page-table entries it tracks | implements `Derivation` |
| `Tlb` | revoking a mapping on several processors: tags, synchronous requests, thread switches | |
| `Irq` | interrupt threads over the IO-APIC | |
| `Kmem` | the kernel memory allocator | extended by `MdbBuffers` |
| `MdbBuffers` | the mapping buffers, composed with the memory they come from | |
| `MC*` | the instances for TLC | |
| `Lists_proofs` | lemmas about `Lists` and about sequences | extended by the other modules of proofs that have lists |
| `Ipc_proofs` | types, runnable threads, transfers, deletions | extends `Ipc` |
| `Mapping_proofs` | the two allocators, the mapping database, and the revocation of mappings | extends `MdbBuffers`, `Mdb` and `Tlb`, which have no name in common |
| `SchedRR_proofs`, `Smp_proofs`, `Irq_proofs`, `XIpc_proofs`, `Xfer_proofs` | the theorems about a module | extend that module |

`Ipc` and `SchedRR` are composed by assume and guarantee. `Ipc` allows
every choice a scheduler could make, in the operators of `Dispatch`;
`ImplementsDispatcher` says each step of `SchedRR` is one of those choices. The
invariants of `Ipc` thus hold with any policy, this one included. Where the
code relies on the policy, the model of IPC does not know it: what it
finds must be reproduced by a scheduler before it is called a finding, and the
ones of section 7 are.

### Ipc

State: `state`, `partner`, `sendq`, `sendflag` are the fields of the
TCB with those meanings, `saved` the state and the partner that a page fault has
put aside, `ready`, `current`, `wakeup` the scheduler's, `alive`
the TCBs whose global id is valid, `notify` the function that `tcb_t::notify`
has pushed. `frame` is where the kernel stack of a thread continues, with its
local variables `req`, `sender_id`, `uw`. A caller names whom it likes:
`invalid` is an id that no thread has, to send to or to receive from. A message is the name of the thread
that composed it; an error tag is a message of its own. `failed` collects the
ASSERTs that did not hold; nothing moves after one.

| actions | code |
|---|---|
| `IpcCall`, `PageFault`, `RestoreState` | entry of SYS_IPC; `send_pagefault_ipc`, `save_state`, `restore_state` |
| `SendNonExisting`, `SendZeroTimeout`, `SendBlocked`, `SendReady`, `SendResume` | send phase of `ipc.cc` up to the transfer, one action per outcome |
| `Transfer`, `TransferError` | `transfer_message` with the redirection of a propagated partner, and its error branch |
| `SendOnly`, `ReceiveNonExisting`, `ReceiveZeroTimeout`, `ReceiveBlocked`, `ReceiveAccept`, `ReceiveResume` | receive phase, one action per outcome |
| `TimerInterrupt`, `IdleSchedule` | `parse_wakeup_queues` and the end of a timeslice with any set of expired timeouts; the idle loop |
| `UnwindUnstarted`, `UnwindLocked`, `HandleIpcError`, `HandleIpcTimeout`, `TimedOut` | `tcb_t::unwind` and the two notifications |
| `ExregsAbort`, `ExregsAborted`, `ExregsHalt` | `perform_exregs` before and after the unwind, and without one |
| `Delete`, `Deleted` | `tcb_t::delete_tcb` before and after the unwind |

The kernel is cut into actions where it switches threads, and at the points of
SYS_IPC where control comes back from a switch or from a test that decides the
outcome. Cutting it finer would add nothing: no other action is enabled while
the current thread is in the kernel, since interrupts are taken in user mode
and in the idle loop only, when `schedule` has found nothing to run.

An unwind that finds a nested IPC (`Nested`) restores the IPC that the page fault
interrupted and unwinds that one as well, in another step.
A scheduler that switches inside `unwind` is modelled: `UnwindLocked` may leave
the current thread at `unwound`, and its second half follows when it is
dispatched again.

### SchedRR

`rq` is `prio_queue_t`: `list` the queue of each priority from its head on,
`max` the cached highest priority, `ready` the flags. `timeslice_tcb` is the
thread whose timeslice is charged, `sched` the rest of the scheduler state of
each thread, `wakeup_list` the wakeup queue. `panic` stands for the kernel
having stopped at UNIMPLEMENTED, in `total_quantum_expired`.

| actions | code |
|---|---|
| `Send`, `Block`, `Answer`, `LeaveQueue` | what IPC asks for: `sched_sndonly`, `sched_ipcblk`, `sched_rplywt`, `cancel_timeout` |
| `Yield`, `ThreadSwitch` | `sys_thread_switch`; SYS_THREAD_SWITCH to a thread |
| `TickIdle`, `TickWithin`, `TickDelayed`, `TickExpired` | `handle_timer_interrupt`, one action per outcome, each with `parse_wakeup_queues` in it |
| `IdleSchedule`, `Interrupt` | the idle loop; `handle_interrupt` that finds its handler waiting |
| `Halt`, `Resume`, `Delete` | ExchangeRegisters and ThreadControl |
| `SetDelay` | a thread writes the delay flag in its own UTCB |
| `SysSchedule` | `check_schedule_parameters`, `commit_schedule_parameters` |

`FindNext` is the whole search of `find_next_thread`: it removes the entries it
passes over and leaves the queue of the thread it finds turned to that thread.
Timeslices are integers, and what the code passes through a `u32_t` is
taken modulo `U32`.

Abstracted in both: register contents, typed items beyond "the transfer may
fail", tracing, the debugger.

### Strings and Xfer

`Strings` has the registers that describe a string (`Header`, `Pointer`) and the
turns of the loop: `NextItem`, `PartCopied` with `NextSource` (lines 307-348) and
`NextTarget` (350-421). `Placement` says what has to be copied, from the
sizes of strings and buffers alone, with no cursor. A page stands for the memory
behind one pointer, and a length counts units of it.

`Xfer` is not cut out of `Ipc`: its rendezvous is that of `Ipc` without
timeouts and without a receive phase after the send, and what it adds is what
happens while the two are locked. `state`, `partner`, `saved`, `notify` are
those of the TCB, `x` the locals of `extended_transfer` with `misc.ipc_copy`,
`copy_area` and `has_xfer_timeout` flags, `wakeup` the armed timeouts, `absent` the
pages that will fault. `got` and `outcome`, history variables, hold what has
arrived and what the last IPC reported. `current` = `idle` stands for everybody
else: the pagers, and threads that abort others.

| actions | code |
|---|---|
| `SendCall`, `SendResume`, `ReceiveCall`, `ReceiveResume` | SYS_IPC up to the transfer, and after it |
| `Item`, `CopyUnit`, `CopyDone`, `Complete`, `MessageOverflow` | `extended_transfer`, `ipc_copy` |
| `LocalFault`, `TunnelledFault`, `FaultTimeout`, `TunnelPagefault` | `handle_pagefault` with `handle_xfer_timeouts`; `tunnel_pagefault` |
| `PagerReceives`, `FaultSent`, `PagerReplies`, `FaultHandled` | the nested IPC of `send_pagefault_ipc`, up to `restore_state` |
| `Expire`, `HandleIpcTimeout` | `parse_wakeup_queues`; `handle_ipc_timeout` |
| `ExregsAbort`, `HandleIpcError` | `perform_exregs` with `unwind`; `handle_ipc_error` |

### XIpc

`state`, `partner`, `send_queue`, `tcb_lock` are those of the TCB, `requeue` the
list of threads another processor wants activated, `ready` and `current` the
scheduler's. `pc` is where a thread is in SYS_IPC; `other` is the local
variable `from_tcb` or `to_tcb`. `inbox`, a history variable, lists who has
transferred a message into a thread since its receive began. The code is cut
wherever another processor's access can come between two of its own; memory
is sequentially consistent.

| actions | code |
|---|---|
| `Send`, `LockReceiver`, `SendReady`, `SendZeroTimeout`, `SendBlocked`, `Block`, `SendResume`, `Transfer`, `Sent` | send phase of `ipc.cc`, with `to_tcb->lock()` |
| `LockSelf`, `ReceiveZeroTimeout`, `ReceiveBlocked`, `ReceiveReady`, `Accept`, `Received` | receive phase, with `current->lock()` |
| `Activate`, `Insert` | `remote_schedule`: its test without the lock, its insertion with it |
| `Schedule` | the idle loop or the timer: `smp_requeue`, `find_next_thread`, the switch |

The interrupt that `remote_schedule` sends is left out: it makes the other
processor empty its list earlier than its timer or idle loop would, and those
may come at any time here.

### Smp and Channels

A mailbox is `entries` with `first_alloc` and `first_free`, guarded by `lock`;
`ipi` the interrupts latched; `pc`, `out`, `entry` the code a processor is in
and its local variables; `suspended` counts walks whose handler has switched
to another thread. `Call` is a request that is answered by another one, as
those of ExchangeRegisters and ThreadControl; `Post` one that is not, as those of
Schedule.

| actions | code |
|---|---|
| `Call`, `Post` | `xcpu_request` |
| `Alloc`, `Commit` | `cpu_mb_t::alloc` with `spin_forever`; `set`, `commit`, the interrupt |
| `Interrupt`, `TimerInterrupt`, `Resume` | `process_xcpu_mailbox` from the interrupt, from the timer, and when a suspended walk goes on |
| `Take`, `Handle` | `walk_mailbox`: the copy under the lock, and the handler |

`Channels` knows a queue per processor and who has stopped. The queue is the ring
from `first_alloc` on, without an entry that is allocated but not committed.

### Mdb and Derivation

One page frame and the places it can be mapped to, as a whole (`Big`) or in
pieces. `valid` is the page tables; `pages`, `pieces`, `array`, `freed`, `depth`
the nodes: a list for the whole page, lists of pieces below each mapping that
has an array, arrays freed though still named. `doing` is what a processor is
doing, `holder` who has `mdb_lock`, `walk` the local variables of the flush in progress. `origin` and
`doomed`, history variables, hold who was mapped from whom and what the flush must
revoke.

| actions | code |
|---|---|
| `StartMap`, `Insert`, `SetEntry` | `map_fpage`: its tests, `mdb_map`, `set_entry` and `set_linknode` |
| `StartFlush`, `Lock`, `Unlock` | `mapctrl_fpage`, and the lock of `mdb_flush` |
| `Visit` | one turn of its loop; `Below`, `Along`, `Back`, `Over` are where it goes next, `Remove` is `remove_map` |

`Derivation` has two operations, `Derive` and `Revoke`; while a flush is in
progress its state is the one before, so that the flush takes place, as one
step, when it unlocks.

### Tlb

`mapped`, `active`, `cr3`, `tlb` are the page tables, `active_cpu_space`, and
the registers of the MMU; `pending`, `acked`, `ipi` the synchronous requests;
`left`, `untagged`, `cleared`, `cpu_remote_flush` the progress of a revocation.
`stale`, a history variable, holds the processors whose TLB keeps a revoked entry.

| actions | code |
|---|---|
| `Load`, `Map` | the MMU fills the TLB; somebody maps the page again |
| `Switch`, `LoadCr3` | `switch_to`: `active_cpu_space.set`, then CR3 |
| `Start`, `LockTcb`, `LockMdb`, `Clear`, `Tag`, `UnlockMdb` | `mapctrl_fpage`, `mdb_flush`, `flush_tlbent`, `tag_flush_remote` |
| `Request`, `Poll`, `Return` | `end_update`, `flush_tlb_remote`, `sync_xcpu_request` |
| `Interrupt`, `Handle`, `ClearPending`, `Ack`, `Served` | `handle_sync_requests` with `do_xcpu_flush_tlb` |

### Irq

`masked`, `pending`, `disabled` are the redirection table, `state`, `partner`,
`handler`, `goes_on` the interrupt threads (the last says whether one waits in
the middle of its loop), `hstate`, `from`, `send_queue` the handlers. `raised`
and `latched` are the devices.

| actions | code |
|---|---|
| `Raise` | a device |
| `HandleIrq` | `intctrl_t::handle_irq`, `handle_interrupt` |
| `IrqThread` | one turn of `irq_thread`: it sends, or was acknowledged and unmasks |
| `Wait`, `ReplyWait`, `Service` | the driver, whose IPC is what SYS_IPC does with an interrupt thread |
| `ThreadControl`, `Delete` | `thread_control_interrupt`; deletion of a handler |

### Kmem and MdbBuffers

Every operation of `Kmem` holds the allocator's spinlock, every operation of
`MdbBuffers` holds `mdb_lock`, so each is one action: `Add`, `Alloc`, `Free`,
`FreePart`; `AllocBuffer`, `AllocFrame`, `FreeBuffer`. `Fits` is the search of
`alloc`, with the condition that loses the last run of the list. `MdbBuffers`
extends `Kmem`: its frames come from the same free list, next to the other
blocks of the kernel. A release that empties a frame is `Unlink`, one into a full
frame `Relist`. Addresses are chunk numbers, and a frame and a slot name a
buffer.

## 3. Runs

Passing:

| run | states | asks |
|---|---|---|
| `ipc_core` | 136 378 | a server and two clients: calls, replies, polls, page faults, failing transfers, send and receive timeouts, ids that nobody has. Send queues, flags and states agree (`SendQueueExact`); no timeout can fire in a transfer (`NoTimeoutInTransfer`); no step takes from a locked receiver the sender that will run its transfer (`LockedReceiverHasSender`), and none leaves a receiver waiting with the message it has got (`DeliveredWakes`), but for the one step of item 19; a receive returns a message the caller asked for (`ReceiveContract`) |
| `ipc_forward` | 7 256 | propagation: a middleman forwards a call in the caller's name and the server answers the caller directly. No rendezvous is missed (`NoMissedSender`), every polling sender is served (`Served`, under fairness) |
| `ipc_unwind` | 36 580 | a thread is aborted, halted, resumed and deleted in every state of its IPCs: `HaltedStaysHalted`, `DeletedStaysDead`, a sender that was accepted finds its receiver (`LockedSenderHasReceiver`), nobody who can run is lost (`NoLostRunnable`). The kernel may stop here at an ASSERT that fails, which item 5 of section 7 is about, so deadlock is not an error |
| `sched_prio` | 236 501 | two priorities, changes of priority, delays, interrupts, halts: `QueuesExact`, `NoLostRunnable`, `TimeoutArmed`, `HighestFirst`, `HigherWakes`, and the refinement `ImplementsDispatcher` |
| `sched_slice` | 77 215 | timeslices donated, yielded, used up, changed, a quantum, deletion of the owner: `SliceLeft`, `RoundRobin` under fairness. A total quantum that expires stops the kernel, so deadlock is not an error |
| `smp` | 15 813 | a thread calls a processor that another one floods with requests: the ring is a bounded queue (`ImplementsChannels`), a waiting thread has one request on its way, and none is handled half-written (`RequestsExact`), which is answered (`CallsAnswered`, under fairness) unless a mailbox overflows |
| `xfer` | 32 981 | strings of one or more items and substrings into buffers divided otherwise, with faults of either thread, transfer timeouts, and aborts: sender and receiver enter and leave together (`Coupled`), what is copied and what is reported are exact (`MessageExact`), every transfer ends (`TransferEnds`, under fairness). Threads may wait for a partner that never comes, so deadlock is not an error |
| `xipc` | 77 926 | a server on one processor, two clients on another: a receive ends with one message of the right sender (`OneMessage`), an activation is not lost (`NoLostActivation`), a receiver locked for a sender gets its message (`Rendezvous`, under fairness) |
| `mdb` | 30 538 | pages and pieces derived from each other, flushed and unmapped: a revocation leaves no descendant (`RevokedRecursively`), nodes, depths and page tables tell the truth (`LinksSound`), and the whole is the abstract derivation (`ImplementsDerivation`) |
| `tlb` | 313 434 | two processors switch spaces and revoke mappings of each other: no stale entry is used after the revocation has returned (`NoStaleEntry`), an acknowledgement is for the outstanding request (`AckIsFresh`), every revocation ends (`RequestsAnswered`, under fairness) |
| `irq` | 49 242 | a level and an edge for one driver, which may be replaced: queues are exact (`SendersQueued`), an interrupt is masked until acknowledged (`MaskedUntilAcknowledged`) and serviced (`Serviced`, under fairness) |
| `memory` | 671 154 | two kinds of buffers and other blocks out of one free list: nothing lost and nothing given out twice (`MemoryExact`), the lists of buffers exact (`PoolsExact`) |

The type invariants of modules other than `Ipc` belong to no run. Those of
`SchedRR`, `Smp`, `Tlb`, `Irq` and `XIpc` are part of what section 6 proves; those of
the others hold in the runs above when `TypeOK` (in `Mdb`, `MdbTypes`) is added to
their INVARIANTS.

What the passing runs leave out is named in section 7 with what happens
there. Each item there has a configuration that reproduces it and is run by
hand; it uses the smallest instance in which the hazard bites, and the passing
runs leave out exactly the call that leads there. Item 19 is an exception:
`ipc_core` has the call that leads there, and its two properties exempt the step
that goes wrong (`Abandons`) and no other. Beyond that, `ipc_core` has no call with
both phases and a zero receive timeout; `ipc_forward` no send with a finite
timeout; `ipc_unwind` aborts only threads that never are receivers
locked for a transfer, deletes no receiver with queued senders that can time
out, and halts no thread that was answered with a timeout armed; `sched_prio`
has no ThreadSwitch to a thread and `sched_slice` only one from a thread of the
lowest priority; `xipc` has no receive from one thread only outside a call,
and its liveness exempts forgotten senders; `mdb` uses the last piece of a page
only, and a page that pieces hang from is not unmapped and mapped on in no other
way; `tlb` has one processor
that revokes in an IPC, and large revocations of pages that were given to
nobody; `xfer` aborts no receiver while its sender handles a fault of its own, and
has transfer timeouts only where the sender's pages fault; `irq` does not
re-associate an interrupt whose thread waits in the middle of its loop.

Every property of a passing run has a mutant in `PROJECT.json`: a definition
of the model changed as a bug in the code would change it (a dropped
test, a missing dequeue, a swapped order), under which TLC finds the property
violated in the same run.

## 4. Bounds

`Ipc` and `SchedRR`: three threads each. The interesting situations of IPC need a
receiver and two threads that compete for it, one of them unwound, timed out or
answered while the other polls; a third sender adds length to a queue whose order
two already show. The scheduler needs two threads of one priority to take turns
and one of another priority to preempt them.

- `Calls`: who may issue which IPC. Each thread has two to six of them, chosen
  so that every outcome of every phase occurs; the action coverage of the
  runs shows that each disjunct is taken.
- `invalid`: one id of nobody, as the code does not tell two of them apart. In
  `ipc_core` one thread sends to it, and receives from it after it has sent.
- `Space`: two address spaces in `ipc_core` (for `anylocalthread`), one in
  `ipc_forward` (propagation is granted there only).
- `AbortRights`, `HaltRights`, `DeleteRights`: pairs, to keep the number of
  unwound threads small.
- Time in `Ipc` is any set of expired timeouts at any tick, so no bound
  is needed.
- `MaxPrio` = 1: two priorities. `FindNext` and the cached maximum need one
  change of the maximum in each direction.
- Timeslices of one or two ticks of length 1: "ends now" and "does not". `U32`
  = 64 is far above them; it matters only for timeslices shorter than a tick.
- `Overdue`: a guard of `TickDelayed` and `TickExpired` that bounds how far a
  timeslice may be overdrawn. A timeslice that lasts whole ticks is renewed
  when it reaches 0, so the guard bites only after a delay that was granted with no
  budget (item 8 of section 7). `sched_prio` (0) ends there, `MCSchedDivergences` and
  `sched_slice` (1) go one tick further.
- A quantum of 3 for one thread: it survives one timeslice of two ticks and
  ends in the next, so both branches of the accounting are taken.

- `Xfer`: strings and buffers of at most two items, two substrings, two or three
  units each: every way in which a part can end at the end of a substring, an
  item, a string, of either side or of both. Two or three faults per transfer, at the first
  page and behind it, so that a second fault meets what the first left behind.
  `NumBR` = 33 as in the code; no buffer comes near it. Three
  threads: two transfers in opposite directions through one thread.
- `XIpc`: a server on one processor, two threads on another. Two processors
  show every interleaving of one sender with one receiver; the second client
  is there to be activated while the first is, and to be the last of the list.
- `Smp`: three processors, so that two senders compete for one mailbox, which holds
  two requests (`MaxEntries` = 3, in the code 32: index arithmetic, full and
  empty are the same). `MaxSuspended` = 1: a walk left behind, and a second
  one over the same ring.
- `Mdb`: two whole pages and three pieces, so that a list has a middle; arrays
  of two lists. `Depths` = 8 is never reached (the code has 2^8); one
  processor (two are an item of section 7).
- `Tlb`: two processors, two spaces. A third processor would only be one
  more to tag: requests are sent and awaited one at a time.
- `Irq`: a level, an edge, two drivers.
- `Kmem`, `MdbBuffers`: two adjacent regions of 7 and 3 chunks, added in either
  order; frames of two chunks (4 in the code) with two or three buffers, so
  that a list has three frames and one leaves it from the middle.

## 5. Fairness

`Ipc!FairSpec`: weak fairness of the steps inside the kernel and of the idle
loop (the processor goes on executing), strong fairness of `Dispatch(t)` for
every thread and of a server's open receive. The second is the scheduler's
promise: threads of one priority take turns, which `RoundRobin` checks for
`SchedRR`; the third is a premise about the server, without which nobody could
expect to be served.

`SchedRR!Fairness`: the idle loop goes on when there is work, a thread back from
a blocking operation leaves the wakeup queue, and a timer interrupt that has
something to do and is enabled again and again is taken. The first two are the
processor's, the last the hardware timer's: it ticks whenever interrupts are
enabled. They are stated as temporal formulas with the enabling condition spelled
out, which says the same as WF and SF of those actions and is much cheaper to check.

`Smp`, `Tlb`, `XIpc`: a processor in the kernel goes on executing (weak fairness
of its steps). An interrupt is latched and taken before the next
instruction in user mode, so a processor cannot put it off by entering the kernel
again and again: strong fairness of `Interrupt` and `TimerInterrupt`. In `XIpc`
the scheduler gives every thread that can run again and again its turn, the
promise `RoundRobin` checks. Spinlocks are not fair in the code and not in the
models: the liveness properties assume, as a premise, that nobody spins for
ever, and in `Tlb` that no processor is kept in `handle_sync_requests` by ever new
requests.

`Xfer`: the kernel finishes what it has begun, threads share the processor (strong
fairness of `Dispatch`), and pagers receive and reply: a premise about user
programs. Timeouts and aborts have no fairness; a transfer ends without them.

`Irq`: interrupts are taken, interrupt threads run, drivers go on serving and
waiting for anybody. The latter is a premise about user programs, without which
no interrupt is serviced.

`Mdb`, `Kmem` and `MdbBuffers` have safety properties only.

## 6. Proofs

Eight modules hold proofs, for any values of the constants that satisfy the
ASSUMEs of the modules they extend. Those ASSUMEs type the constants and say
that special ids are distinct. Two say more about the system: `ParamAssumption` of
`SchedRR`, that a thread's priority is at most its sensitive priority, which
`set_priority` (`sched-rr/ktcb.h:147-149`) and the Schedule system call
(`schedule_functions.h:62`) see to; and `XIpcAssumption`, that a call has a send
or a receive phase and that its partners are on other processors, as calls
within a processor are those of `Ipc`. Where a theorem has a premise of its own
(ASSUME in its statement), the premise excludes situations of section 7, in
which the code does something else, unless it is said otherwise below.

| module | theorem | states | premise |
|---|---|---|---|
| `Ipc_proofs` | `TypeCorrect` | `TypeOK` | |
| | `RunnableNotLost` | `NoLostRunnable` | `NoDonation`, `NoForeignUnwind` |
| | `SendersQueuedOnce` | `SendQueueExact` | `NoForeignUnwind` |
| | `ReceiverHasSender` | `LockedReceiverHasSender` | `NoForeignUnwind` |
| | `SenderHasReceiver` | `LockedSenderHasReceiver` | `NoForeignUnwind` |
| | `TimeoutsCancelled` | `NoTimeoutInTransfer` | `NoForeignUnwind` |
| | `MessagesWake` | `DeliveredWakes` | `NoForeignUnwind` |
| | `AssertsHold` | the ASSERTs of the IPC path | `NoForeignUnwind` |
| | `ReceivesWhatItAsked` | `ReceiveContract` | and `NoPropagation` |
| | `RendezvousMet` | `NoMissedSender` | and `NoPropagation`, `NoSendTimeout` |
| | `HaltedUntilResumed` | `HaltedStaysHalted` | and `NoTimeoutOfHalted` |
| | `StaysDead` | `DeletedStaysDead` | `NoTimeoutOfDeleted`, `NobodyWaitsForDeleted`, `NoAbortOfDeleted` |
| `SchedRR_proofs` | `SchedulerTypes` | `TypeOK` | |
| | `ReadyThreadsQueued` | `QueuesExact` | |
| | `TimeoutsArmed` | `TimeoutArmed` | |
| | `RunnableFound` | `NoLostRunnable` | `Donors = {}` |
| | `HighestRuns` | `HighestFirst` | `Donors = {}` |
| | `ImplementsOperations` | `ImplementsDispatcher` | |
| | `WakeupsPreempt` | `HigherWakes` | |
| | `RunsOnTime` | `SliceLeft` | `SlicesLast`, `Delayers = {}` |
| `Smp_proofs` | `RingsSound` | `Inv`: types, rings and locks | |
| | `RequestsNotLost` | `RequestsExact` | |
| | `ImplementsQueues` | `ImplementsChannels` | |
| `Irq_proofs` | `TypeCorrect` | `TypeOK`, handlers | |
| | `StaysMasked` | `MaskedUntilAcknowledged` | |
| | `QueuesSound` | `SendersQueued` | `ChangesInLoop` |
| `XIpc_proofs` | `ActivationsKept` | `NoLostActivation` | |
| | `MessagesReceived` | `OneMessage` | `NamedReceives` |
| `Mapping_proofs` | `TypeCorrect`, `RequestsMatched` | `TypeOK` of `Tlb`; what the next two rest on | |
| | `AckFresh` | `AckIsFresh` | |
| | `NoStale` | `NoStaleEntry` | `LargeNotGiven` |
| | `MemoryIsExact` | `MemoryExact` | |
| | `PoolsAreExact` | `PoolsExact` | |
| | `LinksHold` | `LinksSound` | `OneProcessor`, `PagesWhole`, `DepthsSuffice` |
| | `NothingLeft` | `RevokedRecursively` | the same |
| | `ListsAreTheTree` | `ImplementsDerivation` | the same |
| `Xfer_proofs` | `TransfersCoupled` | `Coupled` | `NoAbortInLocalFault`, `NoTimeoutInTunnelledFault` |
| | `MessagesExact` | `MessageExact` | and `NoEmptyItems`, `NoTargetFaultInOneSpace` |

`Lists_proofs` has the lemmas about `Lists` they share: what `EnqueueTail`,
`EnqueueHead`, `Without` and `Among` do to membership and to `Distinct`. The walk
over a list (`Among`) is a recursive function. `Recursion` proves that such a
function exists, from the library's lemma on minimal elements (`WFMin`), as the
induction theorems are out of the provers' reach; `AmongSteps` and
`AmongMembers` that the walk keeps exactly the members it should, in order.
`Recursion` and `Induction` serve `FlattenSeq` in `Xfer_proofs` in the same way.

### Ipc

`TypeOK` alone is not inductive: `SendBlocked` and `SendResume` index the send
queue of `req[t].to`, which may be `nilthread` as far as the type says. The
invariant is `TypeInv == TypeOK /\ SendsToThread`, where `SendsToThread` says
that whoever enters the send phase names a thread or `invalid`, and whoever is
past the test of the id a thread.

`RunnableNotLost` rests on `RunInv == TypeInv /\ DonatesNothing /\ UnwindsItself
/\ RunnableIsReady`: no thread is about to donate, whoever unwinds unwinds
itself, and every runnable thread is running or in the ready queue.
`ScheduleLosesNobody` is the lemma about the dispatcher: its search removes only
threads that cannot run.

The theorems from `SendersQueuedOnce` to `HaltedUntilResumed` share one
invariant, `TransferInv`. None of
its parts is inductive without the others, since a step of one thread writes the
state of another, and is right only if that one is where the stepping thread
believes it to be:

- `PlacesOK`: where a thread is in the kernel determines which states it may be
  in, and which handler it may have been given.
- `FaultsOK`: what a page fault interrupted was running, or locked running, and
  its nested IPC has no timeout: so no timeout ever undoes a nested IPC.
- `LocksOK`: a thread that is about to transfer to a thread, or to wake it,
  finds it waiting, or locked for it; a sender that was told to run in its send
  queue finds its receiver locked; and no receiver is locked for two. A sender
  that has abandoned its receiver may stay locked running for its next IPCs, so
  that past the send queue it is the receiver's state that says who is locked for
  whom (`LockOn`).
- `QueuesOK`: a thread is in the send queue of the thread it sends to, and only
  there, as long as it polls, has been accepted or unwinds from there.
- `TimeoutsOK`: only threads that poll or wait have a timeout.
- `MessagesOK`: the registers of a thread hold its own message until it
  receives.
- `UnwindsItself` and `alive = Threads`, from the premise.

That every locked receiver has a sender (`Held`) is no part of it: with the ids
that callers may pass it is false, after the step of item 19, and so is that
nobody waits with a message. `ReceiverHasSender` and `MessagesWake` therefore
speak of steps. `LocksOwnStep` and `MessagesOwnStep` show of each action of a
thread but `ReceiveNonExisting` that it keeps `Held` and `Noticed` of every
receiver, from `TransferInv` alone; `OnlyAbandons` that the exception is
`ReceiveNonExisting` after a send phase that has found this receiver. Ids are
not restricted.

`ReceivesWhatItAsked` adds `ContractOK`: at each place of a receive there is an
error, or a message asked for, or a thread that still waits; and whoever has
agreed on a transfer is one that was asked for. An abandoned receiver that
waits on with its message is covered by the second: what it takes later
replaces the message, and comes from a sender it asked for. `RendezvousMet` adds that
senders poll without a timeout (`PollsForEver`); `HaltedUntilResumed` that those
who may be halted wait without one. Each is proved once for the steps of a
thread (`...OwnStep`, one step per action) and once for the timer interrupt
(`...Tick`); `OwnSteps` says that under `NoForeignUnwind` there are no others.

`StaysDead` has an invariant of its own, `DeadInv`, as `TransferInv` does not
hold once threads are deleted. A TCB that was deleted comes back to life only if
somebody still refers to it and writes its state, and there are five who could:

- the timer, if a timeout of it is armed (`NoTimeoutArmed`);
- a thread in the middle of SYS_IPC that has tested its partner before and
  transfers to it or wakes it now: it is the current one all the while, so
  that nobody is deleted meanwhile (`RunsItsCall`), and it has found its partner
  alive (`FindsAlive`);
- a sender that polls on it and is switched to: nobody does (`FindsAlive`);
- an unwind whose victim it is: an abort has other victims, and the
  deletion has not finished (`VictimsKnown`);
- itself, and it is not current and stays aborted (`DeadRest`).

Aborts, halts and deletions of other threads are not restricted.

The premises:

- `NoDonation`: no call combines a send phase, a receive phase and a zero
  receive timeout (item 3 of section 7).
- `NoForeignUnwind`: nobody aborts or deletes another thread. Halting and
  resuming stay allowed, and so do timeouts, which unwind their own thread
  (items 2 and 5; and `unwind` wakes the partner of its victim in the middle,
  where the scheduler may switch). `ipc_unwind` checks with aborts and deletions
  of threads whose partners are not in that position.
- `NoPropagation`: nobody sends in another's name. For `RendezvousMet` it is
  needed: a receive by name does not find a thread that polls in that name
  (section 7, the list without configurations). For `ReceivesWhatItAsked` it is
  a limit of the proof, and of `ipc_core`, which checks the property.
- `NoSendTimeout`: no finite send timeout (item 4).
- `NoTimeoutOfHalted`: threads that may be halted use no finite timeouts (item
  6).
- `NoTimeoutOfDeleted`: nor do threads that may be deleted (item 18). `ipc_unwind`
  checks with a finite send timeout of a deleted thread: it does no harm unless
  the transfer fails.
- `NobodyWaitsForDeleted`: threads that may be deleted are nobody's pagers, and
  are sent to with a zero timeout only, as servers answer clients that may be
  gone. Otherwise a sender in their queue is left behind (item 5).
- `NoAbortOfDeleted`: who may be deleted is not aborted as well. This is a limit
  of the proof: the unwind of an abort may hand over the processor in the
  middle, and that nobody deletes its victim meanwhile would have to be
  shown.

### SchedRR

`Inv == TypeOK /\ OwnerKnown /\ CurrentRuns /\ QueuesExact /\ TimeoutArmed`.
That the cached maximum of the priority queue is never too low is part of
`QueuesExact`. The proof follows the code: what `get_top_tcb`, `enqueue`,
`dequeue`, `parse_wakeup_queues`, `account_timeslice` and `renew_timeslice` do
to the scheduler's state is a lemma each, and the operations are put together
from them.

`ImplementsOperations` is the step refinement: every step, a timer interrupt
with its wakeups and the end of a timeslice included, is one operation of
`Dispatcher`. What `Ipc` proves with `Dispatch` therefore holds of the code with
this scheduler, and no premise of the theorem limits that.

`RunnableFound` and `HighestRuns` are about systems in which nobody calls
ThreadSwitch with a thread (item 7: the caller is not put back).
`WakeupsPreempt` needs `Above`: the sensitive priority of a thread is never
below its priority, and this is where `ParamAssumption` enters. `RunsOnTime`
needs `Left`: every timeslice has something left; the premises say that
timeslices last a tick at least, as in `sched_slice` (shorter ones may be
overdrawn, see the end of section 7), and that nobody delays its preemption
(item 8).

### Smp

`RingInv` relates the two indices of a ring to its entries: those between
`first_alloc` and `first_free` are complete but the one that the holder of the
lock is filling in (`EntriesOK`, `LockOK`), and only the owner takes. `OnePlace`
says of each waiting thread that its request is at one place: in one entry, in
one handler or on one processor that sends it. `RequestsNotLost` follows; the
theorem needs no bound on the ring, `NthFrom` and the lemmas on `Between` do the
arithmetic modulo its size. The refinement maps a ring to the sequence of its
complete entries; filling an entry in (`Commit`) is the send of `Channels`, the
allocation before it a stutter, and a mailbox found full the sender that stops.

### Tlb

`FlushInv == OneRequest /\ Announced /\ OpRuns /\ Covered`. `OneRequest`: a
processor polls for one request at a time, and is not acknowledged while it is
outstanding. With it `AckFresh` follows although the entries are reused.
`Covered`: for every processor with a stale translation there is one that
will see to its flush (`WillFlush`), which has four stages, one for each place of
the code the duty is handed over. It is here that the order in `switch_to`
matters: the address space is announced before CR3 is loaded. `LargeNotGiven`:
large fpages are revoked only where they were given to nobody (item 12).

### Irq

`MaskedUntilAcknowledged` is inductive together with `Inv`, which says that an
interrupt thread that is active has a handler; `StaysMasked` takes it through
one action at a time. `QueuesSound` rests on `QueueInv`: an interrupt thread is
in the queue of its handler exactly as long as it polls, and a locked handler
has the thread that locked it. `ChangesInLoop`: ThreadControl replaces a handler
only while the interrupt thread is in its loop and has not been told to send
(item 13).

### XIpc

`ActivationsKept`: a thread that can run does, or is on the requeue list of its
processor, or somebody is about to put it there. The invariant says what the
code relies on without a word: a thread's own lock is held by itself only while
it receives (`OwnLock`), and a receiver that has activated its sender and was
activated itself in between is found again (`Parting`). There is no premise:
items 9 and 10 of section 7 make a thread wait for ever or return without a
message, but no thread that can run is lost.

`MessagesReceived` rests on `Rules`, ten conjuncts: what state and lock go with
each place in SYS_IPC (`PlacesOK`, `LocksOK`, `SendersOK`, `ResumedOK`), and
what the other side is doing meanwhile (`WaitsOK`, `TransferOK`, `TurnOK`,
`ChosenOK`, `CalledOK`). `CalledOK` is the heart: nobody looks at the state of a
sender that has just sent to it and still says polling. It holds because of the
premise `NamedReceives`, that a receive from a thread by name is the second
phase of a call to it; without it the code has item 10.

### MdbBuffers

`Inv == MemoryInv /\ BuffersInv`; no premise, and the ASSUMEs say only that sizes
are powers of two, that regions are disjoint and that a frame holds two buffers
at least. `MemoryInv`
is the partition of `MemoryExact` for the blocks of the kernel together with the
frames of the buffers, with the order of the free list. A run taken out of the
middle of the list and a block merged into it are a lemma each (`RemoveRun`,
`InsertRun`): the list stays in order, and its members change by
that run, because `Fits` has found it contiguous and because nothing free lies
within a block.

`BuffersInv` says that for each size there is a sequence of the frames
with a free buffer of which the two links of these frames are the
representation (`Chain`), and that each frame knows its free buffers (`FrameFine`).
A frame joins a chain at its head (`ChainPush`), when one of its buffers is the
first to be given back (`Relist`), and leaves it from anywhere (`ChainDrop`), when
its last free buffer is taken or its last buffer given back (`Unlink`).
`ListedExact` shows that following the links from the head then finds just the
frames it should, within the number of steps `PoolsExact` allows.

### Mdb

The nodes hold no parent. That a list with its depths is a tree after all is
`Family`: list and history agree, the parent of a mapping is the nearest one before
it that is less deep, and depths rise by one at a time (`Forest`), so that
what is derived from a mapping is the run of deeper ones directly behind it
(`DerivedSpans`). That lemma goes from the recursive definition in `Derivation` to
places in a list, by a least counterexample on the depth. `Family` survives an
insertion behind the parent (`ForestInsert`), one at the head (`ForestHead`) and
cutting out such a run (`ForestCut`), which are all that happens between two flushes.

In the middle of a flush the list is no tree: what is left may follow a
parent that is gone. `DbInv` therefore does not describe the lists then but
remembers them: `Progress(o, F, a, b)` says that the flush `o` found the lists `F`, its
own mapping at place `a`, has come to place `b`, and has since taken out what is between
them. `DbVisit` shows that each turn of the loop moves `b` by one (`FlushTakes`),
`FlushDone` that where it stops, at the first mapping no deeper than the one it
began with, just the derived ones are gone. So `Unlock` is the step that maps to the
revocation of `Derivation`, the turns of the loop are stutters, and the insertion of
`mdb_map` is the step that derives.

The premises: `OneProcessor`, as two are an item of section 7. `DepthsSuffice`: the depth
does not wrap around, another item. `PagesWhole`: whoever holds a page maps it on as a
page; pieces are mapped from sigma0 and from other pieces. It excludes item 1 of
section 7 and the item on arrays there. It also excludes the uses of arrays below
pages that are right, which the `mdb` run has and TLC alone checks: what makes them right
is a condition on the order of calls (the last piece only, no unmap in between), not
one on who may map what. With `Maps <- WholeMaps` the instance of `MCMdb.cfg` satisfies
the premises (6 234 states); arrays of pieces below sigma0 are in it.

### Xfer

`Coupled` compares how many senders a receiver has with the state it is in, and
says nothing of how the two got there. `XInv` adds that: `Place`, what state,
partner, saved state and handler a thread has at each of its six places in the
kernel; `Stage`, how far a sender and its receiver are together, which the states
of both must agree on (accepted, copying, a fault of the sender, a fault of the
receiver before and after it has been told); `Runs`, that a thread that drives
a transfer runs until it sleeps in a fault; `TimersOK`, that only a sender in a
fault of its own has a timeout. The last one is why the timer, which looks at
the state of the nested IPC alone, unwinds the right one around it.

A step changes one such pair, or one thread with no partner, and `PairStep` is
the lemma for all of them: if whoever else is left as it was, and the pair is a pair
at some stage again or both have left, `XInv` holds. So each action has one lemma
that says where its thread stands and what becomes of the two.

The premises exclude items 14 and 15 of section 7. `NoAbortInLocalFault`: whoever may be
aborted receives only from senders that do not fault on their own pages or, in
the same space, on the receiver's. `NoTimeoutInTunnelledFault`: where a fault is
tunnelled neither side has a finite transfer timeout. The instance of `MCXfer`
satisfies both.

`MessagesExact` adds to `XInv` what is in the buffers. Its first half is about
`Strings` alone. The code walks over strings and buffers as message registers
and buffer registers, with a cursor in each; `Placement`, which says what should
arrive, concatenates whole strings and knows no registers.
`FlattenSteps`, `PartsSteps` and `PartAt` say where a part of such a
concatenation stands, and so `ItemPlace` which register an item is in and
`UnitPlace` which unit of a string its n-th word is. `Cursor` ties the three locals
of a side (register, address, what is left) to a unit of a string, and
`SourceGoesOn`, `TargetGoesOn`, `TargetEnds`, `SkippedString` follow them from piece
to piece, to the end of the buffer, or past the rest of a buffer that is longer
than its string. `Exact` is the invariant of a copy: before an item all strings
before it have arrived (`AtItem`); within a string as many of its units have
as are in front of both cursors, if the buffer has them (`InString`); at the
end everything there was room for (`AtEnd`). `BeginsExact`, `ItemExact`, `UnitExact` and
`PartExact` show that no step of `extended_transfer` leaves it, a copy cut short
by a fault included, and `ExactPrefix` that it implies `StringsExact`.

The second half carries it through the system. `DInv` says that each transfer is `Exact`,
that one halted in a fault knows how much it had copied (`x[s].fault = x[s].done`),
which is what makes the length right when the fault ends in an abort or a timeout
(`AbortLength`, `LeaveStep`), and that a receiver that waits has nothing yet.
`DataStep` is its `PairStep`.

It has two premises more. `NoTargetFaultInOneSpace` excludes item 16 of section 7.
`NoEmptyItems`: every string item has a length. That is no item of section 7 but a limit
of the property: behind an item without one the code still looks for the next piece of
the buffer, and reports an overflow if there is none, although everything fits.
`MCXfer` satisfies these two as well.

### What is only model-checked

- Liveness under fairness (`Served`, `RoundRobin`, `CallsAnswered`,
  `RequestsAnswered`, `Serviced`, `Rendezvous`, `TransferEnds`): out of reach of
  TLAPS, as is ENABLED.
- The aborts and deletions of `ipc_unwind` in general: the invariant for them
  would have to follow the victim's partner through `unwind`.
- `Mdb` with pieces mapped from a page, that is, with arrays below pages: outside
  the premise `PagesWhole`.

No module uses a recursive operator.

## 7. Where the code disagrees with its comments

Each is reproduced by the configuration named, with `tlc -config X.cfg M`, in which a
property is violated. Four of the configurations serve two items each: the other's
property is a comment there, to be exchanged with that of the first. A fifth,
`MCXferReceiver`, checks the properties of its three. In
`MCMdbSizes` a comment has the second instance of item 1.

1. `MCMdbSizes` — flushing a page that is mapped on in several of its pieces
   ends behind the first piece found: the branch that goes up from an array does not
   look at `rcnt`, the lists still to be searched (`mapping.cc:514`). The other
   pieces stay mapped, and the array is freed at a wrong address. The function is
   described as recursive (`mapping.cc:339-341`). The same holds of a page whose array
   was emptied before, by a flush of the pieces alone: the walk enters it
   (`mapping.cc:476-490`), finds no mapping (`:553`) and ends there (`:598`), and the
   pages derived from it, which come behind it in the list, stay mapped.
2. `MCIpcAbortReceiver` — `tcb_t::unwind` of a receiver that is locked for a
   transfer looks at its partner field, which the local receive path of
   SYS_IPC (`ipc.cc:667-686`) has not written. The sender is not aborted with
   it and later transfers into a thread that has left the IPC
   (`thread.cc:725`, `:742` say both are).
3. `MCIpcLostRunnable`, `NoLostRunnable` — a call with a zero receive timeout that finds no
   sender switches to its receiver with `sched_rcverr`, which lacks
   `sched_c2r_flag` (`schedule.h:66`): the caller is runnable and in no queue.
4. `MCIpcMissedSender` — an open receive looks at the head of its send queue
   only (`ipc.cc:543`). If that thread has timed out and not yet run, the
   receiver blocks next to a second thread that polls on it.
5. `MCIpcDeleteReceiver`, `NoAssertFails` — deletion empties the victim's send queue and leaves the
   senders polling (`thread.cc:389`); unwinding one of them fails an ASSERT.
6. `MCIpcHaltTimeout` — the timeout of a thread that was answered, but not
   switched to, stays armed (`schedule_functions.h:279`) and later un-halts it.
7. `MCSchedDivergences`, `NoLostRunnable` — SYS_THREAD_SWITCH passes the sum of two flag numbers as a
   flag word (`schedule.cc:182`): the caller is not queued and no timeslice is
   donated.
8. `MCSchedDivergences`, `DelayNeedsBudget` — `delay_preemption` grants a delay to a thread with no budget
   when nobody else was woken (`schedule_functions.h:28`).
9. `MCXIpcDivergences`, `NobodyForgotten` — a sender sets its state to polling once more after it
   has released the receiver's lock (`ipc.cc:387-389`), and thereby overwrites
   what a receiver on another processor has told it in between: both wait for
   ever. The comment above (`ipc.cc:330-331`) says the state is set before
   the partner is checked, for concurrent checks.
10. `MCXIpcDivergences`, `OneMessage` — a sender is still polling when it has released the lock of the
   receiver it has sent to (`ipc.cc:496-498`). The receiver that returns and
   receives from it again finds it polling and later sets it running
   (`ipc.cc:698`), though it waits for a message by then: it returns from its
   receive without one.
11. `MCTlbDeadlock` — an IPC that maps over an existing mapping polls for
   acknowledgements of TLB flushes with the lock of the receiver's TCB held
   (`smp.cc:107`). A processor that spins for that lock, with interrupts
   disabled, does not answer. `smp.cc:64-66` says the scheme works with
   interrupts disabled.
12. `MCTlbLarge` — for a large fpage `mdb_flush` does not flush entry by entry
   (`mapping.cc:462`), because its caller will flush everything; the caller does so
   for its own space only (`linear_ptab_walker.cc:966-967`), and TLBs of other
   spaces the page was mapped to keep the entry.
13. `MCIrqHandler` — `thread_control_interrupt` gives an interrupt a new handler
   while its thread waits in the middle of its loop for the acknowledgement
   (`interrupt.cc:102`). The next interrupt queues the thread, which
   then takes its activation for that acknowledgement: the message is not
   sent, and the handler stays locked for it (against `interrupt.cc:73-76`).
14. `MCXferSender` — a receiver that is aborted while its sender handles a
   fault on its own pages does not take the sender along: `unwind` looks for
   `locked_running` (`thread.cc:743`), and the sender is in a state of its nested
   IPC. It goes on copying to a thread that has left the IPC, against `thread.cc:725`
   ("Thread is an active receiver.  Abort both threads.").
15. `MCXferReceiver`, `NoAssertFails` — the transfer timeout of a sender that waits
   for a tunnelled fault sets it running without a handler: `waiting_tunneled_pf`
   is neither sending nor receiving (`sched-rr/schedule.cc:181-194`). It
   faults again while the receiver still handles the first fault, and the ASSERT
   `space.cc:168` fails. For the same reason ExchangeRegisters never reaches the
   branch of `unwind` for that state (`thread.cc:598-630`).
16. `MCXferReceiver`, `LengthReported` — within one space a fault on the receiver's
   page is not in a copy area, and `calculate_errorcodes` takes it for one on the
   source: the length reported is the distance of two unrelated addresses
   (`thread.cc:435-440`).
17. `MCXferReceiver`, `XferTimeoutArmed` — the nested IPC cancels the timeout of its
   thread (`ipc.cc:394`, `:659`), which is the transfer timeout armed for this
   fault, and leaves the flag. At the next fault none is armed, by the comment
   "Skip timeout calculation if already in wakeup queue." (`space.cc:160`). A message
   overflow leaves the flag as well (`ipcx.cc:440-455`, against `:437`).
   To see 15 to 17 at once run TLC with `-continue`.
18. `MCIpcDeleteReceiver`, `DeletedStaysDead` — `delete_tcb` does not cancel the timeout
   of a thread that is neither sending nor receiving (`thread.cc:380-382`). One
   that waited with a timeout and was woken by a failed transfer
   (`ipc.cc:448-455`) has it still armed; when it expires after the deletion the
   deleted thread is set running and queued (`sched-rr/schedule.cc:193-195`).
   `thread.cc:384-406` means to free whatever refers to the TCB.
19. `MCIpcLostRunnable`, `NobodyAbandoned` — a receive from an id that nobody has
   returns at once (`ipc.cc:554-565`), also when the send phase of the same IPC has
   just transferred a message: `to_tcb` is not woken. If the receiver was waiting
   it waits on, with the message in its registers. If the sender had polled and
   was resumed by the receiver, the receiver stays `locked_waiting`, without a
   timeout and for good unless somebody unwinds it, and the sender goes to user mode
   `locked_running`: the state is reset with CONFIG_SMP only (`:562`). Other failures
   wake the receiver: "error on transfer - activate the partner and return"
   (`ipc.cc:450`). Any thread can issue the call.

Others came up while the models were written and have no configuration:

- `parse_wakeup_queues` lets the owner of the timeslice stand for the current
  thread. A thread of a priority between the two, or the owner itself,
  does not preempt when it wakes up; `sched-rr/schedule.h:188-192`
  describes it as returning the thread to preempt the current one.
  `HigherWakes` is stated for what is above both.
- `sys_thread_switch` with a timeslice overdrawn (possible if timeslices
  are shorter than a tick) charges nearly 2^32 (`ktcb.h:79`). `Yield` with
  such parameters shows it.
- The total quantum: its renewal is added to the full timeslice just granted,
  and its expiry is UNIMPLEMENTED.
- `thread.cc:1351` tests for an accounted TCB of NULL, which `delete_tcb` has
  set to the idle TCB instead.
- `schedule()` searches before it queues the current thread, so
  ExchangeRegisters by a thread outside the ready queue hands the
  processor to a lower priority. `HighestFirst` is therefore
  stated for the callers that queue it first.
- `check_schedule_parameters` tests the sensitive priority of the *priority*
  control word when the *preemption* word is present. Without a priority word
  that is the highest priority, so the request fails for other schedulers.
- `end_of_timeslice` turns the queue to the owner's successor
  (`schedule.cc:232`). After a ThreadSwitch the owner need not be at the head,
  and a third thread between them can be passed over for ever: `RoundRobin`
  fails with three threads of one priority that all call ThreadSwitch.
- `kmem_t::alloc` takes a run of chunks only if a free chunk follows it in
  the list (`kmemory.cc:193`, `:238`), so the last run is never allocated,
  though it then reports to be out of memory. `Fits` has it. The result is
  not tested by `mdb_alloc_buffer` (`mapping_alloc.cc:255`).
- `mdb_flush` of an unmap frees the array below a page whose node stays and keeps
  its pointer; an empty array ends the walk (item 1); and the array of a removed page leaks when
  it is empty. An unmap of a piece of a page ignores pieces derived at its own size
  when the page has an array. `tree_depth` has 8 bits (7 on PowerPC64)
  and wraps without a test.
- With two processors `map_fpage` may write a page-table entry whose mapping node
  another processor has just flushed (`linear_ptab_walker.cc:685-695`).
- Irq: an edge interrupt that migrates while it is pending stays masked
  (`interrupt.cc:330`, against 341-346); `enable` forgets a pending edge; the path
  to a handler on another processor tests its state without a lock
  (`interrupt.cc:174-213`), and the path after it never waits
  for the acknowledgement. Re-association with the same handler returns early.
- `CHECK_MR_IDX` and `CHECK_BR_IDX` let an index pass that is one too large
  (`ipcx.cc:40-41`); `MrTooLarge` and `BrTooLarge` have it.
- `tunnel_pagefault` takes the partner field of the receiver for its sender
  (`space.cc:123`); after a propagated send that is the virtual sender.
- `unwind` calls the scheduler in the middle of its update of two threads
  (`thread.cc:670`): the victim is outside the ready queue while the unwinding thread
  is switched out. `NoLostRunnable` exempts it for as long as that thread runs.
  And a victim that is in the ready queue, running again but without its notification yet,
  may go on in between: an accepted sender transfers to a receiver that has left.
- `smp_requeue` cancels the timeout of a thread found in the list though that thread
  may have begun another IPC since, with a timeout of its own
  (`sched-rr/schedule.cc:275`); and it calls `schedule()` with the requeue lock
  held when `move_tcb` asked it to keep the lock (`:282`).
- `remote_schedule` inserts the last thread of a list a second time, as
  its pointer is NULL; `NoLostActivation` shows that nothing is lost.
- `do_xcpu_send_reply` forwards an answer to a thread that has migrated with
  status 0, whatever the status was (`ipc.cc:166`); the path is dead, as the
  lock of a TCB is never disabled (`thread.cc:199`).
- A receive from a thread by name looks at the state of that thread only
  (`ipc.cc:547-553`, `:592-598`): a message that another thread
  polls to send in its name is not found and both block, though a sender that comes
  second finds the receiver (`ipc.cc:344`, "may be virtual sender"). `NoMissedSender`
  fails when a middleman forwards before the server receives by name;
  `ipc_forward` has open receives only.
- `asid_manager_t::init` has parameters with the names of its members `start`
  and `end`, which stay unset.

## 8. What is not modelled, and why

- The policy of the scheduler inside `Ipc` and `XIpc`: by design, section 2.
- Migration of threads and the request queue of Schedule: the code is
  UNIMPLEMENTED where a request meets a thread that has migrated, so that what
  it promises is not clear; reading it gave the items above.
- Unwinding and ExchangeRegisters between processors: not done; their requests
  are those of `Smp`, their effect on the states would extend `XIpc`.
- Timeouts in `XIpc`, and two processors in `Mdb` and `Irq`: the code has the races
  of section 7 there, and a passing instance would have to exclude
  everything of interest.
- In the extended transfer: map, grant and control-transfer items; propagation;
  faults tunnelled to another processor (`do_xcpu_tunnel_pf`); clipping at the end
  of the user area; the preemption of an unwind by the partner it wakes, which
  `Ipc` has; timeouts of the rendezvous around it.
- Thread creation and the thread count of spaces; the hierarchical scheduler;
  radix tables and address-space identifiers: within reach, not done.
- Grants, the lowering of access rights, reference bits, the rewritten mapping
  database (`mdb.cc`), which serves IO ports on x86.
- Small spaces and global TLB entries; processors with weaker memory.
- Fast-path IPC in assembly (`glue/*/`): hand-written variants of the path in
  `ipc.cc`, outside the reach of a readable model.
- Page-table encodings, register frames, exception entry, VT-x: machine state
  with no protocol of its own.
- Other architectures and platforms: ports of the same interfaces.
- Kernel information page and processor control: static tables.
- Kernel debugger: interactive, and it stops the system.
- User level: boot loaders, sigma0, library wrappers, benchmarks; the tests
  were read for what they expect of the kernel.
- Vendored code.

## 9. Plan

Done: the modules of section 2, in the order `Ipc`, `SchedRR` with `Dispatcher`,
`Smp` with `Channels`, `Mdb` with `Derivation`, `Tlb`, `Irq`, `Kmem` with
`MdbBuffers`, `XIpc`, `Xfer` with `Strings`; and the theorems of section 6.

Theorems to prove next: those of `Mdb` with arrays below pages, from a condition on
the order of flushes in place of `PagesWhole`; `Family` would have to relate a
list and the lists below its members.

Models to write after that: the transfer between processors, thread creation with
the thread counts, the hierarchical scheduler against the same `Dispatcher`.

## Running

    tlc -config MCIpcCore.cfg MCIpc
    tlc -config MCMdb.cfg MCMdb
    tlapm Ipc_proofs.tla

`PROJECT.json` lists the runs with their modules. Each run finishes within three
minutes on two cores. The modules of proofs end in `_proofs`; each takes between ten
seconds and a few minutes.
