-------------------------------- MODULE Tlb --------------------------------
(* Revoking a mapping on several x86 processors: mdb_flush and mapctrl_fpage *)
(* (generic) clear page-table entries and note the processors that may have  *)
(* them in their TLB (glue/v4-x86/space.cc); end_update makes those flush it *)
(* by synchronous requests (api/v4/smp.cc), which are polled for with        *)
(* interrupts disabled.                                                      *)
(*                                                                           *)
(* One mapping is modelled, by its page-table entry in every space.  The MMU *)
(* may load an entry at any time; without tags, a TLB holds entries of the   *)
(* page table in CR3 only.  Memory is sequentially consistent.  Small spaces *)
(* and global entries are left out.                                          *)
EXTENDS Naturals, FiniteSets

CONSTANTS
    Cpus, Spaces, null,
    Revocations,        \* what is revoked: the spaces whose entries go, by a
                        \* thread of which space, and if the fpage is large
    Senders             \* processors that do it in an IPC to one receiver

ASSUME TlbAssumption ==
    /\ IsFiniteSet(Cpus) /\ null \notin Cpus \cup Revocations /\ Spaces # {}
    /\ Revocations \subseteq [by : Spaces, from : SUBSET Spaces, large : BOOLEAN]
    /\ Senders \subseteq Cpus

VARIABLES
    mapped,             \* the spaces whose entry of the mapping is valid
    active,             \* active_cpu_space
    cr3, tlb,           \* per processor: its page table, if its TLB has the entry,
    stale,              \* history: and if that has been revoked since
    pc, op,             \* where a processor is, what it revokes
    left, untagged,     \* entries to clear; the processors to tag for the last
    cleared,            \* one, and its space
    cpu_remote_flush,
    pending, acked,     \* sync_xcpu_entry: pending_mask, and if ack_mask is set
    ipi,                \* processors with a latched IDT_LAPIC_XCPU_IPI
    serving, stage,     \* handle_sync_requests: the sender served, how far
    mdb_lock, tcb_lock

mmu == <<mapped, active, cr3, tlb, stale>>
revoke == <<op, left, untagged, cleared, cpu_remote_flush>>
sync == <<pending, acked, ipi>>
serve == <<serving, stage>>
locks == <<mdb_lock, tcb_lock>>
vars == <<mmu, pc, revoke, sync, serve, locks>>

\* "user": interrupts are enabled.  Everything else is in the kernel.
TypeOK ==
    /\ mapped \subseteq Spaces
    /\ active \in [Cpus -> Spaces] /\ cr3 \in [Cpus -> Spaces]
    /\ stale \subseteq tlb /\ tlb \subseteq Cpus
    /\ pc \in [Cpus -> {"user", "switch", "tcb", "mdb", "clear", "tag", "end", "poll", "ipi"}]
    /\ op \in [Cpus -> Revocations \cup {null}]
    /\ left \in [Cpus -> SUBSET Spaces]
    /\ untagged \in [Cpus -> SUBSET Cpus] /\ cleared \in [Cpus -> Spaces]
    /\ cpu_remote_flush \in [Cpus -> SUBSET Cpus]
    /\ pending \in [Cpus -> SUBSET Cpus]
    /\ acked \subseteq Cpus /\ ipi \subseteq Cpus
    /\ serving \in [Cpus -> Cpus] /\ stage \in [Cpus -> {"out", "loop", "clear", "ack"}]
    /\ mdb_lock \in Cpus \cup {null} /\ tcb_lock \in Cpus \cup {null}

Init ==
    /\ mapped = Spaces
    /\ active \in [Cpus -> Spaces] /\ cr3 = active
    /\ tlb = {} /\ stale = {}
    /\ pc = [c \in Cpus |-> "user"]
    /\ op = [c \in Cpus |-> null]
    /\ left = [c \in Cpus |-> {}]
    /\ untagged = [c \in Cpus |-> {}] /\ cleared = cr3
    /\ cpu_remote_flush = [c \in Cpus |-> {}]
    /\ pending = [c \in Cpus |-> {}]
    /\ acked = {} /\ ipi = {}
    /\ serving = [c \in Cpus |-> c] /\ stage = [c \in Cpus |-> "out"]
    /\ mdb_lock = null /\ tcb_lock = null

GoTo(c, place) == pc' = [pc EXCEPT ![c] = place]

\* x86_mmu_t::flush_tlb.
FlushTlb(c) == tlb' = tlb \ {c} /\ stale' = stale \ {c}

-----------------------------------------------------------------------------
(* The hardware and the thread switch                                       *)

\* The MMU loads the entry, for an access or ahead of one.
Load(c) ==
    /\ cr3[c] \in mapped /\ c \notin tlb
    /\ tlb' = tlb \cup {c}
    /\ UNCHANGED <<mapped, active, cr3, stale, pc, revoke, sync, serve, locks>>

\* The page is mapped again, elsewhere.
Map(s) ==
    /\ s \notin mapped
    /\ mapped' = mapped \cup {s}
    /\ UNCHANGED <<active, cr3, tlb, stale, pc, revoke, sync, serve, locks>>

\* switch_to: the new space is announced before CR3 is loaded.  A kernel thread
\* runs on the page table it finds, and leaves the announcement as it is.
Switch(c, s) ==
    /\ pc[c] = "user" /\ s # cr3[c]
    /\ active' = [active EXCEPT ![c] = s]
    /\ GoTo(c, "switch")
    /\ UNCHANGED <<mapped, cr3, tlb, stale, revoke, sync, serve, locks>>

LoadCr3(c) ==
    /\ pc[c] = "switch"
    /\ cr3' = [cr3 EXCEPT ![c] = active[c]]
    /\ FlushTlb(c) /\ GoTo(c, "user")
    /\ UNCHANGED <<mapped, active, revoke, sync, serve, locks>>

-----------------------------------------------------------------------------
(* Revoking                                                                 *)

\* Unmap, or an IPC with a grant or an overmapping: that locks the receiver
\* until the message is transferred.
Start(c, r) ==
    /\ pc[c] = "user" /\ r.by = cr3[c] /\ r.from \cap mapped # {}
    /\ op' = [op EXCEPT ![c] = r]
    /\ GoTo(c, IF c \in Senders THEN "tcb" ELSE "mdb")
    /\ UNCHANGED <<mmu, left, untagged, cleared, cpu_remote_flush, sync, serve, locks>>

LockTcb(c) ==
    /\ pc[c] = "tcb" /\ tcb_lock = null
    /\ tcb_lock' = c /\ GoTo(c, "mdb")
    /\ UNCHANGED <<mmu, revoke, sync, serve, mdb_lock>>

\* mdb_flush takes mdb_lock, and finds the mappings that are still there.
LockMdb(c) ==
    /\ pc[c] = "mdb" /\ mdb_lock = null
    /\ mdb_lock' = c /\ GoTo(c, "clear")
    /\ left' = [left EXCEPT ![c] = op[c].from \cap mapped]
    /\ UNCHANGED <<mmu, op, untagged, cleared, cpu_remote_flush, sync, serve, tcb_lock>>

\* f_pg->clear; then flush_tlbent, unless it pays to flush all at the end, begins
\* with the processor's own TLB and tag_flush_remote.
Clear(c, s) ==
    /\ pc[c] = "clear" /\ s \in left[c]
    /\ left' = [left EXCEPT ![c] = @ \ {s}]
    /\ mapped' = mapped \ {s}
    /\ LET seen == {d \in tlb : cr3[d] = s}
           flush == ~op[c].large
       IN  /\ tlb' = IF flush /\ s = cr3[c] THEN tlb \ {c} ELSE tlb
           /\ stale' = (stale \cup seen) \cap tlb'
           /\ untagged' = [untagged EXCEPT ![c] = IF flush THEN Cpus \ {c} ELSE {}]
           /\ GoTo(c, IF flush THEN "tag" ELSE "clear")
    /\ cleared' = [cleared EXCEPT ![c] = s]
    /\ UNCHANGED <<active, cr3, op, cpu_remote_flush, sync, serve, locks>>

TagMut(c, d) ==
    /\ pc[c] = "tag" /\ d \in untagged[c]
    /\ untagged' = [untagged EXCEPT ![c] = @ \ {d}]
    /\ cpu_remote_flush' =
           [cpu_remote_flush EXCEPT ![c] = IF active[d] = cr3[c] THEN @ \cup {d} ELSE @]
    /\ GoTo(c, IF untagged'[c] # {} THEN "tag" ELSE IF mdb_lock = c THEN "clear" ELSE "end")
    /\ UNCHANGED <<mmu, op, left, cleared, sync, serve, locks>>

\* The turn of processor d in tag_flush_remote.
Tag(c, d) ==
    /\ pc[c] = "tag" /\ d \in untagged[c]
    /\ untagged' = [untagged EXCEPT ![c] = @ \ {d}]
    /\ cpu_remote_flush' =
           [cpu_remote_flush EXCEPT ![c] = IF active[d] = cleared[c] THEN @ \cup {d} ELSE @]
    /\ GoTo(c, IF untagged'[c] # {} THEN "tag" ELSE IF mdb_lock = c THEN "clear" ELSE "end")
    /\ UNCHANGED <<mmu, op, left, cleared, sync, serve, locks>>

\* mdb_flush is done.  For a large fpage mapctrl_fpage now does what flush_tlbent
\* did not, for the space it was called in.
UnlockMdb(c) ==
    /\ pc[c] = "clear" /\ left[c] = {}
    /\ mdb_lock' = null
    /\ IF op[c].large
       THEN /\ FlushTlb(c) /\ cleared' = [cleared EXCEPT ![c] = cr3[c]]
            /\ untagged' = [untagged EXCEPT ![c] = Cpus \ {c}] /\ GoTo(c, "tag")
       ELSE GoTo(c, "end") /\ UNCHANGED <<tlb, stale, untagged, cleared>>
    /\ UNCHANGED <<mapped, active, cr3, op, left, cpu_remote_flush, sync, serve, tcb_lock>>

RequestMut(c, d) ==
    /\ pc[c] = "end" /\ d \in cpu_remote_flush[c]
    /\ cpu_remote_flush' = [cpu_remote_flush EXCEPT ![c] = @ \ {d}]
    /\ pending' = [pending EXCEPT ![d] = @ \cup {c}]
    /\ ipi' = ipi \cup {d}
    /\ GoTo(c, "poll")
    /\ UNCHANGED <<mmu, op, left, untagged, cleared, acked, serve, locks>>

\* flush_tlb_remote, sync_xcpu_request: set the pending bit, send the interrupt.
Request(c, d) ==
    /\ pc[c] = "end" /\ d \in cpu_remote_flush[c]
    /\ cpu_remote_flush' = [cpu_remote_flush EXCEPT ![c] = @ \ {d}]
    /\ acked' = acked \ {c}
    /\ pending' = [pending EXCEPT ![d] = @ \cup {c}]
    /\ ipi' = ipi \cup {d}
    /\ GoTo(c, "poll")
    /\ UNCHANGED <<mmu, op, left, untagged, cleared, serve, locks>>

\* One turn of the poll: the request is done, or others are served meanwhile.
Poll(c) ==
    /\ pc[c] = "poll" /\ stage[c] = "out"
    /\ IF c \in acked
       THEN GoTo(c, "end") /\ UNCHANGED stage
       ELSE stage' = [stage EXCEPT ![c] = "loop"] /\ UNCHANGED pc
    /\ UNCHANGED <<mmu, revoke, sync, serving, locks>>

Return(c) ==
    /\ pc[c] = "end" /\ cpu_remote_flush[c] = {}
    /\ op' = [op EXCEPT ![c] = null]
    /\ tcb_lock' = IF tcb_lock = c THEN null ELSE tcb_lock
    /\ GoTo(c, "user")
    /\ UNCHANGED <<mmu, left, untagged, cleared, cpu_remote_flush, sync, serve, mdb_lock>>

-----------------------------------------------------------------------------
(* Serving requests                                                         *)

InterruptMut(c) ==
    /\ pc[c] = "user" /\ c \in ipi
    /\ ipi' = ipi \ {c}
    /\ UNCHANGED <<mmu, pc, revoke, pending, acked, serve, locks>>

\* smp_trigger_ipi.
Interrupt(c) ==
    /\ pc[c] = "user" /\ c \in ipi
    /\ ipi' = ipi \ {c}
    /\ GoTo(c, "ipi")
    /\ stage' = [stage EXCEPT ![c] = "loop"]
    /\ UNCHANGED <<mmu, revoke, pending, acked, serving, locks>>

\* The loop of handle_sync_requests finds a request and runs its handler,
\* do_xcpu_flush_tlb.
Handle(c, a) ==
    /\ stage[c] = "loop" /\ a \in pending[c]
    /\ FlushTlb(c)
    /\ serving' = [serving EXCEPT ![c] = a]
    /\ stage' = [stage EXCEPT ![c] = "clear"]
    /\ UNCHANGED <<mapped, active, cr3, pc, revoke, sync, locks>>

ClearPending(c) ==
    /\ stage[c] = "clear"
    /\ pending' = [pending EXCEPT ![c] = @ \ {serving[c]}]
    /\ stage' = [stage EXCEPT ![c] = "ack"]
    /\ UNCHANGED <<mmu, pc, revoke, acked, ipi, serving, locks>>

Ack(c) ==
    /\ stage[c] = "ack"
    /\ acked' = acked \cup {serving[c]}
    /\ serving' = [serving EXCEPT ![c] = c]
    /\ stage' = [stage EXCEPT ![c] = "loop"]
    /\ UNCHANGED <<mmu, pc, revoke, pending, ipi, locks>>

\* No request is left.
Served(c) ==
    /\ stage[c] = "loop" /\ pending[c] = {}
    /\ stage' = [stage EXCEPT ![c] = "out"]
    /\ GoTo(c, IF pc[c] = "ipi" THEN "user" ELSE pc[c])
    /\ UNCHANGED <<mmu, revoke, sync, serving, locks>>

-----------------------------------------------------------------------------
\* What a processor in the kernel does next.
Kernel(c) ==
    \/ LoadCr3(c) \/ LockTcb(c) \/ LockMdb(c)
    \/ (\E s \in Spaces : Clear(c, s)) \/ (\E d \in Cpus : Tag(c, d))
    \/ UnlockMdb(c) \/ (\E d \in Cpus : Request(c, d)) \/ Poll(c) \/ Return(c)
    \/ (\E a \in Cpus : Handle(c, a)) \/ ClearPending(c) \/ Ack(c) \/ Served(c)

Next ==
    \/ \E s \in Spaces : Map(s)
    \/ \E c \in Cpus :
           \/ Load(c) \/ (\E s \in Spaces : Switch(c, s)) \/ (\E r \in Revocations : Start(c, r))
           \/ Interrupt(c) \/ Kernel(c)

\* A processor in the kernel keeps running, and one in user mode takes the
\* interrupts that are due, however often it enters the kernel before.
Fairness == \A c \in Cpus : WF_vars(Kernel(c)) /\ SF_vars(Interrupt(c))

Spec == Init /\ [][Next]_vars /\ Fairness

-----------------------------------------------------------------------------
(* Properties                                                               *)

\* A processor can go on using an entry that has been revoked only as long as
\* the operation that revoked it has not returned, unless it is about to leave
\* the page table: the announcement of the next one comes first.
NoStaleEntry ==
    \A c \in stale :
        pc[c] = "switch" \/ \E d \in Cpus : op[d] # null /\ cr3[c] \in op[d].from

\* An acknowledgement is for the request that is outstanding: its receiver has
\* flushed its TLB since, and has done with the entry and with its pending bit.
AckIsFresh ==
    \A c \in Cpus : pc[c] = "poll" /\ c \in acked =>
        \A d \in Cpus : c \notin pending[d] /\ ~(stage[d] \in {"clear", "ack"} /\ serving[d] = c)

\* The scheme allows to "send remote requests even with disabled interrupts":
\* every operation ends, even if two processors send requests to each other,
\* unless a processor is kept in handle_sync_requests by new requests for ever.
RequestsAnswered ==
    (\A c \in Cpus : []<>(stage[c] = "out"))
        => \A c \in Cpus : pc[c] \in {"end", "poll"} ~> pc[c] = "user"
=============================================================================
