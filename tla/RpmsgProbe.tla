------------------------------ MODULE RpmsgProbe ------------------------------
(***************************************************************************)
(* rpmsg_probe, its error path, rpmsg_remove, rpmsg_init and rpmsg_fini of *)
(* virtio_rpmsg_bus.c, for several virtio devices, while the remote        *)
(* processors write into the receive buffers and interrupt.  What matters  *)
(* here is the order in which memory is taken, shown to the remote         *)
(* processor, hidden from it and given back.                               *)
(*                                                                         *)
(* Left out: what the interrupt does with a message (RpmsgRx), the         *)
(* channels rpmsg_remove unregisters one by one (RpmsgChannel), and        *)
(* virtqueue_notify, which only tells the remote processor to hurry.       *)
(***************************************************************************)
EXTENDS Integers, FiniteSets

CONSTANTS Device,    \* the virtio devices
          MaxBufs,   \* MAX_RPMSG_NUM_BUFS
          RingSizes  \* the sizes a receive ring may have

ASSUME MaxBufsAssumption == MaxBufs \in Nat /\ MaxBufs % 2 = 0
ASSUME RingSizesAssumption == RingSizes \subseteq Nat

VARIABLES driver,    \* "out", "in", or "leaving": inside unregister_virtio_driver
          pc,        \* where probe or remove of a device is
          held,      \* what the driver has allocated for a device
          ns,        \* the device offers VIRTIO_RPMSG_F_NS
          ring,      \* virtqueue_get_vring_size of its rvq
          numBufs,   \* vrp->num_bufs
          posted,    \* receive buffers that are the remote processor's to fill
          refused,   \* calls of virtqueue_add_inbuf in the probe that failed
          used,      \* receive buffers on the used ring
          online,    \* DRIVER_OK is set: the remote processor uses the rings
          pending,   \* an interrupt of the receive ring is on its way
          rx         \* rpmsg_recv_done: "idle", "loop", or "hold" with a buffer

vars == <<driver, pc, held, ns, ring, numBufs, posted, refused, used, online,
          pending, rx>>
queueVars == <<posted, used, pending, rx>>

ProbePcs == {"find_vqs", "alloc_bufs", "fill", "create_ns", "ready"}
UnwindPcs == {"free_coherent", "vqs_del", "free_vrp"}
RemovePcs == {"destroy_ns", "del_vqs", "free_all"}

\* What is allocated: the virtproc_info, the virtqueues, the coherent
\* memory of all buffers, and the name service endpoint.
Resources == {"vrp", "vqs", "bufs", "ns_ept"}

Init ==
  /\ driver = "out"
  /\ pc = [d \in Device |-> "unbound"]
  /\ held = [d \in Device |-> {}]
  /\ ns = [d \in Device |-> FALSE]
  /\ ring = [d \in Device |-> 0]
  /\ numBufs = [d \in Device |-> 0]
  /\ posted = [d \in Device |-> 0]
  /\ refused = [d \in Device |-> 0]
  /\ used = [d \in Device |-> 0]
  /\ online = [d \in Device |-> FALSE]
  /\ pending = [d \in Device |-> FALSE]
  /\ rx = [d \in Device |-> "idle"]

-----------------------------------------------------------------------------
\* The device of rpmsg_probe or rpmsg_remove goes from one place to another.
Goto(d, from, to) == pc[d] = from /\ pc' = [pc EXCEPT ![d] = to]

Acquire(d, r) == held' = [held EXCEPT ![d] = @ \cup {r}]
Release(d, rs) == held' = [held EXCEPT ![d] = @ \ rs]

\* kzalloc and the initialisations; when it fails nothing has happened.
ProbeAlloc(d) ==
  /\ driver = "in"
  /\ Goto(d, "unbound", "find_vqs")
  /\ Acquire(d, "vrp")
  /\ \E b \in BOOLEAN : ns' = [ns EXCEPT ![d] = b]
  /\ UNCHANGED <<driver, ring, numBufs, refused, online, queueVars>>

NumBufs_Max(r) == MaxBufs

\* "we need less buffers if vrings are small"
NumBufs(r) == IF r < MaxBufs \div 2 THEN r * 2 ELSE MaxBufs

ProbeFindVqs(d) ==
  /\ Goto(d, "find_vqs", "alloc_bufs")
  /\ Acquire(d, "vqs")
  /\ \E r \in RingSizes :
       /\ ring' = [ring EXCEPT ![d] = r]
       /\ numBufs' = [numBufs EXCEPT ![d] = NumBufs(r)]
  /\ UNCHANGED <<driver, ns, refused, online, queueVars>>

ProbeFindVqsFails(d) ==
  /\ Goto(d, "find_vqs", "free_vrp")
  /\ UNCHANGED <<driver, held, ns, ring, numBufs, refused, online, queueVars>>

ProbeAllocBufs(d) ==
  /\ Goto(d, "alloc_bufs", "fill")
  /\ Acquire(d, "bufs")
  /\ UNCHANGED <<driver, ns, ring, numBufs, refused, online, queueVars>>

ProbeAllocBufsFails_WrongLabel(d) ==
  /\ Goto(d, "alloc_bufs", "free_vrp")
  /\ UNCHANGED <<driver, held, ns, ring, numBufs, refused, online, queueVars>>

ProbeAllocBufsFails(d) ==
  /\ Goto(d, "alloc_bufs", "vqs_del")
  /\ UNCHANGED <<driver, held, ns, ring, numBufs, refused, online, queueVars>>

\* Half of the buffers go on the receive ring; the ring takes no more than
\* it has entries, and the loop goes on after an error.
ProbeFill(d) ==
  LET half == numBufs[d] \div 2
      fits == IF half <= ring[d] THEN half ELSE ring[d]
  IN /\ Goto(d, "fill", "create_ns")
     /\ posted' = [posted EXCEPT ![d] = fits]
     /\ refused' = [refused EXCEPT ![d] = half - fits]
     /\ UNCHANGED <<driver, held, ns, ring, numBufs, used, online, pending, rx>>

ProbeCreateNs(d) ==
  /\ Goto(d, "create_ns", "ready")
  /\ IF ns[d] THEN Acquire(d, "ns_ept") ELSE UNCHANGED held
  /\ UNCHANGED <<driver, ns, ring, numBufs, refused, online, queueVars>>

ProbeCreateNsFails(d) ==
  /\ ns[d]
  /\ Goto(d, "create_ns", "free_coherent")
  /\ UNCHANGED <<driver, held, ns, ring, numBufs, refused, online, queueVars>>

\* virtio_device_ready: "From this point on, we can notify and get callbacks"
ProbeReady(d) ==
  /\ Goto(d, "ready", "bound")
  /\ online' = [online EXCEPT ![d] = TRUE]
  /\ UNCHANGED <<driver, held, ns, ring, numBufs, refused, queueVars>>

\* The labels at the end of rpmsg_probe.
UnwindFreeCoherent(d) ==
  /\ Goto(d, "free_coherent", "vqs_del")
  /\ Release(d, {"bufs"})
  /\ UNCHANGED <<driver, ns, ring, numBufs, refused, online, queueVars>>

\* del_vqs of the transport: it frees the interrupt, waiting for a handler
\* that runs, and forgets what is on the rings.
DelVqs(d) ==
  /\ rx[d] = "idle"
  /\ posted' = [posted EXCEPT ![d] = 0]
  /\ used' = [used EXCEPT ![d] = 0]
  /\ pending' = [pending EXCEPT ![d] = FALSE]
  /\ UNCHANGED rx

UnwindVqsDel(d) ==
  /\ Goto(d, "vqs_del", "free_vrp")
  /\ DelVqs(d)
  /\ Release(d, {"vqs"})
  /\ UNCHANGED <<driver, ns, ring, numBufs, refused, online>>

UnwindFreeVrp(d) ==
  /\ Goto(d, "free_vrp", "unbound")
  /\ Release(d, {"vrp"})
  /\ UNCHANGED <<driver, ns, ring, numBufs, refused, online, queueVars>>

-----------------------------------------------------------------------------
\* config->reset: the remote processor leaves the rings alone; an interrupt
\* it has raised is still delivered.  The device goes, or the driver.
RemoveReset(d) ==
  /\ Goto(d, "bound", "destroy_ns")
  /\ online' = [online EXCEPT ![d] = FALSE]
  /\ UNCHANGED <<driver, held, ns, ring, numBufs, refused, queueVars>>

RemoveDestroyNs_FreesBufs(d) ==
  /\ Goto(d, "destroy_ns", "del_vqs")
  /\ Release(d, {"ns_ept", "bufs"})
  /\ UNCHANGED <<driver, ns, ring, numBufs, refused, online, queueVars>>

\* The channels go (RpmsgChannel), and then the name service endpoint.
RemoveDestroyNs(d) ==
  /\ Goto(d, "destroy_ns", "del_vqs")
  /\ Release(d, {"ns_ept"})
  /\ UNCHANGED <<driver, ns, ring, numBufs, refused, online, queueVars>>

RemoveDelVqs(d) ==
  /\ Goto(d, "del_vqs", "free_all")
  /\ DelVqs(d)
  /\ Release(d, {"vqs"})
  /\ UNCHANGED <<driver, ns, ring, numBufs, refused, online>>

\* dma_free_coherent and kfree.
RemoveFree(d) ==
  /\ Goto(d, "free_all", "unbound")
  /\ Release(d, {"bufs", "vrp"})
  /\ UNCHANGED <<driver, ns, ring, numBufs, refused, online, queueVars>>

-----------------------------------------------------------------------------
\* The remote processor writes a message into a buffer and interrupts.
RemoteWrites(d) ==
  /\ online[d] /\ posted[d] > 0
  /\ posted' = [posted EXCEPT ![d] = @ - 1]
  /\ used' = [used EXCEPT ![d] = @ + 1]
  /\ pending' = [pending EXCEPT ![d] = TRUE]
  /\ UNCHANGED <<driver, pc, held, ns, ring, numBufs, refused, online, rx>>

\* rpmsg_recv_done starts, takes a buffer, gives it back, or returns.
RxStart(d) ==
  /\ pending[d] /\ rx[d] = "idle"
  /\ pending' = [pending EXCEPT ![d] = FALSE]
  /\ rx' = [rx EXCEPT ![d] = "loop"]
  /\ UNCHANGED <<driver, pc, held, ns, ring, numBufs, refused, online, posted,
                 used>>

RxGet_Unchecked(d) ==
  /\ rx[d] = "loop"
  /\ used' = [used EXCEPT ![d] = @ - 1]
  /\ rx' = [rx EXCEPT ![d] = "hold"]
  /\ UNCHANGED <<driver, pc, held, ns, ring, numBufs, refused, online, posted,
                 pending>>

RxGet(d) ==
  /\ rx[d] = "loop" /\ used[d] > 0
  /\ used' = [used EXCEPT ![d] = @ - 1]
  /\ rx' = [rx EXCEPT ![d] = "hold"]
  /\ UNCHANGED <<driver, pc, held, ns, ring, numBufs, refused, online, posted,
                 pending>>

RxPut(d) ==
  /\ rx[d] = "hold"
  /\ posted' = [posted EXCEPT ![d] = @ + 1]
  /\ rx' = [rx EXCEPT ![d] = "loop"]
  /\ UNCHANGED <<driver, pc, held, ns, ring, numBufs, refused, online, used,
                 pending>>

RxReturn(d) ==
  /\ rx[d] = "loop" /\ used[d] = 0
  /\ rx' = [rx EXCEPT ![d] = "idle"]
  /\ UNCHANGED <<driver, pc, held, ns, ring, numBufs, refused, online, posted,
                 used, pending>>

-----------------------------------------------------------------------------
\* register_virtio_driver; when it fails the driver stays out.
RpmsgInit ==
  /\ driver = "out"
  /\ driver' = "in"
  /\ UNCHANGED <<pc, held, ns, ring, numBufs, refused, online, queueVars>>

\* unregister_virtio_driver: no more probes, then all devices are unbound.
RpmsgFini ==
  /\ driver = "in"
  /\ driver' = "leaving"
  /\ UNCHANGED <<pc, held, ns, ring, numBufs, refused, online, queueVars>>

RpmsgFiniDone ==
  /\ driver = "leaving"
  /\ \A d \in Device : pc[d] = "unbound"
  /\ driver' = "out"
  /\ UNCHANGED <<pc, held, ns, ring, numBufs, refused, online, queueVars>>

ProbeStep(d) ==
  \/ ProbeFindVqs(d) \/ ProbeFindVqsFails(d)
  \/ ProbeAllocBufs(d) \/ ProbeAllocBufsFails(d)
  \/ ProbeFill(d)
  \/ ProbeCreateNs(d) \/ ProbeCreateNsFails(d)
  \/ ProbeReady(d)
UnwindStep(d) == UnwindFreeCoherent(d) \/ UnwindVqsDel(d) \/ UnwindFreeVrp(d)
RemoveStep(d) == RemoveDestroyNs(d) \/ RemoveDelVqs(d) \/ RemoveFree(d)
RxStep(d) == RxStart(d) \/ RxGet(d) \/ RxPut(d) \/ RxReturn(d)

Next ==
  \/ RpmsgInit \/ RpmsgFini \/ RpmsgFiniDone
  \/ \E d \in Device :
       \/ ProbeAlloc(d) \/ ProbeStep(d) \/ UnwindStep(d)
       \/ RemoveReset(d) \/ RemoveStep(d)
       \/ RemoteWrites(d) \/ RxStep(d)

Spec == Init /\ [][Next]_vars

-----------------------------------------------------------------------------
(* Correctness.                                                             *)

TypeOK ==
  /\ driver \in {"out", "in", "leaving"}
  /\ pc \in [Device -> {"unbound", "bound"} \cup ProbePcs \cup UnwindPcs
                       \cup RemovePcs]
  /\ held \in [Device -> SUBSET Resources]
  /\ ns \in [Device -> BOOLEAN]
  /\ ring \in [Device -> Nat]
  /\ numBufs \in [Device -> Nat]
  /\ posted \in [Device -> Nat]
  /\ refused \in [Device -> Nat]
  /\ used \in [Device -> Nat]
  /\ online \in [Device -> BOOLEAN]
  /\ pending \in [Device -> BOOLEAN]
  /\ rx \in [Device -> {"idle", "loop", "hold"}]

\* Memory is not freed under those who use it: as long as the remote processor
\* may write into the buffers, or rpmsg_recv_done runs, a device has its
\* virtproc_info, its virtqueues and its buffers.
MemoryInUse ==
  \A d \in Device :
     online[d] \/ rx[d] # "idle" => {"vrp", "vqs", "bufs"} \subseteq held[d]

\* A device without driver has nothing of it, however its probe failed and
\* whatever was on the rings when it was removed; and after rpmsg_fini no
\* device has a driver.
NothingLeft ==
  \A d \in Device :
     /\ pc[d] = "unbound" => held[d] = {} /\ ~pending[d] /\ rx[d] = "idle"
     /\ driver = "out" => pc[d] = "unbound"

\* "WARN_ON(err); /* sanity check; this can't really happen */": the receive
\* ring has room for half of the buffers, whatever its size, and these remain
\* the receive buffers of an online device.
FillFits ==
  \A d \in Device :
     /\ refused[d] = 0
     /\ online[d] =>
          posted[d] + used[d] + (IF rx[d] = "hold" THEN 1 ELSE 0)
            = numBufs[d] \div 2
=============================================================================
