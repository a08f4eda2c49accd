------------------------------ MODULE RpmsgChar -------------------------------
(***************************************************************************)
(* One endpoint device /dev/rpmsgN of the rpmsg character device driver    *)
(* (src/virtio_rpmsg_test/rpmsg_char.c) from rpmsg_eptdev_create on: opens, *)
(* reads, writes, polls, closes and RPMSG_DESTROY_EPT_IOCTL by any number  *)
(* of threads, the callback rpmsg_ept_cb on the rx thread of the bus, and  *)
(* rpmsg_chrdev_remove, which destroys the device under its users.         *)
(*                                                                         *)
(* ept_lock is held across a send, and while rpmsg_destroy_ept waits for   *)
(* the endpoint's callback to end (cb_lock, see RpmsgRx), so it is a       *)
(* variable; sections under queue_lock are single steps.                   *)
(***************************************************************************)
EXTENDS Integers, Sequences, FiniteSets

CONSTANTS
  Files,      \* open file descriptions of the device
  Threads,    \* threads of user space
  Parent,     \* the thread that runs rpmsg_chrdev_remove
  Epts,       \* memory for struct rpmsg_endpoint
  MaxQueue,   \* bound on messages waiting to be read
  OneDestroy, \* the device is destroyed at most once
  None        \* NULL

ASSUME CharAssumption ==
  /\ Parent \notin Threads
  /\ MaxQueue \in Nat /\ OneDestroy \in BOOLEAN
  /\ None \notin Epts \cup Files \cup Threads \cup {Parent}

VARIABLES
  \* struct rpmsg_eptdev
  eptptr,     \* eptdev->ept
  lock,       \* the thread that holds ept_lock
  queue,      \* skbs, each named by the endpoint that received it
  refs,       \* references on eptdev->dev; it is freed with the last one
  registered, \* between device_add and device_del
  destroys,   \* how many rpmsg_eptdev_destroy calls have started
  \* the bus
  live,       \* endpoints created with rpmsg_ept_cb and not destroyed
  cb,         \* the endpoint whose callback runs on the rx thread
  cbPc,       \* where it is
  \* the threads
  open,       \* files that are open
  pc, file, lept, \* where a thread is, on which file, and its local ept
  woken,      \* taken off readq by a wake-up since it queued itself
  ret         \* what its last call returned

devVars    == <<eptptr, lock, queue, refs, registered, destroys>>
busVars    == <<live, cb, cbPc>>
threadVars == <<open, pc, file, lept, woken, ret>>
vars       == <<devVars, busVars, threadVars>>

Callers == Threads \cup {Parent}

Init ==
  /\ eptptr = None /\ lock = None /\ queue = <<>>
  /\ refs = 1 /\ registered = TRUE /\ destroys = 0
  /\ live = {} /\ cb = None /\ cbPc = "idle"
  /\ open = {}
  /\ pc = [t \in Callers |-> "idle"]
  /\ file = [t \in Callers |-> None]
  /\ lept = [t \in Callers |-> None]
  /\ woken = [t \in Callers |-> FALSE]
  /\ ret = [t \in Callers |-> "none"]

-----------------------------------------------------------------------------
(* Building blocks.                                                         *)

Goto(t, label) == pc' = [pc EXCEPT ![t] = label]

Start(t, f, label) ==
  /\ pc[t] = "idle"
  /\ Goto(t, label)
  /\ file' = [file EXCEPT ![t] = f]
  /\ ret' = [ret EXCEPT ![t] = "none"]

Return(t, r) ==
  /\ Goto(t, "idle")
  /\ file' = [file EXCEPT ![t] = None]
  /\ ret' = [ret EXCEPT ![t] = r]

\* wake_up_interruptible(&eptdev->readq)
Queued == {"r_check", "r_sleep"}

WakeReaders == woken' = [t \in Callers |-> woken[t] \/ pc[t] \in Queued]

Busy(f) == \E t \in Threads : file[t] = f

\* Release and destroy take ept_lock ...
LockEpt(t) ==
  /\ pc[t] \in {"c_lock", "d_lock"} /\ lock = None
  /\ lock' = t
  /\ Goto(t, IF pc[t] = "c_lock" THEN "c_ept" ELSE "d_ept")
  /\ UNCHANGED <<eptptr, queue, refs, registered, destroys, busVars, open, file,
                 lept, woken, ret>>

DestroyTheEpt_CbIgnored ==
  /\ live' = live \ {eptptr}
  /\ eptptr' = None

\* ... and destroy the endpoint, if it is not already destroyed, waiting for
\* its callback.
DestroyTheEpt ==
  /\ eptptr # None => cb # eptptr
  /\ live' = live \ {eptptr}
  /\ eptptr' = None

CloseEpt(t) ==
  /\ pc[t] \in {"c_ept", "d_ept"}
  /\ DestroyTheEpt
  /\ lock' = None
  /\ Goto(t, IF pc[t] = "c_ept" THEN "c_purge" ELSE "d_wake")
  /\ UNCHANGED <<queue, refs, registered, destroys, cb, cbPc, open, file, lept,
                 woken, ret>>

-----------------------------------------------------------------------------
(* open                                                                     *)

\* rpmsg_eptdev_open takes a reference and creates an endpoint ...
Open(t, f) ==
  /\ refs > 0 /\ f \notin open /\ ~Busy(f)
  /\ Start(t, f, "o_set")
  /\ refs' = refs + 1
  /\ \E e \in Epts \ live :
       /\ live' = live \cup {e}
       /\ lept' = [lept EXCEPT ![t] = e]
  /\ UNCHANGED <<eptptr, lock, queue, registered, destroys, cb, cbPc, open, woken>>

\* ... or, if there is no address for one, drops the reference again.
OpenFails(t, f) ==
  /\ refs > 0 /\ f \notin open /\ ~Busy(f)
  /\ pc[t] = "idle"
  /\ ret' = [ret EXCEPT ![t] = "EINVAL"]
  /\ UNCHANGED <<devVars, busVars, open, pc, file, lept, woken>>

\* The endpoint is stored without ept_lock.
OpenSet(t) ==
  /\ pc[t] = "o_set"
  /\ eptptr' = lept[t]
  /\ lept' = [lept EXCEPT ![t] = None]
  /\ open' = open \cup {file[t]}
  /\ Return(t, "ok")
  /\ UNCHANGED <<lock, queue, refs, registered, destroys, busVars, woken>>

-----------------------------------------------------------------------------
(* release                                                                  *)

\* The last reference to an open file is dropped: no call on it is under way.
Release(t, f) ==
  /\ f \in open /\ ~Busy(f)
  /\ Start(t, f, "c_lock")
  /\ open' = open \ {f}
  /\ UNCHANGED <<devVars, busVars, lept, woken>>

ReleasePurge_None(t) == UNCHANGED queue

\* Discard all SKBs.
ReleasePurge(t) == queue' = <<>>

ReleasePut(t) ==
  /\ pc[t] = "c_purge"
  /\ ReleasePurge(t)
  /\ refs' = refs - 1
  /\ Return(t, "ok")
  /\ UNCHANGED <<eptptr, lock, registered, destroys, busVars, open, lept, woken>>

-----------------------------------------------------------------------------
(* read                                                                     *)

\* rpmsg_eptdev_read_iter: no endpoint, no data.
Read(t, f) ==
  /\ f \in open /\ pc[t] = "idle"
  /\ IF eptptr = None
       THEN ret' = [ret EXCEPT ![t] = "EPIPE"] /\ UNCHANGED <<pc, file>>
       ELSE Start(t, f, "r_queue")
  /\ UNCHANGED <<devVars, busVars, open, lept, woken>>

\* skb_dequeue, NULL becoming -EFAULT.
Dequeue(t) ==
  IF queue = <<>>
    THEN Return(t, "EFAULT") /\ UNCHANGED queue
    ELSE Return(t, "data") /\ queue' = Tail(queue)

\* The queue is looked at once under queue_lock; if it is empty the thread
\* gives up (O_NONBLOCK) or waits.
ReadQueue(t) ==
  /\ pc[t] = "r_queue"
  /\ IF queue # <<>>
       THEN Dequeue(t)
       ELSE /\ \/ Return(t, "EAGAIN")
               \/ Goto(t, "r_wait") /\ UNCHANGED <<file, ret>>
            /\ UNCHANGED queue
  /\ UNCHANGED <<eptptr, lock, refs, registered, destroys, busVars, open, lept, woken>>

\* wait_event_interruptible: queue the thread (the condition it evaluates
\* before that makes no difference) ...
ReadPrepare(t) ==
  /\ pc[t] = "r_wait"
  /\ woken' = [woken EXCEPT ![t] = FALSE]
  /\ Goto(t, "r_check")
  /\ UNCHANGED <<devVars, busVars, open, file, lept, ret>>

\* "Wait until we get data or the endpoint goes away"
ReadCond == queue # <<>> \/ eptptr = None

\* ... check the condition, and sleep, or return because of a signal.
ReadCheck(t) ==
  /\ pc[t] = "r_check"
  /\ \/ ReadCond /\ Goto(t, "r_ept") /\ UNCHANGED <<file, ret>>
     \/ ~ReadCond /\ Goto(t, "r_sleep") /\ UNCHANGED <<file, ret>>
     \/ ~ReadCond /\ Return(t, "ERESTARTSYS")
  /\ UNCHANGED <<devVars, busVars, open, lept, woken>>

ReadWake(t) ==
  /\ pc[t] = "r_sleep" /\ woken[t]
  /\ Goto(t, "r_wait")
  /\ UNCHANGED <<devVars, busVars, open, file, lept, woken, ret>>

\* "We lost the endpoint while waiting"
ReadEpt(t) ==
  /\ pc[t] = "r_ept"
  /\ IF eptptr = None THEN Return(t, "EPIPE")
                      ELSE Goto(t, "r_take") /\ UNCHANGED <<file, ret>>
  /\ UNCHANGED <<devVars, busVars, open, lept, woken>>

\* The lock is taken again; somebody else may have read in between.
ReadTake(t) ==
  /\ pc[t] = "r_take"
  /\ Dequeue(t)
  /\ UNCHANGED <<eptptr, lock, refs, registered, destroys, busVars, open, lept, woken>>

ReadSteps(t) ==
  ReadQueue(t) \/ ReadPrepare(t) \/ ReadCheck(t) \/ ReadWake(t) \/ ReadEpt(t)
    \/ ReadTake(t)

-----------------------------------------------------------------------------
(* write and poll                                                           *)

\* rpmsg_eptdev_write_iter; the data may not be readable.
Write(t, f) ==
  /\ f \in open
  /\ \/ Start(t, f, "w_lock")
     \/ pc[t] = "idle" /\ ret' = [ret EXCEPT ![t] = "EFAULT"] /\ UNCHANGED <<pc, file>>
  /\ UNCHANGED <<devVars, busVars, open, lept, woken>>

\* mutex_lock_interruptible, then the endpoint is sent on if there is one.
WriteLock(t) ==
  /\ pc[t] = "w_lock"
  /\ \/ Return(t, "ERESTARTSYS") /\ UNCHANGED <<lock, lept>>
     \/ lock = None /\ eptptr = None /\ Return(t, "EPIPE") /\ UNCHANGED <<lock, lept>>
     \/ /\ lock = None /\ eptptr # None
        /\ lock' = t
        /\ lept' = [lept EXCEPT ![t] = eptptr]
        /\ Goto(t, "w_send") /\ UNCHANGED <<file, ret>>
  /\ UNCHANGED <<eptptr, queue, refs, registered, destroys, busVars, open, woken>>

WriteSent_ErrorKeepsLock(t) ==
  /\ pc[t] = "w_send"
  /\ lept' = [lept EXCEPT ![t] = None]
  /\ \E r \in {"ok", "ENOMEM", "ERESTARTSYS"} :
       Return(t, r) /\ lock' = IF r = "ok" THEN None ELSE lock
  /\ UNCHANGED <<eptptr, queue, refs, registered, destroys, busVars, open, woken>>

\* rpmsg_send or rpmsg_trysend returns (see RpmsgTx), and the lock is released.
WriteSent(t) ==
  /\ pc[t] = "w_send"
  /\ lock' = None
  /\ lept' = [lept EXCEPT ![t] = None]
  /\ \E r \in {"ok", "ENOMEM", "ERESTARTSYS"} : Return(t, r)
  /\ UNCHANGED <<eptptr, queue, refs, registered, destroys, busVars, open, woken>>

\* rpmsg_eptdev_poll checks the endpoint ...
Poll(t, f) ==
  /\ f \in open /\ pc[t] = "idle"
  /\ IF eptptr = None
       THEN ret' = [ret EXCEPT ![t] = "EPOLLERR"] /\ UNCHANGED <<pc, file>>
       ELSE Start(t, f, "p_ept")
  /\ UNCHANGED <<devVars, busVars, open, lept, woken>>

\* ... and without ept_lock reads it again for rpmsg_poll, which has nothing to
\* add to the mask: virtio endpoints have no poll operation.
PollEpt(t) ==
  /\ pc[t] = "p_ept"
  /\ Return(t, IF queue = <<>> THEN "0" ELSE "EPOLLIN")
  /\ UNCHANGED <<devVars, busVars, open, lept, woken>>

-----------------------------------------------------------------------------
(* rpmsg_eptdev_destroy, by RPMSG_DESTROY_EPT_IOCTL or rpmsg_chrdev_remove.  *)

MayDestroy == OneDestroy => destroys = 0

Destroy(t, f) ==
  /\ MayDestroy /\ f \in open
  /\ Start(t, f, "d_lock")
  /\ destroys' = destroys + 1
  /\ UNCHANGED <<eptptr, lock, queue, refs, registered, busVars, open, lept, woken>>

\* device_for_each_child finds the device, once.
ParentRemove ==
  /\ MayDestroy /\ registered /\ ret[Parent] = "none"
  /\ Start(Parent, None, "d_lock")
  /\ destroys' = destroys + 1
  /\ UNCHANGED <<eptptr, lock, queue, refs, registered, busVars, open, lept, woken>>

DestroyWakes_Not == UNCHANGED woken

\* wake up any blocked readers
DestroyWakes == WakeReaders

DestroyWake(t) ==
  /\ pc[t] = "d_wake"
  /\ DestroyWakes
  /\ Goto(t, "d_del")
  /\ UNCHANGED <<devVars, busVars, open, file, lept, ret>>

\* device_del and put_device.
DestroyDel(t) ==
  /\ pc[t] = "d_del"
  /\ registered' = FALSE
  /\ refs' = refs - 1
  /\ Return(t, "ok")
  /\ UNCHANGED <<eptptr, lock, queue, destroys, busVars, open, lept, woken>>

DestroySteps(t) == DestroyWake(t) \/ DestroyDel(t)
CloseSteps(t)   == LockEpt(t) \/ CloseEpt(t)

-----------------------------------------------------------------------------
(* rpmsg_ept_cb                                                             *)

\* A message arrives for a live endpoint.
CbStart(e) ==
  /\ cb = None /\ e \in live
  /\ cb' = e /\ cbPc' = "queue"
  /\ UNCHANGED <<devVars, live, threadVars>>

\* It is queued; out of memory, it is dropped.
CbQueue ==
  /\ cbPc = "queue"
  /\ \/ Len(queue) < MaxQueue /\ queue' = Append(queue, cb)
        /\ cbPc' = "wake" /\ UNCHANGED cb
     \/ UNCHANGED queue /\ cbPc' = "idle" /\ cb' = None
  /\ UNCHANGED <<eptptr, lock, refs, registered, destroys, live, threadVars>>

\* wake up any blocking processes, waiting for new data
CbWake ==
  /\ cbPc = "wake"
  /\ WakeReaders
  /\ cb' = None /\ cbPc' = "idle"
  /\ UNCHANGED <<devVars, live, open, pc, file, lept, ret>>

-----------------------------------------------------------------------------
CallSteps(t) ==
  \/ OpenSet(t) \/ ReleasePut(t) \/ ReadSteps(t)
  \/ WriteLock(t) \/ WriteSent(t) \/ PollEpt(t)

Next ==
  \/ \E t \in Threads :
       \/ \E f \in Files :
            \/ Open(t, f) \/ OpenFails(t, f) \/ Release(t, f)
            \/ Read(t, f) \/ Write(t, f) \/ Poll(t, f) \/ Destroy(t, f)
       \/ CallSteps(t)
  \/ ParentRemove
  \/ \E t \in Callers : CloseSteps(t) \/ DestroySteps(t)
  \/ \E e \in Epts : CbStart(e)
  \/ CbQueue \/ CbWake

(***************************************************************************)
(* Calls that can go on do, a send returns (RpmsgTx), the callback runs.   *)
(* A waiting mutex_lock is granted ept_lock, or cb_lock, in the end, so    *)
(* these steps are strongly fair.                                          *)
(***************************************************************************)
Fairness ==
  /\ \A t \in Threads : WF_vars(CallSteps(t))
  /\ \A t \in Callers : WF_vars(DestroySteps(t)) /\ SF_vars(CloseSteps(t))
  /\ WF_vars(CbQueue \/ CbWake)

Spec == Init /\ [][Next]_vars /\ Fairness

-----------------------------------------------------------------------------
(* Correctness.                                                             *)

Labels == {"idle", "o_set", "c_lock", "c_ept", "c_purge",
           "r_queue", "r_wait", "r_check", "r_sleep", "r_ept", "r_take",
           "w_lock", "w_send", "p_ept", "d_lock", "d_ept", "d_wake", "d_del"}

TypeOK ==
  /\ eptptr \in Epts \cup {None} /\ lock \in Callers \cup {None}
  /\ queue \in Seq(Epts) /\ Len(queue) <= MaxQueue
  /\ refs \in Nat /\ registered \in BOOLEAN /\ destroys \in Nat
  /\ live \subseteq Epts /\ cb \in Epts \cup {None}
  /\ cbPc \in {"idle", "queue", "wake"}
  /\ open \subseteq Files
  /\ pc \in [Callers -> Labels]
  /\ file \in [Callers -> Files \cup {None}]
  /\ lept \in [Callers -> Epts \cup {None}]
  /\ woken \in [Callers -> BOOLEAN]
  /\ ret \in [Callers -> {"none", "ok", "data", "EINVAL", "EPIPE", "EAGAIN", "EFAULT",
                          "ERESTARTSYS", "ENOMEM", "EPOLLERR", "EPOLLIN", "0"}]

\* The eptdev is not freed while a file is open, a call or a destroy is under
\* way, or an endpoint has it as its callback's priv; and a write sends on an
\* endpoint that is alive until the send returns, however long it blocks.
NotFreedInUse ==
  /\ TypeOK
  /\ refs <= 0 => open = {} /\ live = {} /\ cb = None
                  /\ \A t \in Callers : pc[t] = "idle"
  /\ \A t \in Threads : pc[t] = "w_send" => lept[t] \in live

\* A reader does not see what was meant for an earlier open: while the device
\* has an endpoint, its queue holds messages of that endpoint only.
NoStaleMessage ==
  eptptr # None => \A i \in DOMAIN queue : queue[i] = eptptr

\* A reader does not sleep through data or through the end of the endpoint:
\* it is woken, or the callback or the destroy that will wake it is under way.
NoLostReader ==
  \A t \in Threads :
     pc[t] = "r_sleep" /\ ~woken[t] =>
       \/ ~ReadCond
       \/ cbPc = "wake"
       \/ \E d \in Callers : pc[d] = "d_wake"

\* rpmsg_chrdev_remove and the ioctl get through, although writers hold
\* ept_lock while they send.
DestroyCompletes == destroys > 0 ~> ~registered

-----------------------------------------------------------------------------
(* What the comments promise and the code does not keep; see the README.    *)

\* "@ept: rpmsg endpoint reference, when open", and "@ept_lock:
\* synchronization of @ept modifications": no open loses the endpoint of
\* another one.
NoOrphanEndpoint ==
  live \subseteq {eptptr} \cup {lept[t] : t \in {u \in Threads : pc[u] = "o_set"}}

\* "Wait until we get data or the endpoint goes away": a read with a good
\* buffer gives data, or an error that says why not.
ReadGetsDataOrReason ==
  \A t \in Threads : pc[t] = "r_take" => queue # <<>>

\* "Destroy all endpoints": when rpmsg_chrdev_remove has done so there is none.
AllEndpointsDestroyed ==
  ret[Parent] = "ok" => eptptr = None

\* WARN_ON(!ept) in rpmsg_poll.
PollHasEndpoint ==
  \A t \in Threads : pc[t] = "p_ept" => eptptr # None
=============================================================================
