------------------------------- MODULE RpmsgTx -------------------------------
(***************************************************************************)
(* The transmit path of the virtio rpmsg bus: rpmsg_send_offchannel_raw()  *)
(* and what it calls (get_a_tx_buf, rpmsg_upref_sleepers,                  *)
(* wait_event_interruptible_timeout, rpmsg_downref_sleepers), the          *)
(* tx-complete callback rpmsg_xmit_done(), and the virtqueue and remote    *)
(* processor they talk to (src/virtio_rpmsg_test/virtio_rpmsg_bus.c).      *)
(*                                                                         *)
(* Every critical section of vrp->tx_lock is one step: the code takes the  *)
(* lock, makes one virtqueue call and releases it.  Steps of several       *)
(* senders, of the remote processor and of the interrupt handler           *)
(* interleave between the sections.                                        *)
(***************************************************************************)
EXTENDS Integers, Sequences, FiniteSets

CONSTANTS
  Senders,   \* contexts that call the rpmsg send functions concurrently
  NTx,       \* num_bufs / 2: how many of the buffers are for transmission
  RingSize,  \* descriptors of the tx virtqueue svq
  EventIdx   \* whether VIRTIO_RING_F_EVENT_IDX was negotiated

ASSUME TxAssumption ==
  /\ IsFiniteSet(Senders)
  /\ NTx \in Nat \ {0}
  /\ RingSize \in Nat \ {0}
  /\ EventIdx \in BOOLEAN

VARIABLES
  \* struct virtproc_info
  last_sbuf,   \* index of the next tx buffer that was never used
  sleepers,    \* senders between upref and downref
  \* the virtqueue svq, shared with the remote processor
  avail,       \* sequence of buffers the remote has yet to read
  held,        \* buffers the remote is reading
  used,        \* buffers on the used ring, not recycled yet
  lost,        \* buffers dropped because virtqueue_add_outbuf failed
  msg,         \* msg[b]: the sender whose message buffer b contains
  cbOn,        \* tx callbacks enabled, as the driver sees it
  armed,       \* the next buffer put on the used ring raises an interrupt
  irqPending,  \* a tx-complete interrupt is raised and not handled
  broken,      \* the virtqueue is marked broken
  \* one send call of each sender
  pc,          \* where the call is
  buf,         \* its local variable msg: the buffer it owns, or NoBuf
  wret,        \* __ret of wait_event_interruptible_timeout
  woken,       \* taken off vrp->sendq by a wake-up since it queued itself
  signal,      \* a signal is pending for the calling thread
  ret          \* what its last send call returned

devVars  == <<last_sbuf, sleepers>>
ringVars == <<avail, held, used, lost, msg, broken>>
cbVars   == <<cbOn, armed, irqPending>>
callVars == <<buf, wret, ret>>
vars     == <<devVars, ringVars, cbVars, callVars, pc, woken, signal>>

Bufs  == 0 .. NTx - 1
NoBuf == -1             \* the NULL pointer

\* Where a sender is queued on vrp->sendq.
Queued == {"recheck", "parked"}

\* Where a sender holds a reference on vrp->sleepers.
Waiting == {"cond", "prepare", "recheck", "parked", "downref"}

\* "get" is a call with wait = true, "tryget" one with wait = false.
Labels == Waiting \cup {"idle", "get", "tryget", "upref", "fill", "add"}

Errors  == {"EINVAL", "EMSGSIZE", "ENOMEM", "ERESTARTSYS", "EIO", "ENOSPC"}
Results == Errors \cup {"none", "ok"}

\* Buffers the remote has not read, and those on a descriptor of the ring:
\* add_outbuf takes a descriptor, get_buf frees it.
Unread    == {avail[i] : i \in DOMAIN avail}
RingBufs  == Unread \cup held \cup used

Init ==
  /\ last_sbuf = 0 /\ sleepers = 0
  /\ avail = <<>> /\ held = {} /\ used = {} /\ lost = {}
  /\ msg = [b \in Bufs |-> "none"]
  /\ cbOn = FALSE      \* rpmsg_probe: virtqueue_disable_cb(vrp->svq)
  /\ armed = EventIdx  \* disabling leaves the event index as it was
  /\ irqPending = FALSE /\ broken = FALSE
  /\ pc = [s \in Senders |-> "idle"]
  /\ buf = [s \in Senders |-> NoBuf]
  /\ wret = [s \in Senders |-> "running"]
  /\ woken = [s \in Senders |-> FALSE]
  /\ signal = [s \in Senders |-> FALSE]
  /\ ret = [s \in Senders |-> "none"]

-----------------------------------------------------------------------------
(* The virtqueue, as the driver sees it.                                    *)

\* virtqueue_get_buf: a used buffer, or NULL when there is none or the queue
\* is broken.  With an event index it asks for the interrupt of the next one.
GetUsed(b) ==
  \/ /\ b \in used /\ ~broken
     /\ used' = used \ {b}
     /\ armed' = IF EventIdx /\ cbOn THEN used' = {} ELSE armed
  \/ /\ b = NoBuf
     /\ used = {} \/ broken
     /\ UNCHANGED <<used, armed>>

\* virtqueue_enable_cb / virtqueue_disable_cb.  An event index is compared
\* with the used index when a buffer is put there, so it only asks for an
\* interrupt while nothing is on the used ring; disabling leaves it alone.
EnableCb ==
  /\ cbOn' = TRUE
  /\ armed' = (EventIdx => used = {})

DisableCb ==
  /\ cbOn' = FALSE
  /\ armed' = (EventIdx /\ armed)

\* virtqueue_add_outbuf succeeds.
CanAdd == ~broken /\ Cardinality(RingBufs) < RingSize

-----------------------------------------------------------------------------
(* The send path.                                                           *)

GetTxBuf_NoIncrement(b) ==
  \/ last_sbuf < NTx /\ b = last_sbuf /\ UNCHANGED <<last_sbuf, used, armed>>
  \/ last_sbuf >= NTx /\ GetUsed(b) /\ UNCHANGED last_sbuf

\* get_a_tx_buf: the next buffer that was never used, or else a used one.
GetTxBuf(b) ==
  \/ /\ last_sbuf < NTx
     /\ b = last_sbuf
     /\ last_sbuf' = last_sbuf + 1
     /\ UNCHANGED <<used, armed>>
  \/ /\ last_sbuf >= NTx
     /\ GetUsed(b)
     /\ UNCHANGED last_sbuf

UpdateSleepers ==
  UNCHANGED <<avail, held, used, lost, msg, broken, last_sbuf, irqPending>>

\* A send call starts.  Broadcast and oversized messages are refused before
\* anything is touched.
Call(s) ==
  /\ pc[s] = "idle"
  /\ \/ /\ \E get \in {"get", "tryget"} : pc' = [pc EXCEPT ![s] = get]
        /\ ret' = [ret EXCEPT ![s] = "none"]
     \/ /\ \E e \in {"EINVAL", "EMSGSIZE"} : ret' = [ret EXCEPT ![s] = e]
        /\ UNCHANGED pc
  /\ UNCHANGED <<devVars, ringVars, cbVars, buf, wret, woken, signal>>

\* A call returns r; a pending signal is delivered on the way to user space.
Return(s, r) ==
  /\ pc' = [pc EXCEPT ![s] = "idle"]
  /\ ret' = [ret EXCEPT ![s] = r]
  /\ signal' = [signal EXCEPT ![s] = FALSE]

\* msg = get_a_tx_buf(vrp), before any waiting.
FirstGet(s) ==
  /\ pc[s] \in {"get", "tryget"}
  /\ \E b \in Bufs \cup {NoBuf} :
       /\ GetTxBuf(b)
       /\ buf' = [buf EXCEPT ![s] = b]
       /\ \/ /\ b # NoBuf
             /\ pc' = [pc EXCEPT ![s] = "fill"]
             /\ UNCHANGED <<ret, signal>>
          \/ /\ b = NoBuf /\ pc[s] = "get"
             /\ pc' = [pc EXCEPT ![s] = "upref"]
             /\ UNCHANGED <<ret, signal>>
          \/ /\ b = NoBuf /\ pc[s] = "tryget"
             /\ Return(s, "ENOMEM")
  /\ UNCHANGED <<sleepers, avail, held, lost, msg, broken, cbOn, irqPending,
                 wret, woken>>

\* rpmsg_upref_sleepers, before a wait of 15 seconds.
Upref(s) ==
  /\ pc[s] = "upref"
  /\ sleepers' = sleepers + 1
  /\ IF sleepers' = 1 THEN EnableCb ELSE UNCHANGED <<cbOn, armed>>
  /\ pc' = [pc EXCEPT ![s] = "cond"]
  /\ UpdateSleepers
  /\ UNCHANGED <<callVars, woken, signal>>

\* wait_event evaluates its condition once before it queues the thread.
Cond(s) ==
  /\ pc[s] = "cond"
  /\ \E b \in Bufs \cup {NoBuf} :
       /\ GetTxBuf(b)
       /\ buf' = [buf EXCEPT ![s] = b]
       /\ pc' = [pc EXCEPT ![s] = IF b = NoBuf THEN "prepare" ELSE "downref"]
  /\ UNCHANGED <<sleepers, avail, held, lost, msg, broken, cbOn, irqPending,
                 wret, ret, woken, signal>>

\* prepare_to_wait_event: queue the thread, or notice a pending signal.
Prepare(s) ==
  /\ pc[s] = "prepare"
  /\ IF signal[s]
       THEN /\ wret' = [wret EXCEPT ![s] = IF @ = "running" THEN "signalled"
                                                            ELSE @]
            /\ UNCHANGED woken
       ELSE /\ woken' = [woken EXCEPT ![s] = FALSE]
            /\ UNCHANGED wret
  /\ pc' = [pc EXCEPT ![s] = "recheck"]
  /\ UNCHANGED <<devVars, ringVars, cbVars, buf, ret, signal>>

\* A wake-up since the thread queued itself is not lost.  Blocking on tx_lock
\* inside the condition sets the task running again, like a wake-up.
KeepWoken(s) ==
  \E running \in BOOLEAN : woken' = [woken EXCEPT ![s] = @ \/ running]

\* The condition is evaluated again; without a buffer the thread sleeps,
\* unless its time is up or a signal was noticed.
Recheck(s) ==
  /\ pc[s] = "recheck"
  /\ \E b \in Bufs \cup {NoBuf} :
       /\ GetTxBuf(b)
       /\ buf' = [buf EXCEPT ![s] = b]
       /\ pc' = [pc EXCEPT ![s] = IF b = NoBuf /\ wret[s] = "running"
                                    THEN "parked" ELSE "downref"]
  /\ KeepWoken(s)
  /\ UNCHANGED <<sleepers, avail, held, lost, msg, broken, cbOn, irqPending,
                 wret, ret, signal>>

\* schedule_timeout returns: woken up or signalled, with time left ...
Unpark(s) ==
  /\ pc[s] = "parked"
  /\ woken[s] \/ signal[s]
  /\ pc' = [pc EXCEPT ![s] = "prepare"]
  /\ UNCHANGED <<devVars, ringVars, cbVars, callVars, woken, signal>>

\* ... or because the 15 seconds have elapsed.
TimerExpire(s) ==
  /\ pc[s] = "parked"
  /\ wret' = [wret EXCEPT ![s] = "expired"]
  /\ pc' = [pc EXCEPT ![s] = "prepare"]
  /\ UNCHANGED <<devVars, ringVars, cbVars, buf, ret, woken, signal>>

LastDown_Always == DisableCb

\* The last sleeper turns the tx-complete interrupts off.
LastDown == IF sleepers' = 0 THEN DisableCb ELSE UNCHANGED <<cbOn, armed>>

AfterWait_IfNotWhile(s) ==
  IF wret[s] = "expired" /\ buf[s] = NoBuf
    THEN Return(s, "ERESTARTSYS")
    ELSE pc' = [pc EXCEPT ![s] = "fill"] /\ UNCHANGED <<ret, signal>>

AfterWait_TimeoutFirst(s) ==
  IF wret[s] = "expired"
    THEN Return(s, "ERESTARTSYS")
    ELSE /\ pc' = [pc EXCEPT ![s] = IF buf[s] = NoBuf THEN "upref" ELSE "fill"]
         /\ UNCHANGED <<ret, signal>>

AfterWait_TimeoutLoops(s) ==
  /\ pc' = [pc EXCEPT ![s] = IF buf[s] = NoBuf THEN "upref" ELSE "fill"]
  /\ UNCHANGED <<ret, signal>>

\* err = 0 is the timeout; any other value with no buffer (a signal) goes round
\* the loop again, with another 15 seconds.
AfterWait(s) ==
  \/ /\ buf[s] # NoBuf
     /\ pc' = [pc EXCEPT ![s] = "fill"]
     /\ UNCHANGED <<ret, signal>>
  \/ /\ buf[s] = NoBuf /\ wret[s] = "expired"
     /\ Return(s, "ERESTARTSYS")
  \/ /\ buf[s] = NoBuf /\ wret[s] # "expired"
     /\ pc' = [pc EXCEPT ![s] = "upref"]
     /\ UNCHANGED <<ret, signal>>

\* rpmsg_downref_sleepers and the end of the loop body.
Downref(s) ==
  /\ pc[s] = "downref"
  /\ sleepers' = sleepers - 1
  /\ LastDown
  /\ AfterWait(s)
  /\ wret' = [wret EXCEPT ![s] = "running"]
  /\ woken' = [woken EXCEPT ![s] = FALSE]
  /\ UpdateSleepers
  /\ UNCHANGED buf

\* The header and the payload are written into the buffer.
Fill(s) ==
  /\ pc[s] = "fill"
  /\ msg' = [msg EXCEPT ![buf[s]] = s]
  /\ pc' = [pc EXCEPT ![s] = "add"]
  /\ UNCHANGED <<devVars, avail, held, used, lost, broken, cbVars, callVars,
                 woken, signal>>

AddOutbuf_ErrorIgnored(s) ==
  /\ avail' = IF CanAdd THEN Append(avail, buf[s]) ELSE avail
  /\ lost' = IF CanAdd THEN lost ELSE lost \cup {buf[s]}
  /\ Return(s, "ok")

\* virtqueue_add_outbuf; a buffer that cannot be added is lost.
AddOutbuf(s) ==
  IF CanAdd
    THEN /\ avail' = Append(avail, buf[s])
         /\ UNCHANGED lost
         /\ Return(s, "ok")
    ELSE /\ lost' = lost \cup {buf[s]}
         /\ UNCHANGED avail
         /\ Return(s, IF broken THEN "EIO" ELSE "ENOSPC")

\* The message is added and the remote processor is kicked, under tx_lock.
Add(s) ==
  /\ pc[s] = "add"
  /\ AddOutbuf(s)
  /\ buf' = [buf EXCEPT ![s] = NoBuf]
  /\ UNCHANGED <<devVars, held, used, msg, broken, cbVars, wret, woken>>

-----------------------------------------------------------------------------
(* The other side.                                                          *)

\* The remote processor starts to read the oldest message ...
RemoteTake ==
  /\ avail # <<>>
  /\ held' = held \cup {Head(avail)}
  /\ avail' = Tail(avail)
  /\ UNCHANGED <<devVars, used, lost, msg, broken, cbVars, callVars, pc,
                 woken, signal>>

\* ... and gives its buffer back, interrupting the driver if it asked for it.
RemotePut(b) ==
  /\ b \in held
  /\ held' = held \ {b}
  /\ used' = used \cup {b}
  /\ irqPending' = (irqPending \/ armed)
  /\ armed' = (armed /\ ~EventIdx)
  /\ UNCHANGED <<devVars, avail, lost, msg, broken, cbOn, callVars, pc,
                 woken, signal>>

\* vring_interrupt and rpmsg_xmit_done: wake every thread queued on sendq.
XmitDone ==
  /\ irqPending
  /\ irqPending' = FALSE
  /\ woken' = IF used # {} /\ ~broken
               THEN [s \in Senders |-> woken[s] \/ pc[s] \in Queued]
               ELSE woken
  /\ UNCHANGED <<devVars, ringVars, cbOn, armed, callVars, pc, signal>>

\* The virtqueue is marked broken (bad index from the device, removal).
BreakQueue ==
  /\ ~broken
  /\ broken' = TRUE
  /\ UNCHANGED <<devVars, avail, held, used, lost, msg, cbVars, callVars, pc,
                 woken, signal>>

\* A signal becomes pending for a thread inside a send call.
Signal(s) ==
  /\ pc[s] # "idle" /\ ~signal[s]
  /\ signal' = [signal EXCEPT ![s] = TRUE]
  /\ UNCHANGED <<devVars, ringVars, cbVars, callVars, pc, woken>>

-----------------------------------------------------------------------------
SenderStep(s) ==
  \/ FirstGet(s) \/ Upref(s) \/ Cond(s) \/ Prepare(s) \/ Recheck(s)
  \/ Unpark(s) \/ Downref(s) \/ Fill(s) \/ Add(s)

Next ==
  \/ \E s \in Senders : Call(s) \/ SenderStep(s)
                        \/ TimerExpire(s) \/ Signal(s)
  \/ RemoteTake
  \/ \E b \in Bufs : RemotePut(b)
  \/ XmitDone
  \/ BreakQueue

(***************************************************************************)
(* A thread that can run does run; a raised interrupt is handled.  The     *)
(* timer is strongly fair: a thread that is woken early and sleeps again   *)
(* sleeps for the remaining time only.  Nothing is assumed of the remote   *)
(* processor.                                                              *)
(***************************************************************************)
Fairness ==
  /\ \A s \in Senders : WF_vars(SenderStep(s)) /\ SF_vars(TimerExpire(s))
  /\ WF_vars(XmitDone)

Spec == Init /\ [][Next]_vars /\ Fairness

-----------------------------------------------------------------------------
(* Correctness.                                                             *)

TypeOK ==
  /\ last_sbuf \in 0 .. NTx
  /\ sleepers \in Int
  /\ avail \in Seq(Bufs)
  /\ held \subseteq Bufs /\ used \subseteq Bufs /\ lost \subseteq Bufs
  /\ msg \in [Bufs -> Senders \cup {"none"}]
  /\ cbOn \in BOOLEAN /\ armed \in BOOLEAN
  /\ irqPending \in BOOLEAN /\ broken \in BOOLEAN
  /\ pc \in [Senders -> Labels]
  /\ buf \in [Senders -> Bufs \cup {NoBuf}]
  /\ wret \in [Senders -> {"running", "expired", "signalled"}]
  /\ woken \in [Senders -> BOOLEAN]
  /\ signal \in [Senders -> BOOLEAN]
  /\ ret \in [Senders -> Results]

\* A sender owns a buffer from the moment get_a_tx_buf returns one until it is
\* added, and writes or adds only a buffer it owns.
BufferPhase ==
  \A s \in Senders :
     /\ pc[s] \in {"fill", "add"} => buf[s] # NoBuf
     /\ buf[s] # NoBuf => pc[s] \in {"downref", "fill", "add"}

\* No two owners of a tx buffer: get_a_tx_buf gives a buffer to one sender,
\* and never one that the remote processor may still read.
OneOwner ==
  /\ \A s, t \in Senders : s # t /\ buf[s] # NoBuf => buf[s] # buf[t]
  /\ \A s \in Senders : buf[s] \notin RingBufs \cup lost
  /\ \A i, j \in DOMAIN avail : i # j => avail[i] # avail[j]
  /\ Unread \cap (held \cup used \cup lost) = {}
  /\ held \cap (used \cup lost) = {} /\ used \cap lost = {}

\* No tx buffer disappears: whichever way the calls end (timeout, signal,
\* -ENOMEM), a buffer handed out once is with a sender, in the ring, or was
\* dropped by a failed virtqueue_add_outbuf.
NoBufferForgotten ==
  \A b \in Bufs : b < last_sbuf =>
     b \in RingBufs \cup lost \/ \E s \in Senders : buf[s] = b

\* With symmetric rings (the WARN_ON of rpmsg_probe) virtqueue_add_outbuf only
\* fails on a broken queue: the FIXME path that loses a buffer is not taken
\* because the ring is full.
RingNeverFull == RingSize >= NTx /\ lost # {} => broken

Sleeping == {s \in Senders : pc[s] \in Waiting}

\* vrp->sleepers counts the senders inside the waiting loop, and tx-complete
\* interrupts are enabled exactly while there are some.
SleepersCount ==
  /\ sleepers = Cardinality(Sleeping)
  /\ cbOn <=> sleepers > 0

\* No sender sleeps on a buffer it could have: if the used ring of a working
\* queue is not empty, a parked sender has been woken or an interrupt that
\* will wake it is on its way.  Depends on the order upref, check, queue,
\* check and on downref only disabling the callbacks for the last sleeper.
NoLostWakeup ==
  \A s \in Senders :
     pc[s] = "parked" /\ ~woken[s] /\ used # {} /\ ~broken => irqPending

\* The remote processor never sees a message change under it: a buffer is not
\* written between virtqueue_add_outbuf and its return on the used ring.
MessageStable ==
  [][\A b \in Unread \cup held : msg'[b] = msg[b]]_vars

\* The send functions implement their abstract specification.
Abs == INSTANCE RpmsgTxAbs WITH
         Capacity <- NTx,
         wire <- [i \in DOMAIN avail |-> msg[avail[i]]],
         busy <- {s \in Senders : pc[s] # "idle"}

ImplementsAbs == Abs!Spec

\* A blocked send returns: within the 15 seconds of its wait if no signal is
\* pending for the thread, whatever the remote processor does.
SendReturns ==
  \A s \in Senders : pc[s] # "idle" ~> pc[s] = "idle" \/ signal[s]

\* What the comment above rpmsg_send_offchannel_raw says: "blocked until either
\* a TX buffer is available, or 15 seconds elapses (we don't want callers to
\* sleep indefinitely due to misbehaving remote processors)".
SendAlwaysReturns ==
  \A s \in Senders : pc[s] # "idle" ~> pc[s] = "idle"
=============================================================================
