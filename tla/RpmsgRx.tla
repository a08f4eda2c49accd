------------------------------- MODULE RpmsgRx -------------------------------
(***************************************************************************)
(* Endpoints and the receive path of the virtio rpmsg bus                  *)
(* (src/virtio_rpmsg_test/virtio_rpmsg_bus.c): __rpmsg_create_ept,         *)
(* __rpmsg_destroy_ept and __ept_release, run by any number of users, race *)
(* with rpmsg_recv_done and rpmsg_recv_single, run by the one thread that  *)
(* handles interrupts of the rx virtqueue rvq.                             *)
(*                                                                         *)
(* Sections under vrp->endpoints_lock are single steps: they contain no    *)
(* blocking call.  ept->cb_lock is held across the callback, so it is a    *)
(* variable.  A user stands for whoever owns an endpoint: a channel, a     *)
(* character device file, or the bus itself for the name service endpoint. *)
(***************************************************************************)
EXTENDS Integers, Sequences, FiniteSets

CONSTANTS
  Users,     \* owners of endpoints, each of at most one at a time
  Ns,        \* the user whose callback is rpmsg_ns_cb
  Epts,      \* memory for struct rpmsg_endpoint
  MaxAddr,   \* addresses are 0 .. MaxAddr
  Reserved,  \* RPMSG_RESERVED_ADDRESSES: dynamic addresses start here
  RxBufs,    \* the rx buffers
  EventIdx,  \* whether VIRTIO_RING_F_EVENT_IDX was negotiated
  None       \* NULL

ASSUME RxAssumption ==
  /\ Ns \in Users
  /\ MaxAddr \in Nat /\ Reserved \in 0 .. MaxAddr
  /\ EventIdx \in BOOLEAN
  /\ IsFiniteSet(RxBufs)
  /\ None \notin Users /\ None \notin Epts

VARIABLES
  \* struct rpmsg_endpoint, per object
  live,      \* objects that are allocated
  addr,      \* ept->addr
  cb,        \* ept->cb is not NULL
  refcount,  \* ept->refcount
  cbLock,    \* objects whose ept->cb_lock the rx thread holds
  \* vrp->endpoints
  idr,       \* idr[a]: the endpoint bound to address a, or None
  \* the users
  upc,       \* where a user is in create/destroy
  mine,      \* the endpoint it owns
  \* the rx virtqueue and the remote processor
  avail,     \* buffers the remote may fill
  used,      \* sequence of received messages, each in its buffer
  lost,      \* buffers rpmsg_recv_single did not give back
  armed,     \* the next buffer put on the used ring raises an interrupt
  irqPending,
  broken,    \* the virtqueue is marked broken
  \* the rx thread
  rpc,       \* where it is
  msg,       \* the message in hand
  ept,       \* its local variable ept
  target     \* the user whose channel a name service callback destroys

eptVars  == <<live, addr, cb, refcount, cbLock, idr>>
userVars == <<upc, mine>>
ringVars == <<avail, used, lost, armed, irqPending, broken>>
rxVars   == <<rpc, msg, ept, target>>
vars     == <<eptVars, userVars, ringVars, rxVars>>

Addrs    == 0 .. MaxAddr
AddrAny  == -1           \* RPMSG_ADDR_ANY
Messages == [buf : RxBufs, dst : Addrs, big : BOOLEAN]

ASSUME NoneAssumption == None \notin Messages

Init ==
  /\ live = {} /\ cbLock = {}
  /\ addr = [e \in Epts |-> None]
  /\ cb = [e \in Epts |-> FALSE]
  /\ refcount = [e \in Epts |-> 0]
  /\ idr = [a \in Addrs |-> None]
  /\ upc = [u \in Users |-> "idle"]
  /\ mine = [u \in Users |-> None]
  /\ avail = RxBufs /\ used = <<>> /\ lost = {}
  /\ armed = TRUE /\ irqPending = FALSE /\ broken = FALSE
  /\ rpc = "idle" /\ msg = None /\ ept = None /\ target = None

-----------------------------------------------------------------------------
(* Creating and destroying an endpoint.                                     *)

IdrFree_Rebinds(want) ==
  IF want = AddrAny THEN {a \in Reserved .. MaxAddr : idr[a] = None} ELSE {want}

\* The addresses idr_alloc chooses from: the requested one if it is free, or for
\* RPMSG_ADDR_ANY every free dynamic one.
IdrFree(want) ==
  {a \in IF want = AddrAny THEN Reserved .. MaxAddr ELSE {want} : idr[a] = None}

\* __rpmsg_create_ept.  The endpoint gets the lowest of those addresses; if there
\* is none the object is freed again by its kref_put, and NULL is returned.
CreateEpt(u, e, want) ==
  /\ upc[u] = "idle" /\ e \notin live
  /\ u # target         \* a channel being removed does not come back meanwhile
  /\ \E a \in IdrFree(want) :
       /\ \A c \in IdrFree(want) : a <= c
       /\ idr' = [idr EXCEPT ![a] = e]
       /\ addr' = [addr EXCEPT ![e] = a]
  /\ live' = live \cup {e}
  /\ cb' = [cb EXCEPT ![e] = TRUE]
  /\ refcount' = [refcount EXCEPT ![e] = 1]
  /\ mine' = [mine EXCEPT ![u] = e]
  /\ upc' = [upc EXCEPT ![u] = "open"]
  /\ UNCHANGED <<cbLock, ringVars, rxVars>>

\* __rpmsg_destroy_ept is called by the owner of the endpoint ...
StartDestroy(u) ==
  /\ upc[u] = "open"
  /\ upc' = [upc EXCEPT ![u] = "remove"]
  /\ UNCHANGED <<eptVars, mine, ringVars, rxVars>>

\* ... and first makes sure new inbound messages cannot find it ...
IdrRemove(u) ==
  /\ upc[u] = "remove"
  /\ idr' = [idr EXCEPT ![addr[mine[u]]] = None]
  /\ upc' = [upc EXCEPT ![u] = "clear"]
  /\ UNCHANGED <<live, addr, cb, refcount, cbLock, mine, ringVars, rxVars>>

ClearCb_NoLock(u) ==
  /\ upc[u] = "clear"
  /\ cb' = [cb EXCEPT ![mine[u]] = FALSE]
  /\ upc' = [upc EXCEPT ![u] = "put"]
  /\ UNCHANGED <<live, addr, refcount, cbLock, idr, mine, ringVars, rxVars>>

\* ... then, under cb_lock, that in-flight ones do not invoke the callback ...
ClearCb(u) ==
  /\ upc[u] = "clear"
  /\ mine[u] \notin cbLock
  /\ cb' = [cb EXCEPT ![mine[u]] = FALSE]
  /\ upc' = [upc EXCEPT ![u] = "put"]
  /\ UNCHANGED <<live, addr, refcount, cbLock, idr, mine, ringVars, rxVars>>

\* kref_put(&ept->refcount, __ept_release): the last one frees the object.
KrefPut(e) ==
  /\ refcount' = [refcount EXCEPT ![e] = @ - 1]
  /\ live' = IF refcount[e] = 1 THEN live \ {e} ELSE live

\* ... and drops the reference it was created with.
PutEpt(u) ==
  /\ upc[u] = "put"
  /\ KrefPut(mine[u])
  /\ mine' = [mine EXCEPT ![u] = None]
  /\ upc' = [upc EXCEPT ![u] = "idle"]
  /\ UNCHANGED <<addr, cb, cbLock, idr, ringVars, rxVars>>

-----------------------------------------------------------------------------
(* The rx virtqueue.                                                        *)

\* The remote processor fills an available buffer.
RemoteSend(m) ==
  /\ m.buf \in avail
  /\ avail' = avail \ {m.buf}
  /\ used' = Append(used, m)
  /\ irqPending' = (irqPending \/ armed)
  /\ armed' = (armed /\ ~EventIdx)
  /\ UNCHANGED <<eptVars, userVars, lost, broken, rxVars>>

\* The virtqueue is marked broken (bad index from the device, removal).
BreakQueue ==
  /\ ~broken
  /\ broken' = TRUE
  /\ UNCHANGED <<eptVars, userVars, avail, used, lost, armed, irqPending, rxVars>>

\* virtqueue_get_buf: the next message, and with an event index the request to
\* be interrupted for the one after it; or the end of rpmsg_recv_done.
GetBuf ==
  IF used = <<>> \/ broken
    THEN /\ rpc' = "idle" /\ msg' = None
         /\ UNCHANGED <<used, armed>>
    ELSE /\ rpc' = "check" /\ msg' = Head(used)
         /\ used' = Tail(used)
         /\ armed' = (EventIdx => used' = <<>>)

\* vring_interrupt calls rpmsg_recv_done.
RecvDone ==
  /\ rpc = "idle" /\ irqPending
  /\ irqPending' = FALSE
  /\ GetBuf
  /\ UNCHANGED <<eptVars, userVars, avail, lost, broken, ept, target>>

\* rpmsg_recv_single refuses a message whose length does not fit, and
\* rpmsg_recv_done leaves its loop: the buffer is not given back.
Oversized ==
  /\ rpc = "check" /\ msg.big
  /\ lost' = lost \cup {msg.buf}
  /\ rpc' = "idle" /\ msg' = None
  /\ UNCHANGED <<eptVars, userVars, avail, used, armed, irqPending, broken,
                 ept, target>>

Lookup_NoGet ==
  /\ rpc = "check" /\ ~msg.big
  /\ ept' = idr[msg.dst]
  /\ rpc' = IF ept' = None THEN "add" ELSE "lock"
  /\ UNCHANGED <<live, addr, cb, refcount, cbLock, idr, userVars, ringVars, msg,
                 target>>

Lookup_DropsUnknown ==
  /\ rpc = "check" /\ ~msg.big
  /\ ept' = idr[msg.dst]
  /\ IF ept' = None
       THEN rpc' = "idle" /\ msg' = None /\ UNCHANGED refcount
       ELSE rpc' = "lock" /\ refcount' = [refcount EXCEPT ![ept'] = @ + 1]
                         /\ UNCHANGED msg
  /\ UNCHANGED <<live, addr, cb, cbLock, idr, userVars, ringVars, target>>

\* Look the destination up and take a reference, under endpoints_lock.
Lookup ==
  /\ rpc = "check" /\ ~msg.big
  /\ ept' = idr[msg.dst]
  /\ IF ept' = None
       THEN rpc' = "add" /\ UNCHANGED refcount
       ELSE rpc' = "lock" /\ refcount' = [refcount EXCEPT ![ept'] = @ + 1]
  /\ UNCHANGED <<live, addr, cb, cbLock, idr, userVars, ringVars, msg, target>>

\* mutex_lock(&ept->cb_lock); the callback is called unless it is gone.
LockCb ==
  /\ rpc = "lock"
  /\ cbLock' = cbLock \cup {ept}
  /\ rpc' = IF cb[ept] THEN "cb" ELSE "unlock"
  /\ UNCHANGED <<live, addr, cb, refcount, idr, userVars, ringVars, msg, ept, target>>

\* The callback returns.
CallbackReturns ==
  /\ rpc = "cb"
  /\ rpc' = "unlock"
  /\ UNCHANGED <<eptVars, userVars, ringVars, msg, ept, target>>

\* rpmsg_ns_cb on a destroy announcement: rpmsg_unregister_device removes the
\* channel of another user and waits for its endpoint to be destroyed.
NsDestroy(u) ==
  /\ rpc = "cb" /\ ept = mine[Ns]
  /\ u # Ns /\ upc[u] = "open"
  /\ upc' = [upc EXCEPT ![u] = "remove"]
  /\ target' = u
  /\ rpc' = "nswait"
  /\ UNCHANGED <<eptVars, mine, ringVars, msg, ept>>

NsDestroyed ==
  /\ rpc = "nswait" /\ upc[target] = "idle"
  /\ target' = None
  /\ rpc' = "unlock"
  /\ UNCHANGED <<eptVars, userVars, ringVars, msg, ept>>

UnlockCb_Kept ==
  /\ rpc = "unlock"
  /\ rpc' = "put"
  /\ UNCHANGED <<eptVars, userVars, ringVars, msg, ept, target>>

UnlockCb ==
  /\ rpc = "unlock"
  /\ cbLock' = cbLock \ {ept}
  /\ rpc' = "put"
  /\ UNCHANGED <<live, addr, cb, refcount, idr, userVars, ringVars, msg, ept, target>>

\* "farewell, ept, we don't need you anymore"
PutRef ==
  /\ rpc = "put"
  /\ KrefPut(ept)
  /\ ept' = None
  /\ rpc' = "add"
  /\ UNCHANGED <<addr, cb, cbLock, idr, userVars, ringVars, msg, target>>

AddInbuf_ThenIdle ==
  /\ rpc = "add"
  /\ avail' = avail \cup {msg.buf}
  /\ rpc' = "idle" /\ msg' = None
  /\ UNCHANGED <<eptVars, userVars, used, lost, armed, irqPending, broken, ept, target>>

\* The buffer goes back to the remote, and the loop looks for another message.
\* virtqueue_add_inbuf only fails on a broken queue; the loop ends then.
AddInbuf ==
  /\ rpc = "add"
  /\ IF broken
       THEN /\ lost' = lost \cup {msg.buf}
            /\ rpc' = "idle" /\ msg' = None
            /\ UNCHANGED <<avail, used, armed>>
       ELSE /\ avail' = avail \cup {msg.buf}
            /\ GetBuf
            /\ UNCHANGED lost
  /\ UNCHANGED <<eptVars, userVars, irqPending, broken, ept, target>>

-----------------------------------------------------------------------------
UserDestroys(u) == IdrRemove(u) \/ ClearCb(u) \/ PutEpt(u)

RxStep ==
  \/ RecvDone \/ Oversized \/ Lookup \/ LockCb \/ CallbackReturns
  \/ NsDestroyed \/ UnlockCb \/ PutRef \/ AddInbuf

Next ==
  \/ \E u \in Users :
       \/ \E e \in Epts, want \in Addrs \cup {AddrAny} : CreateEpt(u, e, want)
       \/ StartDestroy(u) \/ UserDestroys(u) \/ NsDestroy(u)
  \/ RxStep
  \/ \E m \in Messages : RemoteSend(m)
  \/ BreakQueue

(***************************************************************************)
(* The rx thread and a destroy under way run; callbacks return.  Neither    *)
(* creating or destroying endpoints nor sending is ever required.          *)
(***************************************************************************)
Fairness == WF_vars(RxStep) /\ \A u \in Users : WF_vars(UserDestroys(u))

Spec == Init /\ [][Next]_vars /\ Fairness

-----------------------------------------------------------------------------
(* Correctness.                                                             *)

RxLabels == {"idle", "check", "lock", "cb", "nswait", "unlock", "put", "add"}

TypeOK ==
  /\ live \subseteq Epts /\ cbLock \subseteq Epts
  /\ addr \in [Epts -> Addrs \cup {None}]
  /\ cb \in [Epts -> BOOLEAN]
  /\ refcount \in [Epts -> Nat]
  /\ idr \in [Addrs -> Epts \cup {None}]
  /\ upc \in [Users -> {"idle", "open", "remove", "clear", "put"}]
  /\ mine \in [Users -> Epts \cup {None}]
  /\ avail \subseteq RxBufs /\ used \in Seq(Messages) /\ lost \subseteq RxBufs
  /\ armed \in BOOLEAN /\ irqPending \in BOOLEAN /\ broken \in BOOLEAN
  /\ rpc \in RxLabels
  /\ msg \in Messages \cup {None}
  /\ ept \in Epts \cup {None}
  /\ target \in Users \cup {None}

\* No endpoint is freed while it can still be used: by the rx thread between
\* looking it up and its kref_put, by its owner, or through vrp->endpoints.
NoUseAfterFree ==
  /\ ept # None => ept \in live
  /\ \A u \in Users : mine[u] # None => mine[u] \in live
  /\ \A a \in Addrs : idr[a] # None => idr[a] \in live

\* The reference count of a live endpoint is the number of its users, so the
\* last kref_put frees it: endpoints are not leaked either.
RefcountExact ==
  /\ TypeOK
  /\ \A e \in live :
       refcount[e] = Cardinality({u \in Users : mine[u] = e})
                       + (IF ept = e THEN 1 ELSE 0)

\* An address is bound to at most one endpoint, the one that has that address,
\* and a user removing its endpoint removes no other user's binding.
AddressesConsistent ==
  /\ \A a \in Addrs : idr[a] # None => addr[idr[a]] = a /\ cb[idr[a]]
  /\ \A u \in Users : upc[u] \in {"open", "remove"} => idr[addr[mine[u]]] = mine[u]

\* Once __rpmsg_destroy_ept is past its cb_lock section the callback is not
\* running, so the owner may free what the callback uses; and a callback that
\* runs belongs to an owner that has not got that far.
NoCallbackAfterDestroy ==
  rpc \in {"cb", "nswait"} =>
     \E u \in Users : mine[u] = ept /\ upc[u] \in {"open", "remove", "clear"}

\* Every rx buffer is with the remote, in the used ring, in hand, or was dropped
\* with an oversized message or on a broken queue.
RxBufferConserved ==
  LET inUse == {used[i].buf : i \in DOMAIN used}
      inHand == IF msg = None THEN {} ELSE {msg.buf}
  IN  /\ avail \cup inUse \cup inHand \cup lost = RxBufs
      /\ Cardinality(avail) + Len(used) + Cardinality(inHand) + Cardinality(lost)
           = Cardinality(RxBufs)

\* A destroy ends: the rx thread does not hold cb_lock for ever, not even when
\* it runs the destroy itself from the name service callback.
DestroyReturns == \A u \in Users : upc[u] = "remove" ~> upc[u] = "idle"

\* A received message is taken off the used ring in the end, as long as no
\* oversized one comes and the queue works.
Received(b) == \E i \in DOMAIN used : used[i].buf = b

MessagesDigested ==
  \A b \in RxBufs : Received(b) ~> ~Received(b) \/ lost # {} \/ broken
=============================================================================
