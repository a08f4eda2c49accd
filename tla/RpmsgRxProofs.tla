----------------------------- MODULE RpmsgRxProofs -----------------------------
(***************************************************************************)
(* Safety of the receive path and of the life of endpoints, for any users, *)
(* endpoint objects, addresses and receive buffers.                        *)
(***************************************************************************)
EXTENDS RpmsgRx, TLAPS, FiniteSetTheorems

(***************************************************************************)
(* The strengthening.  An endpoint is allocated while it has an owner or   *)
(* the rx thread has it in hand, and these are what its reference count    *)
(* counts; it can be found, and has its callback, while its owner has not  *)
(* taken that away; and cb_lock is held in one stretch of the rx thread.   *)
(***************************************************************************)
HasEpt == {"lock", "cb", "nswait", "unlock", "put"}
Locked == {"cb", "nswait", "unlock"}

Owned(e)    == \E u \in Users : mine[u] = e
Callable(e) == \E u \in Users : mine[u] = e /\ upc[u] \in {"open", "remove", "clear"}
Findable(e) == \E u \in Users : mine[u] = e /\ upc[u] \in {"open", "remove"}

OwnersByPlace ==
  /\ \A u \in Users : mine[u] = None <=> upc[u] = "idle"
  /\ \A u, v \in Users : mine[u] # None /\ mine[u] = mine[v] => u = v

RefsByUse ==
  \A e \in Epts :
    /\ e \in live <=> Owned(e) \/ ept = e
    /\ refcount[e] = (IF Owned(e) THEN 1 ELSE 0) + (IF ept = e THEN 1 ELSE 0)

ThreadByPlace ==
  /\ ept # None <=> rpc \in HasEpt
  /\ cbLock = IF rpc \in Locked THEN {ept} ELSE {}

CbByOwner ==
  /\ \A e \in Epts : cb[e] <=> Callable(e)
  /\ rpc \in {"cb", "nswait"} => cb[ept]

Bindings ==
  /\ \A a \in Addrs : idr[a] # None => Findable(idr[a]) /\ addr[idr[a]] = a
  /\ \A u \in Users : upc[u] \in {"open", "remove"} =>
       addr[mine[u]] \in Addrs /\ idr[addr[mine[u]]] = mine[u]

\* What the rx thread has in hand, and whom the name service waits for.
HandByPlace ==
  /\ msg # None <=> rpc # "idle"
  /\ target # None <=> rpc = "nswait"

EptInv ==
  /\ TypeOK /\ HandByPlace
  /\ OwnersByPlace /\ RefsByUse /\ ThreadByPlace /\ CbByOwner /\ Bindings

LEMMA EptInit == Init => EptInv
<1> SUFFICES ASSUME Init PROVE EptInv
  OBVIOUS
<1>1. TypeOK
  <2>1. used \in Seq(Messages)
    BY DEF Init
  <2> QED
    BY <2>1, RxAssumption DEF RxAssumption, Init, TypeOK, RxLabels
<1>2. HandByPlace /\ OwnersByPlace /\ ThreadByPlace /\ Bindings
  BY RxAssumption DEF RxAssumption, Init, HandByPlace, OwnersByPlace, ThreadByPlace, Bindings, HasEpt, Locked
<1>3. RefsByUse /\ CbByOwner
  BY RxAssumption DEF RxAssumption, Init, RefsByUse, CbByOwner, Owned, Callable
<1> QED
  BY <1>1, <1>2, <1>3 DEF EptInv

\* virtqueue_get_buf takes a message off the used ring or ends the loop.
LEMMA GetBufTypes ==
  ASSUME TypeOK, GetBuf
  PROVE  /\ used' \in Seq(Messages) /\ armed' \in BOOLEAN
         /\ \/ rpc' = "idle" /\ msg' = None
            \/ rpc' = "check" /\ msg' \in Messages
<1>1. CASE used = <<>> \/ broken
  BY <1>1 DEF GetBuf, TypeOK
<1>2. CASE ~(used = <<>> \/ broken)
  <2>1. used \in Seq(Messages) /\ used # <<>>
    BY <1>2 DEF TypeOK
  <2>2. Head(used) \in Messages /\ Tail(used) \in Seq(Messages)
    BY <2>1
  <2> QED
    BY <1>2, <2>2 DEF GetBuf, TypeOK
<1> QED
  BY <1>1, <1>2

(***************************************************************************)
(* Steps of the virtqueue and of the loop around rpmsg_recv_single leave   *)
(* endpoints and their owners alone.                                       *)
(***************************************************************************)
RingStep ==
  \/ RecvDone \/ Oversized \/ AddInbuf \/ BreakQueue
  \/ \E m \in Messages : RemoteSend(m)
  \/ UNCHANGED vars

Aloof ==
  /\ UNCHANGED <<eptVars, userVars, ept, target>>
  /\ rpc' = rpc \/ (rpc \notin HasEpt /\ rpc' \notin HasEpt)

LEMMA RingStepAloof ==
  ASSUME TypeOK, RingStep
  PROVE  Aloof
<1>1. CASE RecvDone
  BY <1>1, GetBufTypes DEF RecvDone, Aloof, HasEpt
<1>2. CASE Oversized
  BY <1>2 DEF Oversized, Aloof, HasEpt
<1>3. CASE AddInbuf
  BY <1>3, GetBufTypes DEF AddInbuf, Aloof, HasEpt
<1>4. CASE BreakQueue \/ \E m \in Messages : RemoteSend(m)
  BY <1>4 DEF BreakQueue, RemoteSend, Aloof, rxVars
<1>5. CASE UNCHANGED vars
  BY <1>5 DEF vars, rxVars, Aloof
<1> QED
  BY <1>1, <1>2, <1>3, <1>4, <1>5 DEF RingStep

\* The message in hand has a destination, and so lookup finds an endpoint or none.
LEMMA LookupFinds ==
  ASSUME TypeOK, HandByPlace, rpc = "check"
  PROVE  msg \in Messages /\ idr[msg.dst] \in Epts \cup {None}
<1>1. msg \in Messages
  BY DEF TypeOK, HandByPlace
<1>2. msg.dst \in Addrs
  BY <1>1 DEF Messages
<1> QED
  BY <1>1, <1>2 DEF TypeOK

\* A destroy that has not come to its end has the endpoint.
LEMMA OwnerHas ==
  ASSUME TypeOK, OwnersByPlace, NEW u \in Users, upc[u] # "idle"
  PROVE  mine[u] \in Epts /\ \A v \in Users : mine[v] = mine[u] => v = u
BY DEF TypeOK, OwnersByPlace

\* An owner has its endpoint from create to the end of destroy, alone.
LEMMA OwnersStep ==
  ASSUME EptInv, [Next]_vars
  PROVE  OwnersByPlace'
<1>0. OwnersByPlace /\ RefsByUse /\ TypeOK
  BY DEF EptInv
<1> USE RxAssumption, NoneAssumption DEF RxAssumption
<1>1. ASSUME NEW u \in Users, NEW e \in Epts, NEW want \in Addrs \cup {AddrAny}, CreateEpt(u, e, want)
      PROVE  OwnersByPlace'
  BY <1>0, <1>1 DEF CreateEpt, IdrFree, ringVars, rxVars, AddrAny, Addrs, OwnersByPlace, RefsByUse, Owned, TypeOK
<1>2. ASSUME NEW u \in Users, StartDestroy(u) \/ UserDestroys(u) \/ NsDestroy(u)
      PROVE  OwnersByPlace'
  <2>1. CASE StartDestroy(u)
    BY <1>0, <2>1 DEF StartDestroy, eptVars, ringVars, rxVars, OwnersByPlace, RefsByUse, Owned, TypeOK
  <2>2. CASE IdrRemove(u)
    BY <1>0, <2>2 DEF IdrRemove, ringVars, rxVars, OwnersByPlace, RefsByUse, Owned, TypeOK
  <2>3. CASE ClearCb(u)
    BY <1>0, <2>3 DEF ClearCb, ringVars, rxVars, OwnersByPlace, RefsByUse, Owned, TypeOK
  <2>4. CASE PutEpt(u)
    BY <1>0, <2>4 DEF PutEpt, KrefPut, ringVars, rxVars, OwnersByPlace, RefsByUse, Owned, TypeOK
  <2>5. CASE NsDestroy(u)
    BY <1>0, <2>5 DEF NsDestroy, eptVars, ringVars, OwnersByPlace, RefsByUse, Owned, TypeOK
  <2> QED
    BY <1>2, <2>1, <2>2, <2>3, <2>4, <2>5 DEF UserDestroys
<1>3. CASE Lookup
  BY <1>0, <1>3 DEF Lookup, userVars, ringVars, OwnersByPlace, RefsByUse, Owned, TypeOK
<1>4. CASE LockCb
  BY <1>0, <1>4 DEF LockCb, userVars, ringVars, OwnersByPlace, RefsByUse, Owned, TypeOK
<1>5. CASE CallbackReturns
  BY <1>0, <1>5 DEF CallbackReturns, eptVars, userVars, ringVars, OwnersByPlace, RefsByUse, Owned, TypeOK
<1>6. CASE NsDestroyed
  BY <1>0, <1>6 DEF NsDestroyed, eptVars, userVars, ringVars, OwnersByPlace, RefsByUse, Owned, TypeOK
<1>7. CASE UnlockCb
  BY <1>0, <1>7 DEF UnlockCb, userVars, ringVars, OwnersByPlace, RefsByUse, Owned, TypeOK
<1>8. CASE PutRef
  BY <1>0, <1>8 DEF PutRef, KrefPut, userVars, ringVars, OwnersByPlace, RefsByUse, Owned, TypeOK
<1>9. CASE RingStep
  BY <1>0, <1>9, RingStepAloof DEF Aloof, eptVars, userVars, OwnersByPlace, RefsByUse, Owned
<1> QED
  BY <1>1, <1>2, <1>3, <1>4, <1>5, <1>6, <1>7, <1>8, <1>9 DEF Next, RxStep, RingStep

\* Every reference is counted, and the last kref_put frees.
LEMMA RefsStep ==
  ASSUME EptInv, [Next]_vars
  PROVE  RefsByUse'
<1>0. OwnersByPlace /\ RefsByUse /\ ThreadByPlace /\ Bindings /\ TypeOK
  BY DEF EptInv
<1> USE RxAssumption, NoneAssumption DEF RxAssumption
<1>1. ASSUME NEW u \in Users, NEW e \in Epts, NEW want \in Addrs \cup {AddrAny}, CreateEpt(u, e, want)
      PROVE  RefsByUse'
  BY <1>0, <1>1 DEF CreateEpt, IdrFree, ringVars, rxVars, AddrAny, Addrs, OwnersByPlace, RefsByUse, Owned, ThreadByPlace, HasEpt, Bindings, Findable, TypeOK
<1>2. ASSUME NEW u \in Users, StartDestroy(u) \/ UserDestroys(u) \/ NsDestroy(u)
      PROVE  RefsByUse'
  <2>1. CASE StartDestroy(u)
    BY <1>0, <2>1 DEF StartDestroy, eptVars, ringVars, rxVars, OwnersByPlace, RefsByUse, Owned, ThreadByPlace, HasEpt, Bindings, Findable, TypeOK
  <2>2. CASE IdrRemove(u)
    BY <1>0, <2>2 DEF IdrRemove, ringVars, rxVars, OwnersByPlace, RefsByUse, Owned, ThreadByPlace, HasEpt, Bindings, Findable, TypeOK
  <2>3. CASE ClearCb(u)
    BY <1>0, <2>3 DEF ClearCb, ringVars, rxVars, OwnersByPlace, RefsByUse, Owned, ThreadByPlace, HasEpt, Bindings, Findable, TypeOK
  <2>4. CASE PutEpt(u)
    <3>1. mine[u] \in Epts /\ Owned(mine[u]) /\ \A v \in Users : mine[v] = mine[u] => v = u
      BY <1>0, <2>4, OwnerHas DEF PutEpt, Owned
    <3>2. \A e \in Epts : Owned(e)' <=> Owned(e) /\ e # mine[u]
      BY <1>0, <2>4, <3>1 DEF PutEpt, Owned, TypeOK
    <3>3. ~(\E v \in Users : mine'[v] = mine[u])
      BY <1>0, <2>4, <3>1, RxAssumption DEF PutEpt, TypeOK, RxAssumption
    <3>4. ASSUME NEW e \in Epts
          PROVE  /\ (e \in live <=> Owned(e) \/ ept = e)'
                 /\ (refcount[e] = (IF Owned(e) THEN 1 ELSE 0) + (IF ept = e THEN 1 ELSE 0))'
      <4>1. CASE e = mine[u]
        <5>1. refcount[e] = 1 + (IF ept = e THEN 1 ELSE 0) /\ e \in live
          BY <1>0, <3>1, <4>1 DEF RefsByUse
        <5>2. refcount'[e] = refcount[e] - 1 /\ ept' = ept
          BY <1>0, <2>4, <4>1 DEF PutEpt, KrefPut, rxVars, TypeOK
        <5>3. e \in live' <=> refcount[e] # 1
          BY <2>4, <4>1, <5>1 DEF PutEpt, KrefPut
        <5> QED
          BY <3>3, <4>1, <5>1, <5>2, <5>3 DEF Owned
      <4>2. CASE e # mine[u]
        <5>1. refcount'[e] = refcount[e] /\ ept' = ept /\ (e \in live' <=> e \in live)
          BY <1>0, <2>4, <4>2 DEF PutEpt, KrefPut, rxVars, TypeOK
        <5> QED
          BY <1>0, <3>2, <4>2, <5>1 DEF RefsByUse
      <4> QED
        BY <4>1, <4>2
    <3> QED
      BY <3>4 DEF RefsByUse
  <2>5. CASE NsDestroy(u)
    BY <1>0, <2>5 DEF NsDestroy, eptVars, ringVars, OwnersByPlace, RefsByUse, Owned, ThreadByPlace, HasEpt, Bindings, Findable, TypeOK
  <2> QED
    BY <1>2, <2>1, <2>2, <2>3, <2>4, <2>5 DEF UserDestroys
<1>3. CASE Lookup
  <2>1. idr[msg.dst] \in Epts \cup {None} /\ ept = None
    BY <1>0, <1>3, LookupFinds DEF EptInv, Lookup, ThreadByPlace, HasEpt
  <2>2. idr[msg.dst] # None => idr[msg.dst] \in live
    <3>1. msg.dst \in Addrs
      BY <1>0, <1>3, LookupFinds DEF EptInv, Lookup, Messages
    <3> QED
      BY <1>0, <2>1, <3>1 DEF Bindings, Findable, RefsByUse, Owned
  <2> QED
    BY <1>0, <1>3, <2>1, <2>2 DEF Lookup, userVars, RefsByUse, Owned, TypeOK
<1>4. CASE LockCb
  BY <1>0, <1>4 DEF LockCb, userVars, ringVars, OwnersByPlace, RefsByUse, Owned, ThreadByPlace, HasEpt, Bindings, Findable, TypeOK
<1>5. CASE CallbackReturns
  BY <1>0, <1>5 DEF CallbackReturns, eptVars, userVars, ringVars, OwnersByPlace, RefsByUse, Owned, ThreadByPlace, HasEpt, Bindings, Findable, TypeOK
<1>6. CASE NsDestroyed
  BY <1>0, <1>6 DEF NsDestroyed, eptVars, userVars, ringVars, OwnersByPlace, RefsByUse, Owned, ThreadByPlace, HasEpt, Bindings, Findable, TypeOK
<1>7. CASE UnlockCb
  BY <1>0, <1>7 DEF UnlockCb, userVars, ringVars, OwnersByPlace, RefsByUse, Owned, ThreadByPlace, HasEpt, Bindings, Findable, TypeOK
<1>8. CASE PutRef
  BY <1>0, <1>8 DEF PutRef, KrefPut, userVars, ringVars, OwnersByPlace, RefsByUse, Owned, ThreadByPlace, HasEpt, Bindings, Findable, TypeOK
<1>9. CASE RingStep
  BY <1>0, <1>9, RingStepAloof DEF Aloof, eptVars, userVars, OwnersByPlace, RefsByUse, Owned, ThreadByPlace, HasEpt, Bindings, Findable
<1> QED
  BY <1>1, <1>2, <1>3, <1>4, <1>5, <1>6, <1>7, <1>8, <1>9 DEF Next, RxStep, RingStep

\* The rx thread's local variable and the lock it holds follow its place.
LEMMA ThreadStep ==
  ASSUME EptInv, [Next]_vars
  PROVE  ThreadByPlace'
<1>0. ThreadByPlace /\ TypeOK
  BY DEF EptInv
<1> USE RxAssumption, NoneAssumption DEF RxAssumption
<1>1. ASSUME NEW u \in Users, NEW e \in Epts, NEW want \in Addrs \cup {AddrAny}, CreateEpt(u, e, want)
      PROVE  ThreadByPlace'
  BY <1>0, <1>1 DEF CreateEpt, IdrFree, ringVars, rxVars, AddrAny, Addrs, ThreadByPlace, HasEpt, Locked, TypeOK
<1>2. ASSUME NEW u \in Users, StartDestroy(u) \/ UserDestroys(u) \/ NsDestroy(u)
      PROVE  ThreadByPlace'
  <2>1. CASE StartDestroy(u)
    BY <1>0, <2>1 DEF StartDestroy, eptVars, ringVars, rxVars, ThreadByPlace, HasEpt, Locked, TypeOK
  <2>2. CASE IdrRemove(u)
    BY <1>0, <2>2 DEF IdrRemove, ringVars, rxVars, ThreadByPlace, HasEpt, Locked, TypeOK
  <2>3. CASE ClearCb(u)
    BY <1>0, <2>3 DEF ClearCb, ringVars, rxVars, ThreadByPlace, HasEpt, Locked, TypeOK
  <2>4. CASE PutEpt(u)
    BY <1>0, <2>4 DEF PutEpt, KrefPut, ringVars, rxVars, ThreadByPlace, HasEpt, Locked, TypeOK
  <2>5. CASE NsDestroy(u)
    BY <1>0, <2>5 DEF NsDestroy, eptVars, ringVars, ThreadByPlace, HasEpt, Locked, TypeOK
  <2> QED
    BY <1>2, <2>1, <2>2, <2>3, <2>4, <2>5 DEF UserDestroys
<1>3. CASE Lookup
  BY <1>0, <1>3 DEF Lookup, userVars, ringVars, ThreadByPlace, HasEpt, Locked, TypeOK
<1>4. CASE LockCb
  BY <1>0, <1>4 DEF LockCb, userVars, ringVars, ThreadByPlace, HasEpt, Locked, TypeOK
<1>5. CASE CallbackReturns
  BY <1>0, <1>5 DEF CallbackReturns, eptVars, userVars, ringVars, ThreadByPlace, HasEpt, Locked, TypeOK
<1>6. CASE NsDestroyed
  BY <1>0, <1>6 DEF NsDestroyed, eptVars, userVars, ringVars, ThreadByPlace, HasEpt, Locked, TypeOK
<1>7. CASE UnlockCb
  BY <1>0, <1>7 DEF UnlockCb, userVars, ringVars, ThreadByPlace, HasEpt, Locked, TypeOK
<1>8. CASE PutRef
  BY <1>0, <1>8 DEF PutRef, KrefPut, userVars, ringVars, ThreadByPlace, HasEpt, Locked, TypeOK
<1>9. CASE RingStep
  BY <1>0, <1>9, RingStepAloof DEF Aloof, eptVars, userVars, ThreadByPlace, HasEpt, Locked
<1> QED
  BY <1>1, <1>2, <1>3, <1>4, <1>5, <1>6, <1>7, <1>8, <1>9 DEF Next, RxStep, RingStep

\* cb is there until the owner has cleared it under cb_lock.
LEMMA CbStep ==
  ASSUME EptInv, [Next]_vars
  PROVE  CbByOwner'
<1>0. OwnersByPlace /\ ThreadByPlace /\ RefsByUse /\ CbByOwner /\ TypeOK
  BY DEF EptInv
<1> USE RxAssumption, NoneAssumption DEF RxAssumption
<1>1. ASSUME NEW u \in Users, NEW e \in Epts, NEW want \in Addrs \cup {AddrAny}, CreateEpt(u, e, want)
      PROVE  CbByOwner'
  BY <1>0, <1>1 DEF CreateEpt, IdrFree, ringVars, rxVars, AddrAny, Addrs, OwnersByPlace, ThreadByPlace, HasEpt, Locked, RefsByUse, Owned, CbByOwner, Callable, TypeOK
<1>2. ASSUME NEW u \in Users, StartDestroy(u) \/ UserDestroys(u) \/ NsDestroy(u)
      PROVE  CbByOwner'
  <2>1. CASE StartDestroy(u)
    BY <1>0, <2>1 DEF StartDestroy, eptVars, ringVars, rxVars, OwnersByPlace, ThreadByPlace, HasEpt, Locked, RefsByUse, Owned, CbByOwner, Callable, TypeOK
  <2>2. CASE IdrRemove(u)
    BY <1>0, <2>2 DEF IdrRemove, ringVars, rxVars, OwnersByPlace, ThreadByPlace, HasEpt, Locked, RefsByUse, Owned, CbByOwner, Callable, TypeOK
  <2>3. CASE ClearCb(u)
    BY <1>0, <2>3 DEF ClearCb, ringVars, rxVars, OwnersByPlace, ThreadByPlace, HasEpt, Locked, RefsByUse, Owned, CbByOwner, Callable, TypeOK
  <2>4. CASE PutEpt(u)
    <3>1. mine[u] \in Epts /\ \A v \in Users : mine[v] = mine[u] => v = u
      BY <1>0, <2>4, OwnerHas DEF PutEpt
    <3>2. \A e \in Epts : Callable(e)' <=> Callable(e)
      BY <1>0, <2>4, <3>1 DEF PutEpt, Callable, TypeOK
    <3> QED
      BY <1>0, <2>4, <3>2 DEF PutEpt, rxVars, CbByOwner
  <2>5. CASE NsDestroy(u)
    BY <1>0, <2>5 DEF NsDestroy, eptVars, ringVars, OwnersByPlace, ThreadByPlace, HasEpt, Locked, RefsByUse, Owned, CbByOwner, Callable, TypeOK
  <2> QED
    BY <1>2, <2>1, <2>2, <2>3, <2>4, <2>5 DEF UserDestroys
<1>3. CASE Lookup
  BY <1>0, <1>3 DEF Lookup, userVars, ringVars, OwnersByPlace, ThreadByPlace, HasEpt, Locked, RefsByUse, Owned, CbByOwner, Callable, TypeOK
<1>4. CASE LockCb
  BY <1>0, <1>4 DEF LockCb, userVars, ringVars, OwnersByPlace, ThreadByPlace, HasEpt, Locked, RefsByUse, Owned, CbByOwner, Callable, TypeOK
<1>5. CASE CallbackReturns
  BY <1>0, <1>5 DEF CallbackReturns, eptVars, userVars, ringVars, OwnersByPlace, ThreadByPlace, HasEpt, Locked, RefsByUse, Owned, CbByOwner, Callable, TypeOK
<1>6. CASE NsDestroyed
  BY <1>0, <1>6 DEF NsDestroyed, eptVars, userVars, ringVars, OwnersByPlace, ThreadByPlace, HasEpt, Locked, RefsByUse, Owned, CbByOwner, Callable, TypeOK
<1>7. CASE UnlockCb
  BY <1>0, <1>7 DEF UnlockCb, userVars, ringVars, OwnersByPlace, ThreadByPlace, HasEpt, Locked, RefsByUse, Owned, CbByOwner, Callable, TypeOK
<1>8. CASE PutRef
  BY <1>0, <1>8 DEF PutRef, KrefPut, userVars, ringVars, OwnersByPlace, ThreadByPlace, HasEpt, Locked, RefsByUse, Owned, CbByOwner, Callable, TypeOK
<1>9. CASE RingStep
  BY <1>0, <1>9, RingStepAloof DEF Aloof, eptVars, userVars, OwnersByPlace, ThreadByPlace, HasEpt, Locked, RefsByUse, Owned, CbByOwner, Callable
<1> QED
  BY <1>1, <1>2, <1>3, <1>4, <1>5, <1>6, <1>7, <1>8, <1>9 DEF Next, RxStep, RingStep

\* vrp->endpoints binds addresses to endpoints that have not been removed.
LEMMA BindingsStep ==
  ASSUME EptInv, [Next]_vars
  PROVE  Bindings'
<1>0. OwnersByPlace /\ RefsByUse /\ Bindings /\ TypeOK
  BY DEF EptInv
<1> USE RxAssumption, NoneAssumption DEF RxAssumption
<1>1. ASSUME NEW u \in Users, NEW e \in Epts, NEW want \in Addrs \cup {AddrAny}, CreateEpt(u, e, want)
      PROVE  Bindings'
  <2>1. PICK a \in IdrFree(want) : idr' = [idr EXCEPT ![a] = e] /\ addr' = [addr EXCEPT ![e] = a]
    BY <1>1 DEF CreateEpt
  <2>2. a \in Addrs /\ idr[a] = None
    BY <2>1 DEF IdrFree, AddrAny, Addrs
  <2>3. e \notin live /\ ~Owned(e) /\ mine[u] = None
    BY <1>0, <1>1 DEF CreateEpt, RefsByUse, OwnersByPlace
  <2>4. mine' = [mine EXCEPT ![u] = e] /\ upc' = [upc EXCEPT ![u] = "open"]
    BY <1>1 DEF CreateEpt
  <2>5. ASSUME NEW c \in Addrs, idr'[c] # None
        PROVE  Findable(idr[c])' /\ addr'[idr'[c]] = c
    <3>1. CASE c = a
      BY <1>0, <2>1, <2>2, <2>4, <3>1 DEF Findable, TypeOK
    <3>2. CASE c # a
      <4>1. idr'[c] = idr[c] /\ Findable(idr[c]) /\ addr[idr[c]] = c
        BY <1>0, <2>1, <2>5, <3>2 DEF Bindings, TypeOK
      <4>2. idr[c] # e
        BY <2>3, <4>1 DEF Findable, Owned
      <4> QED
        BY <1>0, <2>1, <2>3, <2>4, <2>5, <4>1, <4>2 DEF Findable, TypeOK
    <3> QED
      BY <3>1, <3>2
  <2>6. ASSUME NEW v \in Users, upc'[v] \in {"open", "remove"}
        PROVE  addr'[mine'[v]] \in Addrs /\ idr'[addr'[mine'[v]]] = mine'[v]
    <3>1. CASE v = u
      BY <1>0, <2>1, <2>2, <2>4, <3>1 DEF TypeOK
    <3>2. CASE v # u
      <4>1. mine'[v] = mine[v] /\ upc'[v] = upc[v]
        BY <1>0, <2>4, <3>2 DEF TypeOK
      <4>2. mine[v] \in Epts /\ mine[v] # e
        BY <1>0, <2>3, <2>6, <4>1, OwnerHas DEF Owned
      <4>3. addr[mine[v]] \in Addrs /\ idr[addr[mine[v]]] = mine[v]
        BY <1>0, <2>6, <4>1 DEF Bindings
      <4> QED
        BY <1>0, <2>1, <2>2, <4>1, <4>2, <4>3 DEF TypeOK
    <3> QED
      BY <3>1, <3>2
  <2> QED
    BY <2>5, <2>6 DEF Bindings
<1>2. ASSUME NEW u \in Users, StartDestroy(u) \/ UserDestroys(u) \/ NsDestroy(u)
      PROVE  Bindings'
  <2>1. CASE StartDestroy(u)
    BY <1>0, <2>1 DEF StartDestroy, eptVars, ringVars, rxVars, OwnersByPlace, RefsByUse, Owned, Bindings, Findable, TypeOK
  <2>2. CASE IdrRemove(u)
    <3>1. mine[u] \in Epts /\ \A v \in Users : mine[v] = mine[u] => v = u
      BY <1>0, <2>2, OwnerHas DEF IdrRemove
    <3>2. addr[mine[u]] \in Addrs /\ idr[addr[mine[u]]] = mine[u]
      BY <1>0, <2>2 DEF IdrRemove, Bindings
    <3>3. UNCHANGED <<addr, mine>>
      BY <2>2 DEF IdrRemove
    <3>4. ASSUME NEW c \in Addrs, idr'[c] # None
          PROVE  Findable(idr[c])' /\ addr'[idr'[c]] = c
      <4>1. c # addr[mine[u]] /\ idr'[c] = idr[c]
        BY <1>0, <2>2, <3>2, <3>4 DEF IdrRemove, TypeOK
      <4>2. Findable(idr[c]) /\ addr[idr[c]] = c
        BY <1>0, <3>4, <4>1 DEF Bindings
      <4>3. PICK v \in Users : mine[v] = idr[c] /\ upc[v] \in {"open", "remove"}
        BY <4>2 DEF Findable
      <4>4. v # u
        BY <3>2, <4>1, <4>2, <4>3
      <4>5. upc'[v] = upc[v]
        BY <1>0, <2>2, <4>4 DEF IdrRemove, TypeOK
      <4> QED
        BY <3>3, <4>1, <4>2, <4>3, <4>5 DEF Findable
    <3>5. ASSUME NEW v \in Users, upc'[v] \in {"open", "remove"}
          PROVE  addr'[mine'[v]] \in Addrs /\ idr'[addr'[mine'[v]]] = mine'[v]
      <4>1. v # u /\ upc'[v] = upc[v]
        BY <1>0, <2>2, <3>5 DEF IdrRemove, TypeOK
      <4>2. addr[mine[v]] \in Addrs /\ idr[addr[mine[v]]] = mine[v]
        BY <1>0, <3>5, <4>1 DEF Bindings
      <4>3. mine[v] # mine[u]
        BY <3>1, <4>1
      <4>4. addr[mine[v]] # addr[mine[u]]
        BY <3>2, <4>2, <4>3
      <4> QED
        BY <1>0, <2>2, <3>3, <4>2, <4>4 DEF IdrRemove, TypeOK
    <3> QED
      BY <3>4, <3>5 DEF Bindings
  <2>3. CASE ClearCb(u)
    <3>1. ASSUME NEW v \in Users
          PROVE  upc'[v] \in {"open", "remove"} <=> upc[v] \in {"open", "remove"}
      BY <1>0, <2>3 DEF ClearCb, TypeOK
    <3> QED
      BY <1>0, <2>3, <3>1 DEF ClearCb, Bindings, Findable
  <2>4. CASE PutEpt(u)
    BY <1>0, <2>4 DEF PutEpt, KrefPut, ringVars, rxVars, OwnersByPlace, RefsByUse, Owned, Bindings, Findable, TypeOK
  <2>5. CASE NsDestroy(u)
    BY <1>0, <2>5 DEF NsDestroy, eptVars, ringVars, OwnersByPlace, RefsByUse, Owned, Bindings, Findable, TypeOK
  <2> QED
    BY <1>2, <2>1, <2>2, <2>3, <2>4, <2>5 DEF UserDestroys
<1>3. CASE Lookup
  BY <1>0, <1>3 DEF Lookup, userVars, ringVars, OwnersByPlace, RefsByUse, Owned, Bindings, Findable, TypeOK
<1>4. CASE LockCb
  BY <1>0, <1>4 DEF LockCb, userVars, ringVars, OwnersByPlace, RefsByUse, Owned, Bindings, Findable, TypeOK
<1>5. CASE CallbackReturns
  BY <1>0, <1>5 DEF CallbackReturns, eptVars, userVars, ringVars, OwnersByPlace, RefsByUse, Owned, Bindings, Findable, TypeOK
<1>6. CASE NsDestroyed
  BY <1>0, <1>6 DEF NsDestroyed, eptVars, userVars, ringVars, OwnersByPlace, RefsByUse, Owned, Bindings, Findable, TypeOK
<1>7. CASE UnlockCb
  BY <1>0, <1>7 DEF UnlockCb, userVars, ringVars, OwnersByPlace, RefsByUse, Owned, Bindings, Findable, TypeOK
<1>8. CASE PutRef
  BY <1>0, <1>8 DEF PutRef, KrefPut, userVars, ringVars, OwnersByPlace, RefsByUse, Owned, Bindings, Findable, TypeOK
<1>9. CASE RingStep
  BY <1>0, <1>9, RingStepAloof DEF Aloof, eptVars, userVars, OwnersByPlace, RefsByUse, Owned, Bindings, Findable
<1> QED
  BY <1>1, <1>2, <1>3, <1>4, <1>5, <1>6, <1>7, <1>8, <1>9 DEF Next, RxStep, RingStep

\* A reference that is dropped has been counted.
LEMMA CountedRef ==
  ASSUME TypeOK, RefsByUse, NEW e \in Epts, Owned(e) \/ ept = e
  PROVE  refcount[e] - 1 \in Nat
<1>1. refcount[e] \in Nat /\ refcount[e] = (IF Owned(e) THEN 1 ELSE 0) + (IF ept = e THEN 1 ELSE 0)
  BY DEF TypeOK, RefsByUse
<1> QED
  BY <1>1

\* Types are kept, as references are counted and the rx thread has what it uses.
LEMMA TypeStep ==
  ASSUME EptInv, [Next]_vars
  PROVE  TypeOK'
<1>0. TypeOK /\ HandByPlace /\ OwnersByPlace /\ RefsByUse /\ ThreadByPlace
  BY DEF EptInv
<1> USE RxAssumption DEF RxAssumption
<1>1. ASSUME NEW u \in Users, NEW e \in Epts, NEW want \in Addrs \cup {AddrAny}, CreateEpt(u, e, want)
      PROVE  TypeOK'
  <2>1. PICK a \in IdrFree(want) : idr' = [idr EXCEPT ![a] = e] /\ addr' = [addr EXCEPT ![e] = a]
    BY <1>1 DEF CreateEpt
  <2>2. a \in Addrs
    BY <2>1 DEF IdrFree, AddrAny, Addrs
  <2> QED
    BY <1>0, <1>1, <2>1, <2>2 DEF CreateEpt, ringVars, rxVars, TypeOK
<1>2. ASSUME NEW u \in Users, StartDestroy(u) \/ UserDestroys(u) \/ NsDestroy(u)
      PROVE  TypeOK'
  <2>1. CASE StartDestroy(u)
    BY <1>0, <2>1 DEF StartDestroy, eptVars, ringVars, rxVars, TypeOK
  <2>2. CASE IdrRemove(u)
    BY <1>0, <2>2 DEF IdrRemove, ringVars, rxVars, TypeOK
  <2>3. CASE ClearCb(u)
    BY <1>0, <2>3 DEF ClearCb, ringVars, rxVars, TypeOK
  <2>4. CASE PutEpt(u)
    <3>1. mine[u] \in Epts /\ refcount[mine[u]] - 1 \in Nat
      BY <1>0, <2>4, OwnerHas, CountedRef DEF PutEpt, Owned
    <3> QED
      BY <1>0, <2>4, <3>1 DEF PutEpt, KrefPut, ringVars, rxVars, TypeOK
  <2>5. CASE NsDestroy(u)
    BY <1>0, <2>5 DEF NsDestroy, eptVars, ringVars, TypeOK, RxLabels
  <2> QED
    BY <1>2, <2>1, <2>2, <2>3, <2>4, <2>5 DEF UserDestroys
<1>3. CASE Lookup
  <2>1. idr[msg.dst] \in Epts \cup {None}
    BY <1>0, <1>3, LookupFinds DEF Lookup
  <2> QED
    BY <1>0, <1>3, <2>1 DEF Lookup, userVars, ringVars, TypeOK, RxLabels
<1>4. CASE LockCb
  BY <1>0, <1>4 DEF LockCb, ThreadByPlace, HasEpt, userVars, ringVars, TypeOK, RxLabels
<1>5. CASE CallbackReturns \/ NsDestroyed \/ UnlockCb
  BY <1>0, <1>5 DEF CallbackReturns, NsDestroyed, UnlockCb, eptVars, userVars, ringVars, TypeOK, RxLabels
<1>6. CASE PutRef
  <2>1. ept \in Epts /\ refcount[ept] - 1 \in Nat
    BY <1>0, <1>6, CountedRef DEF PutRef, ThreadByPlace, HasEpt, TypeOK
  <2> QED
    BY <1>0, <1>6, <2>1 DEF PutRef, KrefPut, userVars, ringVars, TypeOK, RxLabels
<1>7. CASE RecvDone
  BY <1>0, <1>7, GetBufTypes DEF RecvDone, eptVars, userVars, TypeOK, RxLabels
<1>8. CASE Oversized
  <2>1. msg.buf \in RxBufs
    BY <1>0, <1>8 DEF Oversized, TypeOK, HandByPlace, Messages
  <2> QED
    BY <1>0, <1>8, <2>1 DEF Oversized, eptVars, userVars, TypeOK, RxLabels
<1>9. CASE AddInbuf
  <2>1. msg.buf \in RxBufs
    BY <1>0, <1>9 DEF AddInbuf, TypeOK, HandByPlace, Messages
  <2>2. CASE broken
    BY <1>0, <1>9, <2>1, <2>2 DEF AddInbuf, eptVars, userVars, TypeOK, RxLabels
  <2>3. CASE ~broken
    BY <1>0, <1>9, <2>1, <2>3, GetBufTypes DEF AddInbuf, eptVars, userVars, TypeOK, RxLabels
  <2> QED
    BY <2>2, <2>3
<1>10. ASSUME NEW m \in Messages, RemoteSend(m)
       PROVE  TypeOK'
  <2>1. used' \in Seq(Messages)
    BY <1>0, <1>10 DEF RemoteSend, TypeOK
  <2> QED
    BY <1>0, <1>10, <2>1 DEF RemoteSend, eptVars, userVars, rxVars, TypeOK
<1>11. CASE BreakQueue
  BY <1>0, <1>11 DEF BreakQueue, eptVars, userVars, rxVars, TypeOK
<1>12. CASE UNCHANGED vars
  BY <1>0, <1>12 DEF vars, eptVars, userVars, ringVars, rxVars, TypeOK
<1> QED
  BY <1>1, <1>2, <1>3, <1>4, <1>5, <1>6, <1>7, <1>8, <1>9, <1>10, <1>11, <1>12 DEF Next, RxStep

\* The rx thread has a message while it handles one.
LEMMA HandStep ==
  ASSUME EptInv, [Next]_vars
  PROVE  HandByPlace'
<1>0. TypeOK /\ HandByPlace
  BY DEF EptInv
<1> USE RxAssumption, NoneAssumption DEF RxAssumption
<1>1. ASSUME NEW u \in Users, NEW e \in Epts, NEW want \in Addrs \cup {AddrAny}, CreateEpt(u, e, want)
      PROVE  HandByPlace'
  BY <1>0, <1>1 DEF CreateEpt, rxVars, HandByPlace
<1>2. ASSUME NEW u \in Users, StartDestroy(u) \/ UserDestroys(u) \/ NsDestroy(u)
      PROVE  HandByPlace'
  BY <1>0, <1>2 DEF StartDestroy, UserDestroys, IdrRemove, ClearCb, PutEpt, NsDestroy, rxVars, HandByPlace
<1>3. CASE Lookup \/ LockCb \/ CallbackReturns \/ NsDestroyed \/ UnlockCb \/ PutRef
  BY <1>0, <1>3 DEF Lookup, LockCb, CallbackReturns, NsDestroyed, UnlockCb, PutRef, HandByPlace
<1>4. CASE RecvDone
  BY <1>0, <1>4, GetBufTypes DEF RecvDone, HandByPlace
<1>5. CASE Oversized
  BY <1>0, <1>5 DEF Oversized, HandByPlace
<1>6. CASE AddInbuf
  BY <1>0, <1>6, GetBufTypes DEF AddInbuf, HandByPlace
<1>7. CASE BreakQueue \/ (\E m \in Messages : RemoteSend(m)) \/ UNCHANGED vars
  BY <1>0, <1>7 DEF BreakQueue, RemoteSend, vars, rxVars, HandByPlace
<1> QED
  BY <1>1, <1>2, <1>3, <1>4, <1>5, <1>6, <1>7 DEF Next, RxStep

THEOREM EndpointsInvariant == Spec => []EptInv
<1>1. EptInv /\ [Next]_vars => EptInv'
  BY TypeStep, HandStep, OwnersStep, RefsStep, ThreadStep, CbStep, BindingsStep DEF EptInv
<1> QED
  BY <1>1, EptInit, PTL DEF Spec

\* rpmsg_recv_single holds a reference of its own from the lookup to its
\* kref_put, and an owner from create to destroy, so neither uses freed memory.
THEOREM NoUseAfterFreeCorrect == Spec => []NoUseAfterFree
<1>1. EptInv => NoUseAfterFree
  <2> SUFFICES ASSUME EptInv PROVE NoUseAfterFree
    OBVIOUS
  <2>1. TypeOK /\ RefsByUse /\ Bindings
    BY DEF EptInv
  <2>2. ept # None => ept \in live
    BY <2>1 DEF TypeOK, RefsByUse
  <2>3. \A u \in Users : mine[u] # None => mine[u] \in live
    BY <2>1 DEF TypeOK, RefsByUse, Owned
  <2>4. \A a \in Addrs : idr[a] # None => idr[a] \in live
    BY <2>1 DEF TypeOK, RefsByUse, Owned, Bindings, Findable
  <2> QED
    BY <2>2, <2>3, <2>4 DEF NoUseAfterFree
<1> QED
  BY <1>1, EndpointsInvariant, PTL

\* kref_put by destroy and by the rx thread together free an endpoint, once.
THEOREM RefcountCorrect == Spec => []RefcountExact
<1>1. EptInv => RefcountExact
  <2> SUFFICES ASSUME EptInv, NEW e \in live
               PROVE  refcount[e] = Cardinality({u \in Users : mine[u] = e})
                                      + (IF ept = e THEN 1 ELSE 0)
    BY DEF EptInv, RefcountExact
  <2>1. TypeOK /\ OwnersByPlace /\ RefsByUse /\ e \in Epts
    BY DEF EptInv, TypeOK
  <2>2. refcount[e] = (IF Owned(e) THEN 1 ELSE 0) + (IF ept = e THEN 1 ELSE 0)
    BY <2>1 DEF RefsByUse
  <2>3. CASE Owned(e)
    <3>1. PICK u \in Users : mine[u] = e
      BY <2>3 DEF Owned
    <3>2. {v \in Users : mine[v] = e} = {u}
      BY <2>1, <3>1, RxAssumption DEF OwnersByPlace, RxAssumption
    <3>3. Cardinality({v \in Users : mine[v] = e}) = 1
      BY <3>2, FS_Singleton
    <3> QED
      BY <2>2, <2>3, <3>3
  <2>4. CASE ~Owned(e)
    <3>1. {v \in Users : mine[v] = e} = {}
      BY <2>4 DEF Owned
    <3>2. Cardinality({v \in Users : mine[v] = e}) = 0
      BY <3>1, FS_EmptySet
    <3> QED
      BY <2>2, <2>4, <3>2
  <2> QED
    BY <2>3, <2>4
<1> QED
  BY <1>1, EndpointsInvariant, PTL

\* idr_remove in a destroy takes away the binding of that endpoint and no other.
THEOREM AddressesCorrect == Spec => []AddressesConsistent
<1>1. EptInv => AddressesConsistent
  <2> SUFFICES ASSUME EptInv PROVE AddressesConsistent
    OBVIOUS
  <2>1. TypeOK /\ CbByOwner /\ Bindings
    BY DEF EptInv
  <2>2. ASSUME NEW a \in Addrs, idr[a] # None
        PROVE  addr[idr[a]] = a /\ cb[idr[a]]
    BY <2>1, <2>2 DEF TypeOK, Bindings, Findable, CbByOwner, Callable
  <2> QED
    BY <2>1, <2>2 DEF AddressesConsistent, Bindings
<1> QED
  BY <1>1, EndpointsInvariant, PTL

\* The cb_lock section of a destroy waits for the callback and ends it for good.
THEOREM NoCallbackCorrect == Spec => []NoCallbackAfterDestroy
<1>1. EptInv => NoCallbackAfterDestroy
  <2> SUFFICES ASSUME EptInv, rpc \in {"cb", "nswait"}
               PROVE  \E u \in Users : mine[u] = ept /\ upc[u] \in {"open", "remove", "clear"}
    BY DEF NoCallbackAfterDestroy
  <2>1. ept \in Epts /\ cb[ept]
    BY DEF EptInv, TypeOK, ThreadByPlace, HasEpt, CbByOwner
  <2> QED
    BY <2>1 DEF EptInv, CbByOwner, Callable
<1> QED
  BY <1>1, EndpointsInvariant, PTL

(***************************************************************************)
(* Receive buffers: each is in one place.                                  *)
(***************************************************************************)
InHand(b) == msg # None /\ msg.buf = b

OnePlace(b) ==
  /\ b \in avail \/ Received(b) \/ InHand(b) \/ b \in lost
  /\ b \in avail => ~Received(b) /\ ~InHand(b) /\ b \notin lost
  /\ Received(b) => ~InHand(b) /\ b \notin lost
  /\ InHand(b) => b \notin lost

UsedOnce == \A i, j \in DOMAIN used : used[i].buf = used[j].buf => i = j

BufferInv == UsedOnce /\ \A b \in RxBufs : OnePlace(b)

LEMMA BufferInit == Init => BufferInv
BY DEF Init, BufferInv, UsedOnce, OnePlace, Received, InHand

\* What virtqueue_get_buf takes leaves the used ring, and only that.
LEMMA GetBufMoves ==
  ASSUME TypeOK, UsedOnce, GetBuf, NoneAssumption
  PROVE  /\ UsedOnce'
         /\ \A b : Received(b) => (Received(b)' <=> ~InHand(b)')
         /\ \A b : ~Received(b) => ~Received(b)' /\ ~InHand(b)'
<1>1. CASE used = <<>> \/ broken
  BY <1>1 DEF GetBuf, UsedOnce, Received, InHand
<1>2. CASE ~(used = <<>> \/ broken)
  <2>1. used \in Seq(Messages) /\ Len(used) \in Nat /\ Len(used) >= 1
    BY <1>2 DEF TypeOK
  <2>2. /\ used' = Tail(used) /\ Len(used') = Len(used) - 1
        /\ \A i \in 1 .. Len(used) - 1 : used'[i] = used[i + 1]
    BY <1>2, <2>1 DEF GetBuf
  <2>3. DOMAIN used = 1 .. Len(used) /\ DOMAIN used' = 1 .. Len(used) - 1
    <3>1. used' \in Seq(Messages)
      BY <2>1, <2>2
    <3> QED
      BY <2>1, <2>2, <3>1
  <2>4. msg' = used[1] /\ msg' # None
    <3>1. msg' = Head(used) /\ Head(used) = used[1] /\ used[1] \in Messages
      BY <1>2, <2>1 DEF GetBuf
    <3> QED
      BY <3>1 DEF NoneAssumption
  <2>5. UsedOnce'
    BY <2>1, <2>2, <2>3 DEF UsedOnce
  <2>6. ASSUME NEW b PROVE Received(b)' <=> \E i \in 2 .. Len(used) : used[i].buf = b
    <3>1. ASSUME NEW i \in 1 .. Len(used) - 1, used'[i].buf = b
          PROVE  \E k \in 2 .. Len(used) : used[k].buf = b
      <4>1. i + 1 \in 2 .. Len(used) /\ used[i + 1].buf = b
        BY <2>1, <2>2, <3>1
      <4> QED
        BY <4>1
    <3>2. ASSUME NEW k \in 2 .. Len(used), used[k].buf = b
          PROVE  \E i \in 1 .. Len(used) - 1 : used'[i].buf = b
      <4>1. k - 1 \in 1 .. Len(used) - 1 /\ (k - 1) + 1 = k
        BY <2>1
      <4>2. used'[k - 1].buf = b
        BY <2>2, <3>2, <4>1
      <4> QED
        BY <4>1, <4>2
    <3> QED
      BY <2>3, <3>1, <3>2 DEF Received
  <2>7. 1 \in DOMAIN used /\ \A i \in 2 .. Len(used) : i \in DOMAIN used /\ i # 1
    BY <2>1, <2>3
  <2>8. ASSUME NEW b PROVE Received(b) <=> used[1].buf = b \/ \E i \in 2 .. Len(used) : used[i].buf = b
    BY <2>1, <2>3 DEF Received
  <2>9. ASSUME NEW b PROVE used[1].buf = b => ~(\E i \in 2 .. Len(used) : used[i].buf = b)
    BY <2>7 DEF UsedOnce
  <2> QED
    BY <2>4, <2>5, <2>6, <2>8, <2>9 DEF InHand
<1> QED
  BY <1>1, <1>2

\* A buffer moves from one place to the next, whatever the rx thread does.
LEMMA BufferStep ==
  ASSUME EptInv, BufferInv, [Next]_vars
  PROVE  BufferInv'
<1>0. TypeOK /\ HandByPlace /\ UsedOnce /\ \A b \in RxBufs : OnePlace(b)
  BY DEF EptInv, BufferInv
<1>1. ASSUME UNCHANGED <<avail, used, lost, msg>>
      PROVE  BufferInv'
  BY <1>0, <1>1 DEF BufferInv, UsedOnce, OnePlace, Received, InHand
<1>2. CASE RecvDone
  <2>1. ~(\E b : InHand(b)) /\ UNCHANGED <<avail, lost>>
    BY <1>0, <1>2 DEF RecvDone, HandByPlace, InHand
  <2>2. GetBuf
    BY <1>2 DEF RecvDone
  <2> QED
    BY <1>0, <2>1, <2>2, GetBufMoves, NoneAssumption DEF BufferInv, OnePlace
<1>3. CASE Oversized
  <2>1. UNCHANGED <<avail, used>> /\ msg # None /\ lost' = lost \cup {msg.buf} /\ msg' = None
    BY <1>0, <1>3 DEF Oversized, HandByPlace
  <2> QED
    BY <1>0, <2>1 DEF BufferInv, UsedOnce, OnePlace, Received, InHand
<1>4. CASE AddInbuf
  <2>1. msg # None
    BY <1>0, <1>4 DEF AddInbuf, HandByPlace
  <2>2. CASE broken
    <3>1. UNCHANGED <<avail, used>> /\ lost' = lost \cup {msg.buf} /\ msg' = None
      BY <1>4, <2>2 DEF AddInbuf
    <3> QED
      BY <1>0, <2>1, <3>1 DEF BufferInv, UsedOnce, OnePlace, Received, InHand
  <2>3. CASE ~broken
    <3>1. avail' = avail \cup {msg.buf} /\ lost' = lost /\ GetBuf
      BY <1>4, <2>3 DEF AddInbuf
    <3>2. \A b : InHand(b) <=> b = msg.buf
      BY <2>1 DEF InHand
    <3>3. UsedOnce' /\ (\A b : Received(b) => (Received(b)' <=> ~InHand(b)'))
                    /\ \A b : ~Received(b) => ~Received(b)' /\ ~InHand(b)'
      BY <1>0, <3>1, GetBufMoves, NoneAssumption
    <3>4. ASSUME NEW b \in RxBufs PROVE OnePlace(b)'
      BY <1>0, <3>1, <3>2, <3>3 DEF OnePlace
    <3> QED
      BY <3>3, <3>4 DEF BufferInv
  <2> QED
    BY <2>2, <2>3
<1>5. ASSUME NEW m \in Messages, RemoteSend(m)
      PROVE  BufferInv'
  <2>1. /\ m.buf \in avail /\ avail' = avail \ {m.buf}
        /\ used' = Append(used, m) /\ UNCHANGED <<lost, msg>>
    BY <1>5 DEF RemoteSend, rxVars
  <2>2. /\ used \in Seq(Messages) /\ Len(used) \in Nat /\ DOMAIN used = 1 .. Len(used)
        /\ DOMAIN used' = 1 .. Len(used) + 1 /\ used'[Len(used) + 1] = m
        /\ \A i \in 1 .. Len(used) : used'[i] = used[i]
    BY <1>0, <2>1 DEF TypeOK
  <2>3. m.buf \in RxBufs /\ ~Received(m.buf) /\ ~InHand(m.buf) /\ m.buf \notin lost
    BY <1>0, <2>1 DEF TypeOK, OnePlace
  <2>4. ASSUME NEW b PROVE Received(b)' <=> Received(b) \/ b = m.buf
    BY <2>2 DEF Received
  <2>5. UsedOnce'
    BY <1>0, <2>2, <2>3 DEF UsedOnce, Received
  <2>6. ASSUME NEW b \in RxBufs PROVE OnePlace(b)'
    BY <1>0, <2>1, <2>3, <2>4 DEF OnePlace, InHand
  <2> QED
    BY <2>5, <2>6 DEF BufferInv
<1>6. ASSUME NEW u \in Users, NEW e \in Epts, NEW want \in Addrs \cup {AddrAny}, CreateEpt(u, e, want)
      PROVE  BufferInv'
  BY <1>1, <1>6 DEF CreateEpt, ringVars, rxVars
<1>7. ASSUME NEW u \in Users, StartDestroy(u) \/ UserDestroys(u) \/ NsDestroy(u)
      PROVE  BufferInv'
  BY <1>1, <1>7 DEF StartDestroy, UserDestroys, IdrRemove, ClearCb, PutEpt, NsDestroy, ringVars, rxVars
<1>8. CASE Lookup \/ LockCb \/ CallbackReturns \/ NsDestroyed \/ UnlockCb \/ PutRef
  BY <1>1, <1>8 DEF Lookup, LockCb, CallbackReturns, NsDestroyed, UnlockCb, PutRef, ringVars
<1>9. CASE BreakQueue \/ UNCHANGED vars
  BY <1>1, <1>9 DEF BreakQueue, rxVars, vars, ringVars
<1> QED
  BY <1>2, <1>3, <1>4, <1>5, <1>6, <1>7, <1>8, <1>9 DEF Next, RxStep

\* The used ring is as long as the set of its buffers is large.
LEMMA UsedCount ==
  ASSUME used \in Seq(Messages), UsedOnce
  PROVE  LET inUse == {used[i].buf : i \in DOMAIN used}
         IN  IsFiniteSet(inUse) /\ Cardinality(inUse) = Len(used)
<1> DEFINE inUse == {used[i].buf : i \in DOMAIN used}
           f == [i \in 1 .. Len(used) |-> used[i].buf]
<1>1. DOMAIN used = 1 .. Len(used) /\ Len(used) \in Nat
  OBVIOUS
<1>2. f \in Bijection(1 .. Len(used), inUse)
  <2>1. f \in [1 .. Len(used) -> inUse]
    BY <1>1
  <2>2. \A i, j \in 1 .. Len(used) : f[i] = f[j] => i = j
    BY <1>1 DEF UsedOnce
  <2>3. \A b \in inUse : \E i \in 1 .. Len(used) : f[i] = b
    BY <1>1
  <2> HIDE DEF f, inUse
  <2>4. f \in Injection(1 .. Len(used), inUse) /\ f \in Surjection(1 .. Len(used), inUse)
    BY <2>1, <2>2, <2>3 DEF Injection, IsInjective, Surjection
  <2> QED
    BY <2>4 DEF Bijection
<1>3. IsFiniteSet(1 .. Len(used)) /\ Cardinality(1 .. Len(used)) = Len(used)
  BY <1>1, FS_Interval
<1>4. ExistsBijection(1 .. Len(used), inUse)
  BY <1>2 DEF ExistsBijection
<1> HIDE DEF inUse
<1>5. IsFiniteSet(inUse) /\ Cardinality(inUse) = Len(used)
  BY <1>3, <1>4, FS_Bijection
<1> QED
  BY <1>5 DEF inUse

LEMMA DisjointUnion ==
  ASSUME NEW S, NEW T, IsFiniteSet(S), IsFiniteSet(T), S \cap T = {}
  PROVE  IsFiniteSet(S \cup T) /\ Cardinality(S \cup T) = Cardinality(S) + Cardinality(T)
<1>1. Cardinality(S \cap T) = 0
  BY FS_EmptySet
<1>2. Cardinality(S) \in Nat /\ Cardinality(T) \in Nat
  BY FS_CardinalityType
<1>3. /\ IsFiniteSet(S \cup T)
      /\ Cardinality(S \cup T) = Cardinality(S) + Cardinality(T) - Cardinality(S \cap T)
  BY FS_Union
<1> QED
  BY <1>1, <1>2, <1>3

\* rpmsg_recv_done gives back the buffer of every message it has handled.
THEOREM BuffersCorrect == Spec => []RxBufferConserved
<1>1. TypeOK /\ BufferInv => RxBufferConserved
  <2> SUFFICES ASSUME TypeOK, BufferInv PROVE RxBufferConserved
    OBVIOUS
  <2> DEFINE inUse == {used[i].buf : i \in DOMAIN used}
             inHand == IF msg = None THEN {} ELSE {msg.buf}
  <2>1. avail \subseteq RxBufs /\ lost \subseteq RxBufs /\ used \in Seq(Messages)
    BY DEF TypeOK
  <2>2. inUse \subseteq RxBufs /\ \A b : b \in inUse <=> Received(b)
    <3>1. ASSUME NEW i \in DOMAIN used PROVE used[i].buf \in RxBufs
      <4>1. used[i] \in Messages
        BY <2>1
      <4> QED
        BY <4>1 DEF Messages
    <3> QED
      BY <3>1 DEF Received
  <2>3. inHand \subseteq RxBufs /\ \A b : b \in inHand <=> InHand(b)
    BY DEF TypeOK, InHand, Messages
  <2>4. IsFiniteSet(inUse) /\ Cardinality(inUse) = Len(used)
    BY <2>1, UsedCount DEF BufferInv
  <2>5. \A b \in RxBufs : OnePlace(b)
    BY DEF BufferInv
  <2> HIDE DEF inUse, inHand
  <2>6. IsFiniteSet(avail) /\ IsFiniteSet(lost) /\ IsFiniteSet(inHand)
    BY <2>1, <2>3, RxAssumption, FS_Subset DEF RxAssumption
  <2>7. avail \cup inUse \cup inHand \cup lost = RxBufs
    BY <2>1, <2>2, <2>3, <2>5 DEF OnePlace
  <2>8. /\ avail \cap inUse = {} /\ (avail \cup inUse) \cap inHand = {}
        /\ (avail \cup inUse \cup inHand) \cap lost = {}
    BY <2>1, <2>2, <2>3, <2>5 DEF OnePlace
  <2>9. /\ IsFiniteSet(avail \cup inUse)
        /\ Cardinality(avail \cup inUse) = Cardinality(avail) + Len(used)
    BY <2>4, <2>6, <2>8, DisjointUnion
  <2>10. /\ IsFiniteSet(avail \cup inUse \cup inHand)
         /\ Cardinality(avail \cup inUse \cup inHand)
              = Cardinality(avail) + Len(used) + Cardinality(inHand)
    BY <2>6, <2>8, <2>9, DisjointUnion
  <2>11. Cardinality(avail \cup inUse \cup inHand \cup lost)
           = Cardinality(avail) + Len(used) + Cardinality(inHand) + Cardinality(lost)
    BY <2>6, <2>8, <2>10, DisjointUnion
  <2> QED
    BY <2>7, <2>11 DEF RxBufferConserved, inUse, inHand
<1>2. EptInv => TypeOK
  BY DEF EptInv
<1>3. EptInv /\ BufferInv /\ [Next]_vars => BufferInv'
  BY BufferStep
<1> QED
  BY <1>1, <1>2, <1>3, BufferInit, EndpointsInvariant, PTL DEF Spec

===============================================================================
