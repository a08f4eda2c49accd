----------------------------- MODULE RpmsgCharProofs -----------------------------
(***************************************************************************)
(* The lifetime of the endpoint device, its endpoint and its messages, for *)
(* any number of threads: first with one open file at a time, then, as far *)
(* as it holds there, with any number of files.  With two files the        *)
(* endpoint of one open is lost (NoOrphanEndpoint), and with two destroys  *)
(* the device is freed too early.                                          *)
(***************************************************************************)
EXTENDS RpmsgChar, FiniteSetTheorems, TLAPS

\* No two files at a time, and one destroy.
OneFile == (\A f, g \in Files : f = g) /\ OneDestroy

(***************************************************************************)
(* Who has the file, the lock and the device.  A call that opens or closes *)
(* the file has it for itself.                                             *)
(***************************************************************************)
Reading    == {"r_queue", "r_wait", "r_check", "r_sleep", "r_ept", "r_take"}
Ordinary   == Reading \cup {"w_lock", "p_ept"}
Apart      == {"o_set", "c_lock", "c_ept", "c_purge"}
Destroying == {"d_lock", "d_ept", "d_wake", "d_del"}
Holding    == {"c_ept", "d_ept", "w_send"}

PlaceInv ==
  /\ \A t \in Threads : IF pc[t] = "idle" THEN file[t] = None ELSE file[t] \in Files
  /\ pc[Parent] \in Destroying \cup {"idle"} /\ file[Parent] = None
  /\ \A t \in Threads : pc[t] \in Apart =>
       open = {} /\ \A u \in Threads : u # t => pc[u] = "idle"
  /\ \A t \in Threads : pc[t] \notin Apart \cup {"idle"} => open # {}
  /\ \A t \in Callers : lock = t <=> pc[t] \in Holding

InUse == open # {} \/ \E t \in Threads : pc[t] \in Apart

\* The device has a reference until it is destroyed, and one for its file.
RefInv ==
  /\ destroys \in {0, 1} /\ (destroys = 0 => registered)
  /\ \A t \in Callers : pc[t] \in Destroying =>
       destroys = 1 /\ registered /\ \A u \in Callers : u # t => pc[u] \notin Destroying
  /\ refs = (IF registered THEN 1 ELSE 0) + (IF InUse THEN 1 ELSE 0)

\* Every endpoint is the one stored, or the one an open is about to store.
EptInv ==
  /\ eptptr # None => eptptr \in live
                      /\ (open # {} \/ \E t \in Threads : pc[t] \in {"c_lock", "c_ept"})
  /\ \A t \in Threads : pc[t] = "o_set" => lept[t] \in live /\ eptptr = None
  /\ \A e \in live : e = eptptr \/ \E t \in Threads : pc[t] = "o_set" /\ lept[t] = e
  /\ \A t \in Threads : pc[t] = "w_send" => lept[t] = eptptr /\ eptptr # None
  /\ cb # None => cb \in live
  /\ cb = None <=> cbPc = "idle"

\* Messages are of the endpoint there is, and none are left when it is closed.
QueueInv ==
  \A i \in DOMAIN queue :
    /\ InUse
    /\ eptptr # None => queue[i] = eptptr
    /\ \A t \in Threads : pc[t] = "o_set" => queue[i] = lept[t]

Inv == TypeOK /\ PlaceInv /\ RefInv /\ EptInv /\ QueueInv

USE CharAssumption DEF CharAssumption

LEMMA InvInit == Init => Inv
<1> SUFFICES ASSUME Init PROVE Inv
  OBVIOUS
<1>1. TypeOK
  BY DEF Init, TypeOK, Labels, Callers
<1>2. PlaceInv /\ RefInv /\ EptInv /\ QueueInv
  BY DEF Init, PlaceInv, RefInv, EptInv, QueueInv, InUse, Callers, Apart, Holding, Destroying
<1> QED
  BY <1>1, <1>2 DEF Inv

(***************************************************************************)
(* Types.                                                                  *)
(***************************************************************************)
LEMMA Queues ==
  ASSUME NEW q, q \in Seq(Epts), Len(q) <= MaxQueue
  PROVE  /\ q # <<>> => /\ Tail(q) \in Seq(Epts) /\ Len(Tail(q)) <= MaxQueue
                        /\ DOMAIN Tail(q) = 1 .. Len(q) - 1
                        /\ \A i \in DOMAIN Tail(q) : i + 1 \in DOMAIN q /\ Tail(q)[i] = q[i + 1]
         /\ \A e \in Epts : Len(q) < MaxQueue =>
              /\ Append(q, e) \in Seq(Epts) /\ Len(Append(q, e)) <= MaxQueue
              /\ \A i \in DOMAIN Append(q, e) :
                   IF i \in DOMAIN q THEN Append(q, e)[i] = q[i] ELSE Append(q, e)[i] = e
OBVIOUS

\* TypeOK without the count of references.
Shape ==
  /\ eptptr \in Epts \cup {None} /\ lock \in Callers \cup {None}
  /\ queue \in Seq(Epts) /\ Len(queue) <= MaxQueue
  /\ registered \in BOOLEAN /\ destroys \in Nat
  /\ live \subseteq Epts /\ cb \in Epts \cup {None}
  /\ cbPc \in {"idle", "queue", "wake"}
  /\ open \subseteq Files
  /\ pc \in [Callers -> Labels]
  /\ file \in [Callers -> Files \cup {None}]
  /\ lept \in [Callers -> Epts \cup {None}]
  /\ woken \in [Callers -> BOOLEAN]
  /\ ret \in [Callers -> {"none", "ok", "data", "EINVAL", "EPIPE", "EAGAIN", "EFAULT",
                          "ERESTARTSYS", "ENOMEM", "EPOLLERR", "EPOLLIN", "0"}]

LEMMA TypeIsShape == TypeOK <=> Shape /\ refs \in Nat
BY DEF TypeOK, Shape

LEMMA ShapeStep ==
  ASSUME Shape, \A t \in Threads : pc[t] # "idle" => file[t] \in Files,
         cbPc = "queue" => cb # None, [Next]_vars
  PROVE  Shape'
<1>0. Shape
  OBVIOUS
<1> USE DEF Shape, Labels, Callers, Start, Return, Goto, devVars, busVars, threadVars
<1>1. ASSUME NEW t \in Threads, NEW f \in Files, Open(t, f) \/ OpenFails(t, f)
      PROVE  Shape'
  BY <1>0, <1>1 DEF Open, OpenFails
<1>2. ASSUME NEW t \in Threads, NEW f \in Files, Release(t, f) \/ Destroy(t, f)
      PROVE  Shape'
  BY <1>0, <1>2 DEF Release, Destroy
<1>3. ASSUME NEW t \in Threads, NEW f \in Files, Read(t, f) \/ Write(t, f) \/ Poll(t, f)
      PROVE  Shape'
  BY <1>0, <1>3 DEF Read, Write, Poll
<1>4. ASSUME NEW t \in Threads, OpenSet(t)
      PROVE  Shape'
  BY <1>0, <1>4 DEF OpenSet
<1>5. ASSUME NEW t \in Threads, ReleasePut(t)
      PROVE  Shape'
  BY <1>0, <1>5 DEF ReleasePut, ReleasePurge
<1>6. ASSUME NEW t \in Threads, ReadQueue(t) \/ ReadTake(t)
      PROVE  Shape'
  <2>1. queue' = queue \/ (queue # <<>> /\ queue' = Tail(queue))
    BY <1>6 DEF ReadQueue, ReadTake, Dequeue
  <2>2. queue' \in Seq(Epts) /\ Len(queue') <= MaxQueue
    <3>1. queue \in Seq(Epts) /\ Len(queue) <= MaxQueue
      BY <1>0
    <3> HIDE DEF Shape
    <3> QED
      BY <2>1, <3>1, Queues
  <2>3. ret' \in [Callers -> {"none", "ok", "data", "EINVAL", "EPIPE", "EAGAIN", "EFAULT",
                              "ERESTARTSYS", "ENOMEM", "EPOLLERR", "EPOLLIN", "0"}]
    BY <1>0, <1>6 DEF ReadQueue, ReadTake, Dequeue
  <2>4. pc' \in [Callers -> Labels] /\ file' \in [Callers -> Files \cup {None}]
    BY <1>0, <1>6 DEF ReadQueue, ReadTake, Dequeue
  <2> QED
    BY <1>0, <1>6, <2>2, <2>3, <2>4 DEF ReadQueue, ReadTake
<1>7. ASSUME NEW t \in Threads, ReadPrepare(t) \/ ReadCheck(t) \/ ReadWake(t) \/ ReadEpt(t)
      PROVE  Shape'
  BY <1>0, <1>7 DEF ReadPrepare, ReadCheck, ReadWake, ReadEpt
<1>8. ASSUME NEW t \in Threads, WriteLock(t) \/ WriteSent(t) \/ PollEpt(t)
      PROVE  Shape'
  BY <1>0, <1>8 DEF WriteLock, WriteSent, PollEpt
<1>9. ASSUME ParentRemove
      PROVE  Shape'
  BY <1>0, <1>9 DEF ParentRemove
<1>10. ASSUME NEW t \in Callers, LockEpt(t) \/ CloseEpt(t)
       PROVE  Shape'
  BY <1>0, <1>10 DEF LockEpt, CloseEpt, DestroyTheEpt
<1>11. ASSUME NEW t \in Callers, DestroyWake(t)
       PROVE  Shape'
  BY <1>0, <1>11 DEF DestroyWake, DestroyWakes, WakeReaders
<1>12. ASSUME NEW t \in Callers, DestroyDel(t)
       PROVE  Shape'
  BY <1>0, <1>12 DEF DestroyDel
<1>13. ASSUME NEW e \in Epts, CbStart(e)
       PROVE  Shape'
  BY <1>0, <1>13 DEF CbStart
<1>14. ASSUME CbQueue
       PROVE  Shape'
  <2>1. cb \in Epts
    BY <1>14 DEF CbQueue
  <2> QED
    <3>1. queue' \in Seq(Epts) /\ Len(queue') <= MaxQueue
      <4>1. queue \in Seq(Epts) /\ Len(queue) <= MaxQueue
        BY <1>0
      <4>2. queue' = queue \/ (Len(queue) < MaxQueue /\ queue' = Append(queue, cb))
        BY <1>14 DEF CbQueue
      <4> HIDE DEF Shape
      <4> QED
        BY <2>1, <4>1, <4>2, Queues
    <3> QED
      BY <1>0, <1>14, <3>1 DEF CbQueue
<1>15. ASSUME CbWake
       PROVE  Shape'
  BY <1>0, <1>15 DEF CbWake, WakeReaders
<1>16. CASE UNCHANGED vars
  BY <1>0, <1>16 DEF vars
<1> QED
  BY <1>1, <1>2, <1>3, <1>4, <1>5, <1>6, <1>7, <1>8, <1>9, <1>10, <1>11, <1>12, <1>13, <1>14,
     <1>15, <1>16 DEF Next, CallSteps, ReadSteps, CloseSteps, DestroySteps

\* What a step does to the count.
LEMMA RefsStep ==
  ASSUME [Next]_vars
  PROVE  \/ refs' = refs
         \/ \E t \in Threads, f \in Files : Open(t, f) /\ refs' = refs + 1
         \/ \E t \in Threads : ReleasePut(t) /\ refs' = refs - 1
         \/ \E t \in Callers : DestroyDel(t) /\ refs' = refs - 1
<1>1. ASSUME NEW t \in Threads, CallSteps(t) PROVE refs' = refs \/ (ReleasePut(t) /\ refs' = refs - 1)
  BY <1>1 DEF CallSteps, OpenSet, ReleasePut, ReadSteps, ReadQueue, ReadPrepare, ReadCheck,
              ReadWake, ReadEpt, ReadTake, WriteLock, WriteSent, PollEpt, devVars
<1>2. ASSUME NEW t \in Threads, NEW f \in Files,
             Open(t, f) \/ OpenFails(t, f) \/ Release(t, f) \/ Read(t, f) \/ Write(t, f)
               \/ Poll(t, f) \/ Destroy(t, f)
      PROVE  refs' = refs \/ (Open(t, f) /\ refs' = refs + 1)
  BY <1>2 DEF Open, OpenFails, Release, Read, Write, Poll, Destroy, devVars
<1>3. ASSUME NEW t \in Callers, CloseSteps(t) \/ DestroySteps(t)
      PROVE  refs' = refs \/ (DestroyDel(t) /\ refs' = refs - 1)
  BY <1>3 DEF CloseSteps, DestroySteps, LockEpt, CloseEpt, DestroyWake, DestroyDel, devVars
<1>4. ASSUME ParentRemove \/ (\E e \in Epts : CbStart(e)) \/ CbQueue \/ CbWake \/ UNCHANGED vars
      PROVE  refs' = refs
  BY <1>4 DEF ParentRemove, CbStart, CbQueue, CbWake, devVars, vars
<1> QED
  BY <1>1, <1>2, <1>3, <1>4 DEF Next

LEMMA TypeStep ==
  ASSUME Inv, [Next]_vars
  PROVE  TypeOK'
<1>0. TypeOK /\ PlaceInv /\ RefInv /\ EptInv /\ Shape /\ refs \in Nat
  BY TypeIsShape DEF Inv
<1>1. Shape'
  BY <1>0, ShapeStep DEF PlaceInv, EptInv
<1>2. ASSUME NEW t \in Threads, ReleasePut(t) PROVE refs - 1 \in Nat
  BY <1>0, <1>2 DEF ReleasePut, RefInv, InUse, Apart
<1>3. ASSUME NEW t \in Callers, DestroyDel(t) PROVE refs - 1 \in Nat
  BY <1>0, <1>3 DEF DestroyDel, RefInv, Destroying
<1>4. refs' \in Nat
  BY <1>0, <1>2, <1>3, RefsStep
<1> QED
  BY <1>1, <1>4, TypeIsShape DEF TypeOK, Shape

(***************************************************************************)
(* The steps.                                                              *)
(***************************************************************************)
Rest == PlaceInv /\ RefInv /\ EptInv /\ QueueInv

\* What the code does in calls that leave the device and its endpoint alone.
Quiet(t) ==
  /\ UNCHANGED <<eptptr, lock, refs, registered, destroys, live, cb, cbPc, open, lept>>
  /\ \A u \in Callers : u # t => pc'[u] = pc[u] /\ file'[u] = file[u]
  /\ \/ pc'[t] = pc[t] /\ file'[t] = file[t]
     \/ /\ pc[t] \in Ordinary \cup {"idle"} /\ pc'[t] \in Ordinary \cup {"idle"}
        /\ IF pc'[t] = "idle" THEN file'[t] = None ELSE file'[t] \in Files /\ open # {}
  /\ queue' = queue \/ (queue # <<>> /\ queue' = Tail(queue))

LEMMA TailQueue ==
  ASSUME TypeOK, QueueInv, InUse' <=> InUse, UNCHANGED <<eptptr, lept>>,
         \A u \in Threads : pc'[u] = "o_set" <=> pc[u] = "o_set",
         queue' = queue \/ (queue # <<>> /\ queue' = Tail(queue))
  PROVE  QueueInv'
<1>1. queue \in Seq(Epts) /\ Len(queue) <= MaxQueue
  BY DEF TypeOK
<1>2. ASSUME NEW i \in DOMAIN queue' PROVE \E j \in DOMAIN queue : queue'[i] = queue[j]
  BY <1>1, <1>2, Queues
<1> QED
  BY <1>2 DEF QueueInv

LEMMA QuietStep ==
  ASSUME Inv, NEW t \in Threads, Quiet(t)
  PROVE  Rest'
<1>0. TypeOK /\ PlaceInv /\ RefInv /\ EptInv /\ QueueInv /\ t \in Callers /\ t # Parent
  BY DEF Inv, Callers
<1>1. \A u \in Callers : /\ u = t \/ pc'[u] = pc[u]
                         /\ \A a \in Apart \cup Destroying \cup Holding : pc'[u] = a <=> pc[u] = a
  BY <1>0 DEF Quiet, Apart, Destroying, Holding, Ordinary, Reading
<1>2. InUse' <=> InUse
  BY <1>0, <1>1 DEF InUse, Quiet, Callers
<1>3. PlaceInv'
  BY <1>0, <1>1 DEF PlaceInv, Quiet, Callers, Ordinary, Reading, Apart, Destroying, Holding
<1>4. RefInv'
  BY <1>0, <1>1, <1>2 DEF RefInv, Quiet, Callers
<1>5. EptInv'
  BY <1>0, <1>1 DEF EptInv, Quiet, Callers, Apart, Holding
<1>6. QueueInv'
  <2>1. \A u \in Threads : pc'[u] = "o_set" <=> pc[u] = "o_set"
    BY <1>1 DEF Callers, Apart
  <2> QED
    BY <1>0, <1>2, <2>1, TailQueue DEF Quiet
<1> QED
  BY <1>3, <1>4, <1>5, <1>6 DEF Rest

LEMMA ReadQuiet ==
  ASSUME Inv, NEW t \in Threads, ReadSteps(t)
  PROVE  Quiet(t)
<1>0. TypeOK /\ PlaceInv /\ t \in Callers
  BY DEF Inv, Callers
<1> USE DEF Quiet, Return, Goto, TypeOK, busVars, devVars, Ordinary, Reading
<1>1. pc[t] \in Reading => file[t] \in Files /\ open # {}
  BY <1>0 DEF PlaceInv, Apart
<1>2. CASE ReadQueue(t)
  BY <1>0, <1>1, <1>2 DEF ReadQueue, Dequeue
<1>3. CASE ReadPrepare(t)
  BY <1>0, <1>1, <1>3 DEF ReadPrepare
<1>4. CASE ReadCheck(t)
  BY <1>0, <1>1, <1>4 DEF ReadCheck
<1>5. CASE ReadWake(t)
  BY <1>0, <1>1, <1>5 DEF ReadWake
<1>6. CASE ReadEpt(t)
  BY <1>0, <1>1, <1>6 DEF ReadEpt
<1>7. CASE ReadTake(t)
  BY <1>0, <1>1, <1>7 DEF ReadTake, Dequeue
<1> QED
  BY <1>2, <1>3, <1>4, <1>5, <1>6, <1>7 DEF ReadSteps

LEMMA CallQuiet ==
  ASSUME Inv, NEW t \in Threads, NEW f \in Files,
         OpenFails(t, f) \/ Read(t, f) \/ Write(t, f) \/ Poll(t, f) \/ PollEpt(t)
  PROVE  Quiet(t)
<1>0. TypeOK /\ PlaceInv /\ t \in Callers
  BY DEF Inv, Callers
<1> USE DEF Quiet, Start, Return, Goto, TypeOK, busVars, devVars, Ordinary, Reading
<1>1. CASE OpenFails(t, f)
  BY <1>0, <1>1 DEF OpenFails
<1>2. CASE Read(t, f)
  BY <1>0, <1>2 DEF Read
<1>3. CASE Write(t, f)
  BY <1>0, <1>3 DEF Write
<1>4. CASE Poll(t, f)
  BY <1>0, <1>4 DEF Poll
<1>5. CASE PollEpt(t)
  BY <1>0, <1>5 DEF PollEpt
<1> QED
  BY <1>1, <1>2, <1>3, <1>4, <1>5

\* An open has the file for itself, and its endpoint is the only one.
LEMMA OpenStep ==
  ASSUME Inv, OneFile, NEW t \in Threads, NEW f \in Files, Open(t, f)
  PROVE  Rest'
<1>0. TypeOK /\ PlaceInv /\ RefInv /\ EptInv /\ QueueInv /\ t \in Callers /\ t # Parent
  BY DEF Inv, Callers
<1> PICK e \in Epts \ live : live' = live \cup {e} /\ lept' = [lept EXCEPT ![t] = e]
  BY DEF Open
<1>1. /\ open = {} /\ \A u \in Threads : pc[u] = "idle"
  <2>1. f \notin open /\ \A u \in Threads : file[u] # f
    BY DEF Open, Busy
  <2> QED
    BY <1>0, <2>1 DEF OneFile, PlaceInv, TypeOK
<1>2. /\ pc' = [pc EXCEPT ![t] = "o_set"] /\ file' = [file EXCEPT ![t] = f] /\ refs' = refs + 1
      /\ UNCHANGED <<eptptr, lock, queue, registered, destroys, cb, cbPc, open>>
  BY DEF Open, Start, Goto
<1>3. ~InUse /\ InUse'
  BY <1>0, <1>1, <1>2 DEF InUse, Apart, TypeOK
<1>4. PlaceInv'
  BY <1>0, <1>1, <1>2 DEF PlaceInv, TypeOK, Callers, Apart, Holding, Destroying
<1>5. RefInv'
  BY <1>0, <1>2, <1>3 DEF RefInv, TypeOK, Callers, Destroying
<1>6. EptInv'
  BY <1>0, <1>1, <1>2 DEF EptInv, TypeOK, Callers
<1>7. QueueInv'
  BY <1>0, <1>2, <1>3 DEF QueueInv
<1> QED
  BY <1>4, <1>5, <1>6, <1>7 DEF Rest

LEMMA OpenSetStep ==
  ASSUME Inv, NEW t \in Threads, OpenSet(t)
  PROVE  Rest'
<1>0. TypeOK /\ PlaceInv /\ RefInv /\ EptInv /\ QueueInv /\ t \in Callers /\ t # Parent
  BY DEF Inv, Callers
<1>1. /\ pc[t] = "o_set" /\ pc' = [pc EXCEPT ![t] = "idle"] /\ file' = [file EXCEPT ![t] = None]
      /\ eptptr' = lept[t] /\ lept' = [lept EXCEPT ![t] = None] /\ open' = open \cup {file[t]}
      /\ UNCHANGED <<lock, queue, refs, registered, destroys, live, cb, cbPc>>
  BY DEF OpenSet, Return, Goto, busVars
<1>2. /\ open = {} /\ file[t] \in Files /\ \A u \in Threads : u # t => pc[u] = "idle"
  BY <1>0, <1>1 DEF PlaceInv, Apart
<1>3. InUse /\ InUse' /\ open' # {}
  BY <1>1, <1>2 DEF InUse, Apart
<1>4. PlaceInv'
  BY <1>0, <1>1, <1>2, <1>3 DEF PlaceInv, TypeOK, Callers, Apart, Holding, Destroying
<1>5. RefInv'
  BY <1>0, <1>1, <1>3 DEF RefInv, TypeOK, Callers, Destroying
<1>6. EptInv'
  BY <1>0, <1>1, <1>2, <1>3 DEF EptInv, TypeOK, Callers
<1>7. QueueInv'
  BY <1>0, <1>1, <1>2, <1>3 DEF QueueInv, TypeOK, Callers
<1> QED
  BY <1>4, <1>5, <1>6, <1>7 DEF Rest

\* So has a release, which takes the endpoint and what it has queued.
LEMMA ReleaseStep ==
  ASSUME Inv, OneFile, NEW t \in Threads, NEW f \in Files, Release(t, f)
  PROVE  Rest'
<1>0. TypeOK /\ PlaceInv /\ RefInv /\ EptInv /\ QueueInv /\ t \in Callers /\ t # Parent
  BY DEF Inv, Callers
<1>1. /\ open = {f} /\ \A u \in Threads : pc[u] = "idle"
  <2>1. f \in open /\ \A u \in Threads : file[u] # f
    BY DEF Release, Busy
  <2> QED
    BY <1>0, <2>1 DEF OneFile, PlaceInv, TypeOK
<1>2. /\ pc' = [pc EXCEPT ![t] = "c_lock"] /\ file' = [file EXCEPT ![t] = f] /\ open' = {}
      /\ UNCHANGED <<eptptr, lock, queue, refs, registered, destroys, live, cb, cbPc, lept>>
  BY <1>1 DEF Release, Start, Goto, devVars, busVars
<1>3. InUse /\ InUse'
  BY <1>0, <1>1, <1>2 DEF InUse, Apart, TypeOK
<1>4. PlaceInv'
  BY <1>0, <1>1, <1>2 DEF PlaceInv, TypeOK, Callers, Apart, Holding, Destroying
<1>5. RefInv'
  BY <1>0, <1>2, <1>3 DEF RefInv, TypeOK, Callers, Destroying
<1>6. EptInv'
  BY <1>0, <1>1, <1>2 DEF EptInv, TypeOK, Callers
<1>7. QueueInv'
  BY <1>0, <1>1, <1>2, <1>3 DEF QueueInv, TypeOK, Callers
<1> QED
  BY <1>4, <1>5, <1>6, <1>7 DEF Rest

LEMMA ReleasePutStep ==
  ASSUME Inv, NEW t \in Threads, ReleasePut(t)
  PROVE  Rest'
<1>0. TypeOK /\ PlaceInv /\ RefInv /\ EptInv /\ QueueInv /\ t \in Callers /\ t # Parent
  BY DEF Inv, Callers
<1>1. /\ pc[t] = "c_purge" /\ pc' = [pc EXCEPT ![t] = "idle"] /\ file' = [file EXCEPT ![t] = None]
      /\ queue' = <<>> /\ refs' = refs - 1
      /\ UNCHANGED <<eptptr, lock, registered, destroys, live, cb, cbPc, open, lept>>
  BY DEF ReleasePut, ReleasePurge, Return, Goto, busVars
<1>2. /\ open = {} /\ \A u \in Threads : u # t => pc[u] = "idle"
  BY <1>0, <1>1 DEF PlaceInv, Apart
<1>3. InUse /\ ~InUse'
  BY <1>0, <1>1, <1>2 DEF InUse, Apart, TypeOK, Callers
<1>4. PlaceInv'
  BY <1>0, <1>1, <1>2 DEF PlaceInv, TypeOK, Callers, Apart, Holding, Destroying
<1>5. RefInv'
  BY <1>0, <1>1, <1>3 DEF RefInv, TypeOK, Callers, Destroying
<1>6. EptInv'
  BY <1>0, <1>1, <1>2 DEF EptInv, TypeOK, Callers
<1>7. QueueInv'
  BY <1>1 DEF QueueInv
<1> QED
  BY <1>4, <1>5, <1>6, <1>7 DEF Rest

\* A write holds ept_lock and with it the endpoint.
LEMMA WriteStep ==
  ASSUME Inv, NEW t \in Threads, WriteLock(t) \/ WriteSent(t)
  PROVE  Rest'
<1>0. TypeOK /\ PlaceInv /\ RefInv /\ EptInv /\ QueueInv /\ t \in Callers /\ t # Parent
  BY DEF Inv, Callers
<1>1. pc[t] \in {"w_lock", "w_send"} /\ open # {} /\ file[t] \in Files
      /\ UNCHANGED <<eptptr, queue, refs, registered, destroys, live, cb, cbPc, open>>
  BY <1>0 DEF WriteLock, WriteSent, PlaceInv, Apart, busVars
<1>2. \/ /\ pc[t] = "w_lock" /\ pc' = [pc EXCEPT ![t] = "idle"]
         /\ file' = [file EXCEPT ![t] = None] /\ UNCHANGED <<lock, lept>>
      \/ /\ pc[t] = "w_lock" /\ lock = None /\ eptptr # None /\ lock' = t
         /\ lept' = [lept EXCEPT ![t] = eptptr] /\ pc' = [pc EXCEPT ![t] = "w_send"]
         /\ file' = file
      \/ /\ pc[t] = "w_send" /\ lock' = None /\ lept' = [lept EXCEPT ![t] = None]
         /\ pc' = [pc EXCEPT ![t] = "idle"] /\ file' = [file EXCEPT ![t] = None]
  BY DEF WriteLock, WriteSent, Return, Goto
<1>3. \A u \in Threads : pc[u] \notin Apart /\ pc'[u] \notin Apart
  BY <1>0, <1>1, <1>2 DEF PlaceInv, TypeOK, Callers, Apart
<1>4. InUse /\ InUse'
  BY <1>1 DEF InUse
<1>5. PlaceInv'
  BY <1>0, <1>1, <1>2, <1>3 DEF PlaceInv, TypeOK, Callers, Apart, Holding, Destroying
<1>6. RefInv'
  BY <1>0, <1>1, <1>2, <1>4 DEF RefInv, TypeOK, Callers, Destroying
<1>7. EptInv'
  BY <1>0, <1>1, <1>2, <1>3 DEF EptInv, TypeOK, Callers, Apart
<1>8. QueueInv'
  BY <1>0, <1>1, <1>3, <1>4 DEF QueueInv, Apart
<1> QED
  BY <1>5, <1>6, <1>7, <1>8 DEF Rest

\* The one destroy starts, by the ioctl or by the removal of the channel.
LEMMA DestroyStep ==
  ASSUME Inv, OneFile, NEW t \in Callers,
         (t = Parent /\ ParentRemove) \/ (t # Parent /\ \E f \in Files : Destroy(t, f))
  PROVE  Rest'
<1>0. TypeOK /\ PlaceInv /\ RefInv /\ EptInv /\ QueueInv /\ Parent \notin Threads
  BY DEF Inv
<1>1. /\ pc[t] = "idle" /\ pc' = [pc EXCEPT ![t] = "d_lock"] /\ destroys = 0 /\ destroys' = 1
      /\ UNCHANGED <<eptptr, lock, queue, refs, registered, live, cb, cbPc, open, lept>>
  BY <1>0 DEF ParentRemove, Destroy, MayDestroy, OneFile, Start, Goto, busVars
<1>2. IF t = Parent THEN file' = file
      ELSE t \in Threads /\ open # {} /\ \E f \in Files : file' = [file EXCEPT ![t] = f]
  BY <1>0 DEF ParentRemove, Destroy, Start, PlaceInv, TypeOK, Callers
<1>3. InUse' <=> InUse
  BY <1>0, <1>1 DEF InUse, Apart, TypeOK, Callers
<1>4. PlaceInv'
  BY <1>0, <1>1, <1>2 DEF PlaceInv, TypeOK, Callers, Apart, Holding, Destroying
<1>5. RefInv'
  BY <1>0, <1>1, <1>3 DEF RefInv, TypeOK, Callers, Destroying
<1>6. EptInv'
  BY <1>0, <1>1 DEF EptInv, TypeOK, Callers
<1>7. QueueInv'
  BY <1>0, <1>1, <1>3 DEF QueueInv, TypeOK, Callers
<1> QED
  BY <1>4, <1>5, <1>6, <1>7 DEF Rest

\* A caller that closes or destroys waits for ept_lock ...
LEMMA LockStep ==
  ASSUME Inv, NEW t \in Callers, LockEpt(t)
  PROVE  Rest'
<1>0. TypeOK /\ PlaceInv /\ RefInv /\ EptInv /\ QueueInv /\ Parent \notin Threads
  BY DEF Inv
<1>1. /\ lock = None /\ lock' = t
      /\ \/ pc[t] = "c_lock" /\ pc' = [pc EXCEPT ![t] = "c_ept"]
         \/ pc[t] = "d_lock" /\ pc' = [pc EXCEPT ![t] = "d_ept"]
      /\ UNCHANGED <<eptptr, queue, refs, registered, destroys, live, cb, cbPc, open, file, lept>>
  BY DEF LockEpt, Goto, busVars
<1>2. InUse' <=> InUse
  BY <1>0, <1>1 DEF InUse, Apart, TypeOK, Callers
<1>3. PlaceInv'
  BY <1>0, <1>1 DEF PlaceInv, TypeOK, Callers, Apart, Holding, Destroying
<1>4. RefInv'
  BY <1>0, <1>1, <1>2 DEF RefInv, TypeOK, Callers, Destroying
<1>5. EptInv'
  BY <1>0, <1>1 DEF EptInv, TypeOK, Callers
<1>6. QueueInv'
  BY <1>0, <1>1, <1>2 DEF QueueInv, TypeOK, Callers
<1> QED
  BY <1>3, <1>4, <1>5, <1>6 DEF Rest

\* ... and takes the endpoint when its callback does not run.
LEMMA CloseEptStep ==
  ASSUME Inv, NEW t \in Callers, CloseEpt(t)
  PROVE  Rest'
<1>0. TypeOK /\ PlaceInv /\ RefInv /\ EptInv /\ QueueInv /\ Parent \notin Threads
  BY DEF Inv
<1>1. /\ lock' = None /\ (eptptr # None => cb # eptptr) /\ live' = live \ {eptptr} /\ eptptr' = None
      /\ \/ pc[t] = "c_ept" /\ pc' = [pc EXCEPT ![t] = "c_purge"]
         \/ pc[t] = "d_ept" /\ pc' = [pc EXCEPT ![t] = "d_wake"]
      /\ UNCHANGED <<queue, refs, registered, destroys, cb, cbPc, open, file, lept>>
  BY DEF CloseEpt, DestroyTheEpt, Goto
<1>2. \A u \in Callers : u = t \/ pc'[u] = pc[u]
  BY <1>0, <1>1 DEF TypeOK
<1>3. \A u \in Threads : (pc'[u] = "o_set" <=> pc[u] = "o_set") /\ pc[u] # "w_send"
  <2>1. lock = t
    BY <1>0, <1>1 DEF PlaceInv, Holding
  <2> QED
    BY <1>0, <1>1, <1>2, <2>1 DEF PlaceInv, Holding, TypeOK, Callers
<1>4. InUse' <=> InUse
  BY <1>0, <1>1 DEF InUse, Apart, TypeOK, Callers
<1>5. PlaceInv'
  BY <1>0, <1>1 DEF PlaceInv, TypeOK, Callers, Apart, Holding, Destroying
<1>6. RefInv'
  BY <1>0, <1>1, <1>4 DEF RefInv, TypeOK, Callers, Destroying
<1>7. EptInv'
  <2>1. \A u \in Threads : pc'[u] # "w_send"
    BY <1>0, <1>1, <1>2, <1>3 DEF TypeOK, Callers
  <2>2. \A u \in Threads : pc[u] = "o_set" => lept[u] \in live' /\ \A e \in live : e = lept[u]
    <3>1. ASSUME NEW u \in Threads, pc[u] = "o_set"
          PROVE  eptptr = None /\ lept[u] \in live /\ \A e \in live : e = lept[u]
      BY <1>0, <3>1 DEF EptInv, PlaceInv, Apart, TypeOK
    <3> QED
      BY <1>0, <1>1, <3>1 DEF TypeOK
  <2> QED
    BY <1>0, <1>1, <1>3, <2>1, <2>2 DEF EptInv
<1>8. QueueInv'
  BY <1>0, <1>1, <1>3, <1>4 DEF QueueInv
<1> QED
  BY <1>5, <1>6, <1>7, <1>8 DEF Rest

\* The destroy wakes the readers, and drops the reference.
LEMMA DestroyEndStep ==
  ASSUME Inv, NEW t \in Callers, DestroyWake(t) \/ DestroyDel(t)
  PROVE  Rest'
<1>0. TypeOK /\ PlaceInv /\ RefInv /\ EptInv /\ QueueInv /\ Parent \notin Threads
  BY DEF Inv
<1>1. /\ \/ /\ pc[t] = "d_wake" /\ pc' = [pc EXCEPT ![t] = "d_del"]
            /\ UNCHANGED <<registered, refs, file>>
         \/ /\ pc[t] = "d_del" /\ pc' = [pc EXCEPT ![t] = "idle"] /\ registered' = FALSE
            /\ refs' = refs - 1 /\ file' = [file EXCEPT ![t] = None]
      /\ UNCHANGED <<eptptr, lock, queue, destroys, live, cb, cbPc, open, lept>>
  BY DEF DestroyWake, DestroyDel, Return, Goto, devVars, busVars
<1>2. InUse' <=> InUse
  BY <1>0, <1>1 DEF InUse, Apart, TypeOK, Callers
<1>3. PlaceInv'
  BY <1>0, <1>1 DEF PlaceInv, TypeOK, Callers, Apart, Holding, Destroying
<1>4. RefInv'
  BY <1>0, <1>1, <1>2 DEF RefInv, TypeOK, Callers, Destroying
<1>5. EptInv'
  BY <1>0, <1>1 DEF EptInv, TypeOK, Callers
<1>6. QueueInv'
  BY <1>0, <1>1, <1>2 DEF QueueInv, TypeOK, Callers
<1> QED
  BY <1>3, <1>4, <1>5, <1>6 DEF Rest

\* The callback runs for the one endpoint that is live.
LEMMA CbStep ==
  ASSUME Inv, (\E e \in Epts : CbStart(e)) \/ CbQueue \/ CbWake
  PROVE  Rest'
<1>0. TypeOK /\ PlaceInv /\ RefInv /\ EptInv /\ QueueInv
  BY DEF Inv
<1>1. UNCHANGED <<eptptr, lock, refs, registered, destroys, live, open, pc, file, lept>>
  BY DEF CbStart, CbQueue, CbWake, devVars, threadVars
<1>2. InUse' <=> InUse
  BY <1>1 DEF InUse
<1>3. PlaceInv' /\ RefInv'
  BY <1>0, <1>1, <1>2 DEF PlaceInv, RefInv
<1>4. EptInv'
  BY <1>0, <1>1 DEF EptInv, CbStart, CbQueue, CbWake
<1>5. QueueInv'
  <2>1. CASE queue' = queue
    BY <1>0, <1>1, <1>2, <2>1 DEF QueueInv
  <2>2. CASE cb \in live /\ Len(queue) < MaxQueue /\ queue' = Append(queue, cb)
    <3>1. /\ InUse /\ (eptptr # None => cb = eptptr)
          /\ \A u \in Threads : pc[u] = "o_set" => cb = lept[u]
      BY <1>0, <2>2 DEF EptInv, InUse, PlaceInv, Apart, TypeOK
    <3>2. queue \in Seq(Epts) /\ cb \in Epts
      BY <1>0, <2>2 DEF TypeOK
    <3>3. \A i \in DOMAIN queue' : (i \in DOMAIN queue /\ queue'[i] = queue[i]) \/ queue'[i] = cb
      BY <2>2, <3>2
    <3> QED
      BY <1>0, <1>1, <1>2, <3>1, <3>3 DEF QueueInv
  <2>3. queue' = queue \/ (cb \in live /\ Len(queue) < MaxQueue /\ queue' = Append(queue, cb))
    BY <1>0 DEF CbStart, CbQueue, CbWake, devVars, EptInv
  <2> QED
    BY <2>1, <2>2, <2>3
<1> QED
  BY <1>3, <1>4, <1>5 DEF Rest

LEMMA InvStep ==
  ASSUME Inv, OneFile, [Next]_vars
  PROVE  Inv'
<1>1. TypeOK'
  BY TypeStep
<1>2. ASSUME NEW t \in Threads, NEW f \in Files,
             Open(t, f) \/ OpenFails(t, f) \/ Release(t, f) \/ Read(t, f) \/ Write(t, f) \/ Poll(t, f)
      PROVE  Rest'
  BY <1>2, OpenStep, ReleaseStep, CallQuiet, QuietStep
<1>3. ASSUME NEW t \in Threads, NEW f \in Files, Destroy(t, f)
      PROVE  Rest'
  <2>1. t \in Callers /\ t # Parent
    BY DEF Callers
  <2> QED
    BY <1>3, <2>1, DestroyStep
<1>4. ASSUME ParentRemove
      PROVE  Rest'
  BY <1>4, DestroyStep DEF Callers
<1>5. ASSUME NEW t \in Threads, CallSteps(t)
      PROVE  Rest'
  <2>1. CASE PollEpt(t)
    <3>1. file[t] \in Files
      BY <2>1 DEF PollEpt, Inv, PlaceInv
    <3> QED
      BY <2>1, <3>1, CallQuiet, QuietStep
  <2> QED
    BY <1>5, <2>1, OpenSetStep, ReleasePutStep, ReadQuiet, QuietStep, WriteStep DEF CallSteps
<1>6. ASSUME NEW t \in Callers, CloseSteps(t) \/ DestroySteps(t)
      PROVE  Rest'
  BY <1>6, LockStep, CloseEptStep, DestroyEndStep DEF CloseSteps, DestroySteps
<1>7. ASSUME (\E e \in Epts : CbStart(e)) \/ CbQueue \/ CbWake
      PROVE  Rest'
  BY <1>7, CbStep
<1>8. ASSUME UNCHANGED vars
      PROVE  Rest'
  BY <1>8 DEF Inv, Rest, PlaceInv, RefInv, InUse, EptInv, QueueInv, vars, devVars, busVars, threadVars
<1>9. Rest'
  BY <1>2, <1>3, <1>4, <1>5, <1>6, <1>7, <1>8 DEF Next
<1> QED
  BY <1>1, <1>9 DEF Inv, Rest

(***************************************************************************)
(* Readers.                                                                *)
(***************************************************************************)
Awaited == ~ReadCond \/ cbPc = "wake" \/ \E d \in Callers : pc[d] = "d_wake"

LEMMA ReaderStep ==
  ASSUME Inv, NoLostReader, [Next]_vars
  PROVE  NoLostReader'
<1>0. TypeOK /\ PlaceInv /\ Parent \notin Threads /\ \A t \in Threads : t \in Callers
  BY DEF Inv, Callers
<1> SUFFICES ASSUME NEW r \in Threads, pc'[r] = "r_sleep", ~woken'[r]
             PROVE  Awaited'
  BY DEF NoLostReader, Awaited
<1>1. pc[r] = "r_sleep" /\ ~woken[r] => Awaited
  BY DEF NoLostReader, Awaited
<1>2. ASSUME NEW t \in Threads, NEW f \in Files,
             Open(t, f) \/ OpenFails(t, f) \/ Release(t, f) \/ Read(t, f) \/ Write(t, f)
               \/ Poll(t, f) \/ Destroy(t, f)
      PROVE  Awaited'
  <2>1. UNCHANGED <<eptptr, queue, cbPc, woken>> /\ (pc[t] = "idle")
        /\ (pc' = pc \/ \E l \in Labels : l # "r_sleep" /\ pc' = [pc EXCEPT ![t] = l])
    BY <1>2 DEF Open, OpenFails, Release, Read, Write, Poll, Destroy, Start, Goto, Labels,
                devVars, busVars
  <2> QED
    BY <1>0, <1>1, <2>1 DEF Awaited, ReadCond, TypeOK
<1>3. ASSUME NEW t \in Threads, OpenSet(t) \/ ReleasePut(t)
      PROVE  Awaited'
  <2>1. pc[t] \in Apart /\ pc' = [pc EXCEPT ![t] = "idle"]
    BY <1>3 DEF OpenSet, ReleasePut, Return, Goto, Apart
  <2>2. pc'[r] = "idle"
    BY <1>0, <2>1 DEF PlaceInv, TypeOK
  <2> QED
    BY <2>2
<1>4. ASSUME NEW t \in Threads, WriteLock(t) \/ WriteSent(t) \/ PollEpt(t)
      PROVE  Awaited'
  <2>1. UNCHANGED <<eptptr, queue, cbPc, woken>> /\ pc[t] \in {"w_lock", "w_send", "p_ept"}
        /\ \E l \in {"idle", "w_send"} : pc' = [pc EXCEPT ![t] = l]
    BY <1>4 DEF WriteLock, WriteSent, PollEpt, Return, Goto, devVars, busVars
  <2> QED
    BY <1>0, <1>1, <2>1 DEF Awaited, ReadCond, TypeOK
<1>5. ASSUME NEW t \in Threads, ReadSteps(t)
      PROVE  Awaited'
  <2>1. UNCHANGED <<eptptr, cbPc>> /\ pc[t] \in Reading
        /\ (queue # <<>> \/ queue' = queue)
        /\ \E l \in Labels : pc' = [pc EXCEPT ![t] = l] /\ (l = "r_sleep" => ~ReadCond /\ queue' = queue)
    BY <1>5 DEF ReadSteps, ReadQueue, ReadPrepare, ReadCheck, ReadWake, ReadEpt, ReadTake,
                Dequeue, Return, Goto, Labels, Reading, devVars, busVars
  <2>2. CASE r = t
    BY <1>0, <2>1, <2>2 DEF Awaited, ReadCond, TypeOK
  <2>3. CASE r # t
    <3>1. pc[r] = "r_sleep"
      BY <1>0, <2>1, <2>3 DEF TypeOK
    <3>2. woken'[r] = woken[r]
      BY <1>0, <1>5, <2>3 DEF ReadSteps, ReadQueue, ReadPrepare, ReadCheck, ReadWake, ReadEpt,
                              ReadTake, TypeOK
    <3>3. \A d \in Callers : pc[d] = "d_wake" => pc'[d] = "d_wake"
      BY <1>0, <2>1 DEF TypeOK, Reading
    <3> QED
      BY <1>1, <2>1, <3>1, <3>2, <3>3 DEF Awaited, ReadCond
  <2> QED
    BY <2>2, <2>3
<1>6. ASSUME ParentRemove
      PROVE  Awaited'
  <2>1. UNCHANGED <<eptptr, queue, cbPc, woken>> /\ pc[Parent] = "idle"
        /\ pc' = [pc EXCEPT ![Parent] = "d_lock"]
    BY <1>6 DEF ParentRemove, Start, Goto, busVars
  <2> QED
    BY <1>0, <1>1, <2>1 DEF Awaited, ReadCond, TypeOK
<1>7. ASSUME NEW t \in Callers, LockEpt(t) \/ DestroyDel(t)
      PROVE  Awaited'
  <2>1. UNCHANGED <<eptptr, queue, cbPc, woken>> /\ pc[t] \in {"c_lock", "d_lock", "d_del"}
        /\ \E l \in {"c_ept", "d_ept", "idle"} : pc' = [pc EXCEPT ![t] = l]
    BY <1>7 DEF LockEpt, DestroyDel, Return, Goto, busVars
  <2> QED
    BY <1>0, <1>1, <2>1 DEF Awaited, ReadCond, TypeOK
<1>8. ASSUME NEW t \in Callers, CloseEpt(t)
      PROVE  Awaited'
  <2>1. CASE pc[t] = "c_ept"
    <3>1. t \in Threads /\ pc' = [pc EXCEPT ![t] = "c_purge"]
      BY <1>0, <1>8, <2>1 DEF CloseEpt, Goto, PlaceInv, Destroying, Callers
    <3>2. pc'[r] \in {"idle", "c_purge"}
      BY <1>0, <2>1, <3>1 DEF PlaceInv, Apart, TypeOK
    <3> QED
      BY <3>2
  <2>2. CASE pc[t] # "c_ept"
    <3>1. pc' = [pc EXCEPT ![t] = "d_wake"]
      BY <1>8, <2>2 DEF CloseEpt, Goto
    <3> QED
      BY <1>0, <3>1 DEF Awaited, TypeOK
  <2> QED
    BY <2>1, <2>2
<1>9. ASSUME NEW t \in Callers, DestroyWake(t)
      PROVE  Awaited'
  <2>1. pc' = [pc EXCEPT ![t] = "d_del"] /\ woken' = [u \in Callers |-> woken[u] \/ pc[u] \in Queued]
    BY <1>9 DEF DestroyWake, DestroyWakes, WakeReaders, Goto
  <2>2. pc[r] = "r_sleep"
    BY <1>0, <2>1 DEF TypeOK
  <2> QED
    BY <1>0, <2>1, <2>2 DEF Queued
<1>10. ASSUME (\E e \in Epts : CbStart(e)) \/ CbQueue
       PROVE  Awaited'
  <2>1. UNCHANGED <<eptptr, pc, woken>> /\ cbPc # "wake"
        /\ (queue' = queue \/ cbPc' = "wake")
    BY <1>0, <1>10 DEF CbStart, CbQueue, devVars, threadVars, Inv, EptInv
  <2> QED
    BY <1>1, <2>1 DEF Awaited, ReadCond
<1>11. ASSUME CbWake
       PROVE  Awaited'
  <2>1. pc' = pc /\ woken' = [u \in Callers |-> woken[u] \/ pc[u] \in Queued]
    BY <1>11 DEF CbWake, WakeReaders
  <2> QED
    BY <1>0, <2>1 DEF Queued
<1>12. ASSUME UNCHANGED vars
       PROVE  Awaited'
  BY <1>1, <1>12 DEF Awaited, ReadCond, vars, devVars, busVars, threadVars
<1> QED
  BY <1>2, <1>3, <1>4, <1>5, <1>6, <1>7, <1>8, <1>9, <1>10, <1>11, <1>12
  DEF Next, CallSteps, CloseSteps, DestroySteps

(***************************************************************************)
(* Any number of files.  A call that opens or closes a file has that file  *)
(* for itself, and any other call has one that is open.                    *)
(***************************************************************************)
FilesInv ==
  /\ \A t \in Threads : IF pc[t] = "idle" THEN file[t] = None ELSE file[t] \in Files
  /\ pc[Parent] \in Destroying \cup {"idle"} /\ file[Parent] = None
  /\ \A t \in Threads : pc[t] \in Apart =>
       file[t] \notin open /\ \A u \in Threads : u # t => file[u] # file[t]
  /\ \A t \in Threads : pc[t] \notin Apart \cup {"idle"} => file[t] \in open
  /\ \A t \in Callers : lock = t <=> pc[t] \in Holding

\* Whoever points to an endpoint points to one that is alive, and ept_lock keeps
\* the one that a write sends on.
PtrInv ==
  /\ eptptr # None => eptptr \in live
  /\ \A t \in Threads : pc[t] = "o_set" =>
       /\ lept[t] \in live /\ lept[t] # eptptr
       /\ \A u \in Threads : u # t /\ pc[u] = "o_set" => lept[u] # lept[t]
  /\ \A t \in Threads : pc[t] = "w_send" => lept[t] \in live
  /\ cb # None => cb \in live
  /\ cb = None <=> cbPc = "idle"

PointersInv == Shape /\ FilesInv /\ PtrInv

LEMMA FilesStep ==
  ASSUME Shape, FilesInv, [Next]_vars
  PROVE  FilesInv'
<1>0. Shape /\ FilesInv /\ Parent \notin Threads
  OBVIOUS
<1> USE DEF Shape, FilesInv, Callers, Start, Return, Goto, Apart, Destroying, Holding,
            devVars, busVars, threadVars
<1>1. ASSUME NEW t \in Threads, NEW f \in Files, Open(t, f) \/ OpenFails(t, f)
      PROVE  FilesInv'
  BY <1>0, <1>1 DEF Open, OpenFails, Busy
<1>2. ASSUME NEW t \in Threads, NEW f \in Files, Release(t, f)
      PROVE  FilesInv'
  BY <1>0, <1>2 DEF Release, Busy
<1>3. ASSUME NEW t \in Threads, NEW f \in Files,
             Read(t, f) \/ Write(t, f) \/ Poll(t, f) \/ Destroy(t, f)
      PROVE  FilesInv'
  BY <1>0, <1>3 DEF Read, Write, Poll, Destroy
<1>4. ASSUME NEW t \in Threads, OpenSet(t)
      PROVE  FilesInv'
  BY <1>0, <1>4 DEF OpenSet
<1>5. ASSUME NEW t \in Threads, ReleasePut(t)
      PROVE  FilesInv'
  BY <1>0, <1>5 DEF ReleasePut
<1>6. ASSUME NEW t \in Threads, ReadQueue(t) \/ ReadTake(t)
      PROVE  FilesInv'
  BY <1>0, <1>6 DEF ReadQueue, ReadTake, Dequeue
<1>7. ASSUME NEW t \in Threads, ReadPrepare(t) \/ ReadCheck(t) \/ ReadWake(t) \/ ReadEpt(t)
      PROVE  FilesInv'
  BY <1>0, <1>7 DEF ReadPrepare, ReadCheck, ReadWake, ReadEpt
<1>8. ASSUME NEW t \in Threads, WriteLock(t) \/ WriteSent(t) \/ PollEpt(t)
      PROVE  FilesInv'
  BY <1>0, <1>8 DEF WriteLock, WriteSent, PollEpt
<1>9. ASSUME ParentRemove
      PROVE  FilesInv'
  BY <1>0, <1>9 DEF ParentRemove
<1>10. ASSUME NEW t \in Callers, LockEpt(t) \/ CloseEpt(t)
       PROVE  FilesInv'
  BY <1>0, <1>10 DEF LockEpt, CloseEpt
<1>11. ASSUME NEW t \in Callers, DestroyWake(t) \/ DestroyDel(t)
       PROVE  FilesInv'
  BY <1>0, <1>11 DEF DestroyWake, DestroyDel
<1>12. ASSUME (\E e \in Epts : CbStart(e)) \/ CbQueue \/ CbWake \/ UNCHANGED vars
       PROVE  FilesInv'
  BY <1>0, <1>12 DEF CbStart, CbQueue, CbWake, vars
<1> QED
  BY <1>1, <1>2, <1>3, <1>4, <1>5, <1>6, <1>7, <1>8, <1>9, <1>10, <1>11, <1>12
  DEF Next, CallSteps, ReadSteps, CloseSteps, DestroySteps

LEMMA PtrStep ==
  ASSUME Shape, FilesInv, PtrInv, [Next]_vars
  PROVE  PtrInv'
<1>0. Shape /\ FilesInv /\ PtrInv /\ Parent \notin Threads
  OBVIOUS
<1> USE DEF Shape, PtrInv, Callers, Start, Return, Goto, devVars, busVars, threadVars
<1>1. ASSUME NEW t \in Threads, NEW f \in Files, Open(t, f)
      PROVE  PtrInv'
  BY <1>0, <1>1 DEF Open
<1>2. ASSUME NEW t \in Threads, NEW f \in Files,
             OpenFails(t, f) \/ Release(t, f) \/ Read(t, f) \/ Write(t, f) \/ Poll(t, f)
               \/ Destroy(t, f)
      PROVE  PtrInv'
  BY <1>0, <1>2 DEF OpenFails, Release, Read, Write, Poll, Destroy
<1>3. ASSUME NEW t \in Threads, OpenSet(t)
      PROVE  PtrInv'
  BY <1>0, <1>3 DEF OpenSet
<1>4. ASSUME NEW t \in Threads, ReadSteps(t) \/ ReleasePut(t) \/ PollEpt(t)
      PROVE  PtrInv'
  BY <1>0, <1>4 DEF ReadSteps, ReadQueue, ReadTake, Dequeue, ReadPrepare, ReadCheck, ReadWake,
                    ReadEpt, ReleasePut, PollEpt
<1>5. ASSUME NEW t \in Threads, WriteLock(t) \/ WriteSent(t)
      PROVE  PtrInv'
  BY <1>0, <1>5 DEF WriteLock, WriteSent
<1>6. ASSUME NEW t \in Callers, LockEpt(t) \/ DestroyWake(t) \/ DestroyDel(t)
      PROVE  PtrInv'
  BY <1>0, <1>6 DEF LockEpt, DestroyWake, DestroyDel
<1>7. ASSUME NEW t \in Callers, CloseEpt(t)
      PROVE  PtrInv'
  <2>1. \A u \in Threads : pc[u] # "w_send"
    BY <1>0, <1>7 DEF CloseEpt, FilesInv, Holding
  <2> QED
    BY <1>0, <1>7, <2>1 DEF CloseEpt, DestroyTheEpt
<1>8. ASSUME ParentRemove \/ (\E e \in Epts : CbStart(e)) \/ CbQueue \/ CbWake \/ UNCHANGED vars
      PROVE  PtrInv'
  BY <1>0, <1>8 DEF ParentRemove, CbStart, CbQueue, CbWake, vars
<1> QED
  BY <1>1, <1>2, <1>3, <1>4, <1>5, <1>6, <1>7, <1>8 DEF Next, CallSteps, CloseSteps, DestroySteps

\* A write that blocks in rpmsg_send has an endpoint that is alive.
SendsOnLive == \A t \in Threads : pc[t] = "w_send" => lept[t] \in live

LEMMA PointersInit == Init => PointersInv
<1> SUFFICES ASSUME Init PROVE PointersInv
  OBVIOUS
<1>1. Shape
  BY DEF Init, Shape, Labels, Callers
<1> QED
  BY <1>1 DEF Init, PointersInv, FilesInv, PtrInv, Callers, Apart, Holding, Destroying

LEMMA PointersStep ==
  ASSUME PointersInv, [Next]_vars
  PROVE  PointersInv'
<1>1. Shape'
  BY ShapeStep DEF PointersInv, FilesInv, PtrInv
<1> QED
  BY <1>1, FilesStep, PtrStep DEF PointersInv

LEMMA PointersAlways == Spec => []PointersInv
BY PointersInit, PointersStep, PTL DEF Spec

(***************************************************************************)
(* The count of references, for any finite number of files.  Each file has *)
(* one from its open until its release is over.                            *)
(***************************************************************************)
UsedFiles == open \cup {file[t] : t \in {u \in Threads : pc[u] \in Apart}}

DestroyInv ==
  /\ destroys \in {0, 1} /\ (destroys = 0 => registered)
  /\ \A t \in Callers : pc[t] \in Destroying =>
       destroys = 1 /\ registered /\ \A u \in Callers : u # t => pc[u] \notin Destroying

CountInv == refs = (IF registered THEN 1 ELSE 0) + Cardinality(UsedFiles)

\* The endpoint that is stored has a file that will destroy it.
HeldInv ==
  eptptr # None => open # {} \/ \E t \in Threads : pc[t] \in {"c_lock", "c_ept"}

LEMMA DestroyInvStep ==
  ASSUME OneDestroy, Shape, FilesInv, DestroyInv, [Next]_vars
  PROVE  DestroyInv'
<1>0. Shape /\ FilesInv /\ DestroyInv /\ Parent \notin Threads
  OBVIOUS
<1> USE DEF Shape, DestroyInv, Callers, Start, Return, Goto, Destroying, devVars, busVars,
            threadVars
<1>1. ASSUME NEW t \in Threads, NEW f \in Files,
             Open(t, f) \/ OpenFails(t, f) \/ Release(t, f) \/ Read(t, f) \/ Write(t, f)
               \/ Poll(t, f)
      PROVE  DestroyInv'
  BY <1>0, <1>1 DEF Open, OpenFails, Release, Read, Write, Poll
<1>2. ASSUME NEW t \in Threads, NEW f \in Files, Destroy(t, f)
      PROVE  DestroyInv'
  BY <1>0, <1>2 DEF Destroy, MayDestroy
<1>3. ASSUME NEW t \in Threads, CallSteps(t)
      PROVE  DestroyInv'
  BY <1>0, <1>3 DEF CallSteps, OpenSet, ReleasePut, ReadSteps, ReadQueue, ReadTake, Dequeue,
                    ReadPrepare, ReadCheck, ReadWake, ReadEpt, WriteLock, WriteSent, PollEpt
<1>4. ASSUME ParentRemove
      PROVE  DestroyInv'
  BY <1>0, <1>4 DEF ParentRemove, MayDestroy
<1>5. ASSUME NEW t \in Callers, CloseSteps(t)
      PROVE  DestroyInv'
  BY <1>0, <1>5 DEF CloseSteps, LockEpt, CloseEpt
<1>6. ASSUME NEW t \in Callers, DestroySteps(t)
      PROVE  DestroyInv'
  BY <1>0, <1>6 DEF DestroySteps, DestroyWake, DestroyDel
<1>7. ASSUME (\E e \in Epts : CbStart(e)) \/ CbQueue \/ CbWake \/ UNCHANGED vars
      PROVE  DestroyInv'
  BY <1>0, <1>7 DEF CbStart, CbQueue, CbWake, vars
<1> QED
  BY <1>1, <1>2, <1>3, <1>4, <1>5, <1>6, <1>7 DEF Next

\* What a step does to the files in use: open and close keep step with the
\* references they take and put.
LEMMA UsedStep ==
  ASSUME Shape, FilesInv, [Next]_vars
  PROVE  \/ UNCHANGED <<refs, registered>> /\ UsedFiles' = UsedFiles
         \/ /\ refs' = refs + 1 /\ registered' = registered
            /\ \E f \in Files \ UsedFiles : UsedFiles' = UsedFiles \cup {f}
         \/ /\ refs' = refs - 1 /\ registered' = registered
            /\ \E f \in UsedFiles : UsedFiles' = UsedFiles \ {f}
         \/ /\ \E t \in Callers : pc[t] = "d_del"
            /\ refs' = refs - 1 /\ registered' = FALSE /\ UsedFiles' = UsedFiles
<1>0. Shape /\ FilesInv /\ Parent \notin Threads
  OBVIOUS
<1> DEFINE Kept == UNCHANGED <<refs, registered>> /\ UsedFiles' = UsedFiles
<1> USE DEF Shape, FilesInv, Callers, Start, Return, Goto, Apart, devVars, busVars, threadVars
<1>1. ASSUME NEW t \in Threads, NEW f \in Files, Open(t, f)
      PROVE  /\ refs' = refs + 1 /\ registered' = registered
             /\ f \in Files \ UsedFiles /\ UsedFiles' = UsedFiles \cup {f}
  <2>1. f \notin UsedFiles
    BY <1>1 DEF Open, Busy, UsedFiles
  <2>2. UsedFiles' = UsedFiles \cup {f}
    BY <1>0, <1>1 DEF Open, UsedFiles
  <2> QED
    BY <1>1, <2>1, <2>2 DEF Open
<1>2. ASSUME NEW t \in Threads, NEW f \in Files, Release(t, f)
      PROVE  Kept
  BY <1>0, <1>2 DEF Release, UsedFiles
<1>3. ASSUME NEW t \in Threads, NEW f \in Files,
             OpenFails(t, f) \/ Read(t, f) \/ Write(t, f) \/ Poll(t, f) \/ Destroy(t, f)
      PROVE  Kept
  BY <1>0, <1>3 DEF OpenFails, Read, Write, Poll, Destroy, UsedFiles
<1>4. ASSUME NEW t \in Threads, OpenSet(t)
      PROVE  Kept
  BY <1>0, <1>4 DEF OpenSet, UsedFiles
<1>5. ASSUME NEW t \in Threads, ReleasePut(t)
      PROVE  /\ refs' = refs - 1 /\ registered' = registered
             /\ file[t] \in UsedFiles /\ UsedFiles' = UsedFiles \ {file[t]}
  BY <1>0, <1>5 DEF ReleasePut, UsedFiles
<1>6. ASSUME NEW t \in Threads, ReadSteps(t) \/ WriteLock(t) \/ WriteSent(t) \/ PollEpt(t)
      PROVE  Kept
  BY <1>0, <1>6 DEF ReadSteps, ReadQueue, ReadTake, Dequeue, ReadPrepare, ReadCheck, ReadWake,
                    ReadEpt, WriteLock, WriteSent, PollEpt, UsedFiles
<1>7. ASSUME NEW t \in Callers, CloseSteps(t) \/ DestroyWake(t)
      PROVE  Kept
  BY <1>0, <1>7 DEF CloseSteps, LockEpt, CloseEpt, DestroyWake, UsedFiles
<1>8. ASSUME NEW t \in Callers, DestroyDel(t)
      PROVE  /\ pc[t] = "d_del" /\ refs' = refs - 1 /\ registered' = FALSE
             /\ UsedFiles' = UsedFiles
  BY <1>0, <1>8 DEF DestroyDel, UsedFiles
<1>9. ASSUME ParentRemove \/ (\E e \in Epts : CbStart(e)) \/ CbQueue \/ CbWake \/ UNCHANGED vars
      PROVE  Kept
  BY <1>0, <1>9 DEF ParentRemove, CbStart, CbQueue, CbWake, UsedFiles, vars
<1> HIDE DEF Shape, FilesInv, Kept
<1>10. ASSUME Kept PROVE UNCHANGED <<refs, registered>> /\ UsedFiles' = UsedFiles
  BY <1>10 DEF Kept
<1> QED
  BY <1>1, <1>2, <1>3, <1>4, <1>5, <1>6, <1>7, <1>8, <1>9, <1>10
  DEF Next, CallSteps, DestroySteps

LEMMA CountStep ==
  ASSUME IsFiniteSet(Files), Shape, FilesInv, DestroyInv, CountInv, [Next]_vars
  PROVE  CountInv'
<1>1. UsedFiles \subseteq Files /\ IsFiniteSet(UsedFiles)
  <2>1. UsedFiles \subseteq Files
    BY DEF UsedFiles, Shape, FilesInv, Apart
  <2> QED
    BY <2>1, FS_Subset
<1>2. Cardinality(UsedFiles) \in Nat
  BY <1>1, FS_CardinalityType
<1>3. \A f \in Files \ UsedFiles : Cardinality(UsedFiles \cup {f}) = Cardinality(UsedFiles) + 1
  BY <1>1, FS_AddElement
<1>4. \A f \in UsedFiles : Cardinality(UsedFiles \ {f}) = Cardinality(UsedFiles) - 1
  BY <1>1, FS_RemoveElement
<1>5. (\E t \in Callers : pc[t] = "d_del") => registered
  BY DEF DestroyInv, Destroying
<1>6. CASE UNCHANGED <<refs, registered>> /\ UsedFiles' = UsedFiles
  BY <1>6 DEF CountInv
<1>7. ASSUME NEW f \in Files \ UsedFiles, refs' = refs + 1, registered' = registered,
             UsedFiles' = UsedFiles \cup {f}
      PROVE  CountInv'
  BY <1>2, <1>3, <1>7 DEF CountInv
<1>8. ASSUME NEW f \in UsedFiles, refs' = refs - 1, registered' = registered,
             UsedFiles' = UsedFiles \ {f}
      PROVE  CountInv'
  BY <1>2, <1>4, <1>8 DEF CountInv
<1>9. CASE registered /\ refs' = refs - 1 /\ registered' = FALSE /\ UsedFiles' = UsedFiles
  BY <1>2, <1>9 DEF CountInv
<1> QED
  BY <1>5, <1>6, <1>7, <1>8, <1>9, UsedStep

LEMMA HeldStep ==
  ASSUME Shape, FilesInv, HeldInv, [Next]_vars
  PROVE  HeldInv'
<1>0. Shape /\ FilesInv /\ HeldInv /\ Parent \notin Threads
  OBVIOUS
<1> USE DEF Shape, HeldInv, Callers, Start, Return, Goto, devVars, busVars, threadVars
<1>1. ASSUME NEW t \in Threads, NEW f \in Files,
             Open(t, f) \/ OpenFails(t, f) \/ Release(t, f) \/ Read(t, f) \/ Write(t, f)
               \/ Poll(t, f) \/ Destroy(t, f)
      PROVE  HeldInv'
  BY <1>0, <1>1 DEF Open, OpenFails, Release, Read, Write, Poll, Destroy
<1>2. ASSUME NEW t \in Threads, CallSteps(t)
      PROVE  HeldInv'
  BY <1>0, <1>2 DEF CallSteps, OpenSet, ReleasePut, ReadSteps, ReadQueue, ReadTake, Dequeue,
                    ReadPrepare, ReadCheck, ReadWake, ReadEpt, WriteLock, WriteSent, PollEpt
<1>3. ASSUME NEW t \in Callers, CloseSteps(t) \/ DestroySteps(t)
      PROVE  HeldInv'
  BY <1>0, <1>3 DEF CloseSteps, LockEpt, CloseEpt, DestroyTheEpt, DestroySteps, DestroyWake,
                    DestroyDel, FilesInv, Destroying
<1>4. ASSUME ParentRemove \/ (\E e \in Epts : CbStart(e)) \/ CbQueue \/ CbWake \/ UNCHANGED vars
      PROVE  HeldInv'
  BY <1>0, <1>4 DEF ParentRemove, CbStart, CbQueue, CbWake, vars
<1> QED
  BY <1>1, <1>2, <1>3, <1>4 DEF Next

ManyInv == PointersInv /\ DestroyInv /\ CountInv /\ HeldInv

LEMMA ManyInit == Init => ManyInv
<1> SUFFICES ASSUME Init PROVE ManyInv
  OBVIOUS
<1>1. UsedFiles = {}
  BY DEF Init, UsedFiles, Apart, Callers
<1>2. CountInv
  BY <1>1, FS_EmptySet DEF Init, CountInv
<1> QED
  BY <1>2, PointersInit DEF Init, ManyInv, DestroyInv, HeldInv, Destroying

LEMMA ManyAlways ==
  ASSUME OneDestroy, IsFiniteSet(Files)
  PROVE  Spec => []ManyInv
<1>1. ManyInv /\ [Next]_vars => ManyInv'
  BY PointersStep, DestroyInvStep, CountStep, HeldStep DEF ManyInv, PointersInv
<1> QED
  BY <1>1, ManyInit, PTL DEF Spec

\* Without references nobody uses the device.
DeviceKept == refs <= 0 => open = {} /\ \A t \in Callers : pc[t] = "idle"

LEMMA ManyKeeps ==
  ASSUME IsFiniteSet(Files), ManyInv
  PROVE  refs \in Nat /\ DeviceKept
<1>1. UsedFiles \subseteq Files /\ IsFiniteSet(UsedFiles)
  <2>1. UsedFiles \subseteq Files
    BY DEF ManyInv, PointersInv, UsedFiles, Shape, FilesInv, Apart
  <2> QED
    BY <2>1, FS_Subset
<1>2. Cardinality(UsedFiles) \in Nat /\ (Cardinality(UsedFiles) = 0 <=> UsedFiles = {})
  BY <1>1, FS_CardinalityType, FS_EmptySet
<1>3. refs \in Nat /\ (refs <= 0 => ~registered /\ UsedFiles = {})
  BY <1>2 DEF ManyInv, PointersInv, Shape, CountInv
<1>4. ASSUME ~registered, UsedFiles = {}
      PROVE  open = {} /\ \A t \in Callers : pc[t] = "idle"
  <2>1. open = {} /\ \A t \in Threads : pc[t] \notin Apart
    BY <1>4 DEF UsedFiles
  <2>2. \A t \in Threads : pc[t] = "idle"
    BY <2>1 DEF ManyInv, PointersInv, FilesInv
  <2>3. pc[Parent] = "idle"
    BY <1>4 DEF ManyInv, PointersInv, FilesInv, DestroyInv, Callers
  <2> QED
    BY <2>1, <2>2, <2>3 DEF Callers
<1> QED
  BY <1>3, <1>4 DEF DeviceKept

(***************************************************************************)
(* The theorems.                                                           *)
(***************************************************************************)
LEMMA InvNotFreed == Inv => NotFreedInUse
<1> SUFFICES ASSUME Inv PROVE NotFreedInUse
  OBVIOUS
<1>0. TypeOK /\ PlaceInv /\ RefInv /\ EptInv
  BY DEF Inv
<1>1. ASSUME refs <= 0
      PROVE  open = {} /\ live = {} /\ cb = None /\ \A t \in Callers : pc[t] = "idle"
  <2>1. ~registered /\ ~InUse
    BY <1>0, <1>1 DEF RefInv, TypeOK
  <2>2. open = {} /\ \A t \in Threads : pc[t] = "idle"
    BY <1>0, <2>1 DEF InUse, PlaceInv
  <2>3. pc[Parent] = "idle"
    BY <1>0, <2>1 DEF PlaceInv, RefInv, Callers
  <2>4. eptptr = None
    BY <1>0, <2>2 DEF EptInv
  <2> QED
    BY <1>0, <2>2, <2>3, <2>4 DEF EptInv, TypeOK, Callers
<1>2. \A t \in Threads : pc[t] = "w_send" => lept[t] \in live
  BY <1>0 DEF EptInv
<1> QED
  BY <1>0, <1>1, <1>2 DEF NotFreedInUse

LEMMA InvAlways ==
  ASSUME OneFile
  PROVE  Spec => []Inv
<1>1. Inv /\ [Next]_vars => Inv'
  BY InvStep
<1> QED
  BY <1>1, InvInit, PTL DEF Spec

\* The eptdev outlives its file, its endpoint and every call on them, and a
\* send has a live endpoint however long it holds ept_lock, while the channel is
\* removed at any moment.
THEOREM NotFreedCorrect ==
  ASSUME OneFile
  PROVE  Spec => []NotFreedInUse
BY InvAlways, InvNotFreed, PTL

\* What rpmsg_eptdev_read_iter finds in the queue was sent to the endpoint of
\* this open.
THEOREM NoStaleMessageCorrect ==
  ASSUME OneFile
  PROVE  Spec => []NoStaleMessage
<1>1. Inv => NoStaleMessage
  BY DEF Inv, QueueInv, NoStaleMessage
<1> QED
  BY <1>1, InvAlways, PTL

\* A reader asleep on readq has nothing to read, or is about to be woken by the
\* callback or by the destroy.
THEOREM NoLostReaderCorrect ==
  ASSUME OneFile
  PROVE  Spec => []NoLostReader
<1>1. Init => NoLostReader
  BY DEF Init, NoLostReader, Callers
<1> QED
  BY <1>1, ReaderStep, InvAlways, PTL DEF Spec

\* However many files there are and however often the device is destroyed, a
\* write that blocks in rpmsg_send has a live endpoint until the send returns:
\* release and destroy take ept_lock before they destroy one.
THEOREM SendsOnLiveCorrect == Spec => []SendsOnLive
<1>1. PointersInv => SendsOnLive
  BY DEF PointersInv, PtrInv, SendsOnLive
<1> QED
  BY <1>1, PointersAlways, PTL

\* With any finite number of files the references that open and create take
\* and release and destroy put are enough: when the last one goes, no file is
\* open and no call is under way.
THEOREM DeviceKeptCorrect ==
  ASSUME OneDestroy, IsFiniteSet(Files)
  PROVE  Spec => []DeviceKept
BY ManyKeeps, ManyAlways, PTL

\* So the only way to an eptdev that is freed under an endpoint is the open that
\* overwrites the endpoint of another one.
THEOREM NotFreedUnlessOrphan ==
  ASSUME OneDestroy, IsFiniteSet(Files)
  PROVE  Spec /\ []NoOrphanEndpoint => []NotFreedInUse
<1>1. ASSUME ManyInv, NoOrphanEndpoint PROVE NotFreedInUse
  <2>1. TypeOK /\ DeviceKept
    BY <1>1, ManyKeeps, TypeIsShape DEF ManyInv, PointersInv
  <2>2. ASSUME refs <= 0 PROVE live = {} /\ cb = None
    <3>1. open = {} /\ \A t \in Threads : pc[t] = "idle"
      BY <2>1, <2>2 DEF DeviceKept, Callers
    <3>2. eptptr = None
      BY <1>1, <3>1 DEF ManyInv, HeldInv
    <3>3. live = {}
      BY <1>1, <2>1, <3>1, <3>2 DEF NoOrphanEndpoint, TypeOK
    <3> QED
      BY <1>1, <3>3 DEF ManyInv, PointersInv, PtrInv
  <2>3. SendsOnLive
    BY <1>1 DEF ManyInv, PointersInv, PtrInv, SendsOnLive
  <2> QED
    BY <2>1, <2>2, <2>3 DEF NotFreedInUse, DeviceKept, SendsOnLive
<1> QED
  BY <1>1, ManyAlways, PTL

================================================================================
