--------------------------- MODULE RpmsgProbeProofs ---------------------------
(***************************************************************************)
(* Safety of rpmsg_probe and rpmsg_remove, for any number of devices, any  *)
(* ring sizes and any even MAX_RPMSG_NUM_BUFS.                             *)
(***************************************************************************)
EXTENDS RpmsgProbe, TLAPS

\* Half of the buffers are never more than the ring has entries.
LEMMA HalfFits ==
  ASSUME NEW r \in Nat
  PROVE  NumBufs(r) \in Nat /\ NumBufs(r) \div 2 \in Nat /\ NumBufs(r) \div 2 <= r
<1>1. CASE r < MaxBufs \div 2
  BY <1>1, MaxBufsAssumption DEF MaxBufsAssumption, NumBufs
<1>2. CASE ~(r < MaxBufs \div 2)
  BY <1>2, MaxBufsAssumption DEF MaxBufsAssumption, NumBufs
<1> QED
  BY <1>1, <1>2

LEMMA TypeInit == Init => TypeOK
BY DEF Init, TypeOK, Resources, ProbePcs, UnwindPcs, RemovePcs

LEMMA TypeStep == TypeOK /\ [Next]_vars => TypeOK'
<1> SUFFICES ASSUME TypeOK, [Next]_vars PROVE TypeOK'
  OBVIOUS
<1>1. CASE RpmsgInit
  BY <1>1, TypeOK DEF RpmsgInit, queueVars, TypeOK, Resources, ProbePcs, UnwindPcs, RemovePcs
<1>2. CASE RpmsgFini
  BY <1>2, TypeOK DEF RpmsgFini, queueVars, TypeOK, Resources, ProbePcs, UnwindPcs, RemovePcs
<1>3. CASE RpmsgFiniDone
  BY <1>3, TypeOK DEF RpmsgFiniDone, queueVars, TypeOK, Resources, ProbePcs, UnwindPcs, RemovePcs
<1>4. ASSUME NEW d \in Device, ProbeAlloc(d) \/ ProbeStep(d) \/ UnwindStep(d) \/ RemoveReset(d)
                             \/ RemoveStep(d) \/ RemoteWrites(d) \/ RxStep(d)
      PROVE  TypeOK'
  <2>1. CASE ProbeAlloc(d)
    BY <2>1, TypeOK DEF ProbeAlloc, Goto, Acquire, queueVars, TypeOK, Resources, ProbePcs, UnwindPcs, RemovePcs
  <2>2. CASE ProbeFindVqs(d)
    BY <2>2, TypeOK, HalfFits, RingSizesAssumption DEF ProbeFindVqs, Goto, Acquire, queueVars, TypeOK, Resources, ProbePcs, UnwindPcs, RemovePcs
  <2>3. CASE ProbeFindVqsFails(d)
    BY <2>3, TypeOK DEF ProbeFindVqsFails, Goto, queueVars, TypeOK, Resources, ProbePcs, UnwindPcs, RemovePcs
  <2>4. CASE ProbeAllocBufs(d)
    BY <2>4, TypeOK DEF ProbeAllocBufs, Goto, Acquire, queueVars, TypeOK, Resources, ProbePcs, UnwindPcs, RemovePcs
  <2>5. CASE ProbeAllocBufsFails(d)
    BY <2>5, TypeOK DEF ProbeAllocBufsFails, Goto, queueVars, TypeOK, Resources, ProbePcs, UnwindPcs, RemovePcs
  <2>6. CASE ProbeFill(d)
    BY <2>6, TypeOK DEF ProbeFill, Goto, TypeOK, Resources, ProbePcs, UnwindPcs, RemovePcs
  <2>7. CASE ProbeCreateNs(d)
    BY <2>7, TypeOK DEF ProbeCreateNs, Goto, Acquire, queueVars, TypeOK, Resources, ProbePcs, UnwindPcs, RemovePcs
  <2>8. CASE ProbeCreateNsFails(d)
    BY <2>8, TypeOK DEF ProbeCreateNsFails, Goto, queueVars, TypeOK, Resources, ProbePcs, UnwindPcs, RemovePcs
  <2>9. CASE ProbeReady(d)
    BY <2>9, TypeOK DEF ProbeReady, Goto, queueVars, TypeOK, Resources, ProbePcs, UnwindPcs, RemovePcs
  <2>10. CASE UnwindFreeCoherent(d)
    BY <2>10, TypeOK DEF UnwindFreeCoherent, Goto, Release, queueVars, TypeOK, Resources, ProbePcs, UnwindPcs, RemovePcs
  <2>11. CASE UnwindVqsDel(d)
    BY <2>11, TypeOK DEF UnwindVqsDel, Goto, Release, DelVqs, TypeOK, Resources, ProbePcs, UnwindPcs, RemovePcs
  <2>12. CASE UnwindFreeVrp(d)
    BY <2>12, TypeOK DEF UnwindFreeVrp, Goto, Release, queueVars, TypeOK, Resources, ProbePcs, UnwindPcs, RemovePcs
  <2>13. CASE RemoveReset(d)
    BY <2>13, TypeOK DEF RemoveReset, Goto, queueVars, TypeOK, Resources, ProbePcs, UnwindPcs, RemovePcs
  <2>14. CASE RemoveDestroyNs(d)
    BY <2>14, TypeOK DEF RemoveDestroyNs, Goto, Release, queueVars, TypeOK, Resources, ProbePcs, UnwindPcs, RemovePcs
  <2>15. CASE RemoveDelVqs(d)
    BY <2>15, TypeOK DEF RemoveDelVqs, Goto, Release, DelVqs, TypeOK, Resources, ProbePcs, UnwindPcs, RemovePcs
  <2>16. CASE RemoveFree(d)
    BY <2>16, TypeOK DEF RemoveFree, Goto, Release, queueVars, TypeOK, Resources, ProbePcs, UnwindPcs, RemovePcs
  <2>17. CASE RemoteWrites(d)
    BY <2>17, TypeOK DEF RemoteWrites, TypeOK, Resources, ProbePcs, UnwindPcs, RemovePcs
  <2>18. CASE RxStart(d)
    BY <2>18, TypeOK DEF RxStart, TypeOK, Resources, ProbePcs, UnwindPcs, RemovePcs
  <2>19. CASE RxGet(d)
    BY <2>19, TypeOK DEF RxGet, TypeOK, Resources, ProbePcs, UnwindPcs, RemovePcs
  <2>20. CASE RxPut(d)
    BY <2>20, TypeOK DEF RxPut, TypeOK, Resources, ProbePcs, UnwindPcs, RemovePcs
  <2>21. CASE RxReturn(d)
    BY <2>21, TypeOK DEF RxReturn, TypeOK, Resources, ProbePcs, UnwindPcs, RemovePcs
  <2> QED
    BY <1>4, <2>1, <2>2, <2>3, <2>4, <2>5, <2>6, <2>7, <2>8, <2>9, <2>10, <2>11, <2>12, <2>13, <2>14, <2>15, <2>16, <2>17, <2>18, <2>19, <2>20, <2>21
       DEF ProbeStep, UnwindStep, RemoveStep, RxStep
<1>5. CASE UNCHANGED vars
  BY <1>5, TypeOK DEF vars, TypeOK, Resources, ProbePcs, UnwindPcs, RemovePcs
<1> QED
  BY <1>1, <1>2, <1>3, <1>4, <1>5 DEF Next

(***************************************************************************)
(* The strengthening: where probe or remove of a device is determines what *)
(* it has, whether the remote processor is let at the rings, and whether   *)
(* rpmsg_recv_done may run; and the receive buffers are counted.           *)
(***************************************************************************)
HasVqs == {"alloc_bufs", "fill", "create_ns", "ready", "bound", "free_coherent",
           "vqs_del", "destroy_ns", "del_vqs"}
HasBufs == {"fill", "create_ns", "ready", "bound", "free_coherent",
            "destroy_ns", "del_vqs", "free_all"}

HeldByPlace(d) ==
  /\ "vrp" \in held[d] <=> pc[d] # "unbound"
  /\ "vqs" \in held[d] <=> pc[d] \in HasVqs
  /\ "bufs" \in held[d] <=> pc[d] \in HasBufs
  /\ "ns_ept" \in held[d] => pc[d] \in {"ready", "bound", "destroy_ns"}

OnlineByPlace(d) == online[d] <=> pc[d] = "bound"

QuietByPlace(d) ==
  pc[d] \notin {"bound", "destroy_ns", "del_vqs"} =>
    rx[d] = "idle" /\ ~pending[d] /\ used[d] = 0

InHand(d) == IF rx[d] = "hold" THEN 1 ELSE 0

CountByPlace(d) ==
  /\ refused[d] = 0
  /\ numBufs[d] = NumBufs(ring[d])
  /\ pc[d] \in {"create_ns", "ready", "bound", "destroy_ns", "del_vqs"} =>
       posted[d] + used[d] + InHand(d) = numBufs[d] \div 2

DriverOut == driver = "out" => \A d \in Device : pc[d] = "unbound"

PlaceInv ==
  /\ TypeOK
  /\ \A d \in Device :
       HeldByPlace(d) /\ OnlineByPlace(d) /\ QuietByPlace(d) /\ CountByPlace(d)
  /\ DriverOut

LEMMA PlaceInit == Init => PlaceInv
<1> SUFFICES ASSUME Init PROVE PlaceInv
  OBVIOUS
<1>1. 0 = NumBufs(0)
  BY MaxBufsAssumption DEF MaxBufsAssumption, NumBufs
<1>2. ASSUME NEW d \in Device
      PROVE  HeldByPlace(d) /\ OnlineByPlace(d) /\ QuietByPlace(d) /\ CountByPlace(d)
  BY <1>1 DEF Init, HeldByPlace, OnlineByPlace, QuietByPlace, CountByPlace, HasVqs, HasBufs
<1>3. DriverOut
  BY DEF Init, DriverOut
<1> QED
  BY <1>2, <1>3, TypeInit DEF PlaceInv

\* What a device has follows the place of its probe or remove.
LEMMA HeldStep ==
  ASSUME PlaceInv, [Next]_vars, NEW e \in Device
  PROVE  HeldByPlace(e)'
<1> USE DEF HasVqs, HasBufs
<1>0. TypeOK /\ HeldByPlace(e)
  BY DEF PlaceInv
<1>1. CASE RpmsgInit
  BY <1>1, <1>0 DEF RpmsgInit, queueVars, TypeOK, HeldByPlace
<1>2. CASE RpmsgFini
  BY <1>2, <1>0 DEF RpmsgFini, queueVars, TypeOK, HeldByPlace
<1>3. CASE RpmsgFiniDone
  BY <1>3, <1>0 DEF RpmsgFiniDone, queueVars, TypeOK, HeldByPlace
<1>4. ASSUME NEW d \in Device, ProbeAlloc(d) \/ ProbeStep(d) \/ UnwindStep(d) \/ RemoveReset(d)
                             \/ RemoveStep(d) \/ RemoteWrites(d) \/ RxStep(d)
      PROVE  HeldByPlace(e)'
  <2>1. CASE ProbeAlloc(d)
    BY <2>1, <1>0 DEF ProbeAlloc, Goto, Acquire, queueVars, TypeOK, HeldByPlace
  <2>2. CASE ProbeFindVqs(d)
    BY <2>2, <1>0 DEF ProbeFindVqs, Goto, Acquire, queueVars, TypeOK, HeldByPlace
  <2>3. CASE ProbeFindVqsFails(d)
    BY <2>3, <1>0 DEF ProbeFindVqsFails, Goto, queueVars, TypeOK, HeldByPlace
  <2>4. CASE ProbeAllocBufs(d)
    BY <2>4, <1>0 DEF ProbeAllocBufs, Goto, Acquire, queueVars, TypeOK, HeldByPlace
  <2>5. CASE ProbeAllocBufsFails(d)
    BY <2>5, <1>0 DEF ProbeAllocBufsFails, Goto, queueVars, TypeOK, HeldByPlace
  <2>6. CASE ProbeFill(d)
    BY <2>6, <1>0 DEF ProbeFill, Goto, TypeOK, HeldByPlace
  <2>7. CASE ProbeCreateNs(d)
    BY <2>7, <1>0 DEF ProbeCreateNs, Goto, Acquire, queueVars, TypeOK, HeldByPlace
  <2>8. CASE ProbeCreateNsFails(d)
    BY <2>8, <1>0 DEF ProbeCreateNsFails, Goto, queueVars, TypeOK, HeldByPlace
  <2>9. CASE ProbeReady(d)
    BY <2>9, <1>0 DEF ProbeReady, Goto, queueVars, TypeOK, HeldByPlace
  <2>10. CASE UnwindFreeCoherent(d)
    BY <2>10, <1>0 DEF UnwindFreeCoherent, Goto, Release, queueVars, TypeOK, HeldByPlace
  <2>11. CASE UnwindVqsDel(d)
    BY <2>11, <1>0 DEF UnwindVqsDel, Goto, Release, DelVqs, TypeOK, HeldByPlace
  <2>12. CASE UnwindFreeVrp(d)
    BY <2>12, <1>0 DEF UnwindFreeVrp, Goto, Release, queueVars, TypeOK, HeldByPlace
  <2>13. CASE RemoveReset(d)
    BY <2>13, <1>0 DEF RemoveReset, Goto, queueVars, TypeOK, HeldByPlace
  <2>14. CASE RemoveDestroyNs(d)
    BY <2>14, <1>0 DEF RemoveDestroyNs, Goto, Release, queueVars, TypeOK, HeldByPlace
  <2>15. CASE RemoveDelVqs(d)
    BY <2>15, <1>0 DEF RemoveDelVqs, Goto, Release, DelVqs, TypeOK, HeldByPlace
  <2>16. CASE RemoveFree(d)
    BY <2>16, <1>0 DEF RemoveFree, Goto, Release, queueVars, TypeOK, HeldByPlace
  <2>17. CASE RemoteWrites(d)
    BY <2>17, <1>0 DEF RemoteWrites, TypeOK, HeldByPlace
  <2>18. CASE RxStart(d)
    BY <2>18, <1>0 DEF RxStart, TypeOK, HeldByPlace
  <2>19. CASE RxGet(d)
    BY <2>19, <1>0 DEF RxGet, TypeOK, HeldByPlace
  <2>20. CASE RxPut(d)
    BY <2>20, <1>0 DEF RxPut, TypeOK, HeldByPlace
  <2>21. CASE RxReturn(d)
    BY <2>21, <1>0 DEF RxReturn, TypeOK, HeldByPlace
  <2> QED
    BY <1>4, <2>1, <2>2, <2>3, <2>4, <2>5, <2>6, <2>7, <2>8, <2>9, <2>10, <2>11, <2>12, <2>13, <2>14, <2>15, <2>16, <2>17, <2>18, <2>19, <2>20, <2>21
       DEF ProbeStep, UnwindStep, RemoveStep, RxStep
<1>5. CASE UNCHANGED vars
  BY <1>5, <1>0 DEF vars, TypeOK, HeldByPlace
<1> QED
  BY <1>1, <1>2, <1>3, <1>4, <1>5 DEF Next

\* The remote processor is let at the rings from virtio_device_ready to reset.
LEMMA OnlineStep ==
  ASSUME PlaceInv, [Next]_vars, NEW e \in Device
  PROVE  OnlineByPlace(e)'
<1> USE DEF OnlineByPlace
<1>0. TypeOK /\ OnlineByPlace(e)
  BY DEF PlaceInv
<1>1. CASE RpmsgInit
  BY <1>1, <1>0 DEF RpmsgInit, queueVars, TypeOK, OnlineByPlace
<1>2. CASE RpmsgFini
  BY <1>2, <1>0 DEF RpmsgFini, queueVars, TypeOK, OnlineByPlace
<1>3. CASE RpmsgFiniDone
  BY <1>3, <1>0 DEF RpmsgFiniDone, queueVars, TypeOK, OnlineByPlace
<1>4. ASSUME NEW d \in Device, ProbeAlloc(d) \/ ProbeStep(d) \/ UnwindStep(d) \/ RemoveReset(d)
                             \/ RemoveStep(d) \/ RemoteWrites(d) \/ RxStep(d)
      PROVE  OnlineByPlace(e)'
  <2>1. CASE ProbeAlloc(d)
    BY <2>1, <1>0 DEF ProbeAlloc, Goto, Acquire, queueVars, TypeOK, OnlineByPlace
  <2>2. CASE ProbeFindVqs(d)
    BY <2>2, <1>0 DEF ProbeFindVqs, Goto, Acquire, queueVars, TypeOK, OnlineByPlace
  <2>3. CASE ProbeFindVqsFails(d)
    BY <2>3, <1>0 DEF ProbeFindVqsFails, Goto, queueVars, TypeOK, OnlineByPlace
  <2>4. CASE ProbeAllocBufs(d)
    BY <2>4, <1>0 DEF ProbeAllocBufs, Goto, Acquire, queueVars, TypeOK, OnlineByPlace
  <2>5. CASE ProbeAllocBufsFails(d)
    BY <2>5, <1>0 DEF ProbeAllocBufsFails, Goto, queueVars, TypeOK, OnlineByPlace
  <2>6. CASE ProbeFill(d)
    BY <2>6, <1>0 DEF ProbeFill, Goto, TypeOK, OnlineByPlace
  <2>7. CASE ProbeCreateNs(d)
    BY <2>7, <1>0 DEF ProbeCreateNs, Goto, Acquire, queueVars, TypeOK, OnlineByPlace
  <2>8. CASE ProbeCreateNsFails(d)
    BY <2>8, <1>0 DEF ProbeCreateNsFails, Goto, queueVars, TypeOK, OnlineByPlace
  <2>9. CASE ProbeReady(d)
    BY <2>9, <1>0 DEF ProbeReady, Goto, queueVars, TypeOK, OnlineByPlace
  <2>10. CASE UnwindFreeCoherent(d)
    BY <2>10, <1>0 DEF UnwindFreeCoherent, Goto, Release, queueVars, TypeOK, OnlineByPlace
  <2>11. CASE UnwindVqsDel(d)
    BY <2>11, <1>0 DEF UnwindVqsDel, Goto, Release, DelVqs, TypeOK, OnlineByPlace
  <2>12. CASE UnwindFreeVrp(d)
    BY <2>12, <1>0 DEF UnwindFreeVrp, Goto, Release, queueVars, TypeOK, OnlineByPlace
  <2>13. CASE RemoveReset(d)
    BY <2>13, <1>0 DEF RemoveReset, Goto, queueVars, TypeOK, OnlineByPlace
  <2>14. CASE RemoveDestroyNs(d)
    BY <2>14, <1>0 DEF RemoveDestroyNs, Goto, Release, queueVars, TypeOK, OnlineByPlace
  <2>15. CASE RemoveDelVqs(d)
    BY <2>15, <1>0 DEF RemoveDelVqs, Goto, Release, DelVqs, TypeOK, OnlineByPlace
  <2>16. CASE RemoveFree(d)
    BY <2>16, <1>0 DEF RemoveFree, Goto, Release, queueVars, TypeOK, OnlineByPlace
  <2>17. CASE RemoteWrites(d)
    BY <2>17, <1>0 DEF RemoteWrites, TypeOK, OnlineByPlace
  <2>18. CASE RxStart(d)
    BY <2>18, <1>0 DEF RxStart, TypeOK, OnlineByPlace
  <2>19. CASE RxGet(d)
    BY <2>19, <1>0 DEF RxGet, TypeOK, OnlineByPlace
  <2>20. CASE RxPut(d)
    BY <2>20, <1>0 DEF RxPut, TypeOK, OnlineByPlace
  <2>21. CASE RxReturn(d)
    BY <2>21, <1>0 DEF RxReturn, TypeOK, OnlineByPlace
  <2> QED
    BY <1>4, <2>1, <2>2, <2>3, <2>4, <2>5, <2>6, <2>7, <2>8, <2>9, <2>10, <2>11, <2>12, <2>13, <2>14, <2>15, <2>16, <2>17, <2>18, <2>19, <2>20, <2>21
       DEF ProbeStep, UnwindStep, RemoveStep, RxStep
<1>5. CASE UNCHANGED vars
  BY <1>5, <1>0 DEF vars, TypeOK, OnlineByPlace
<1> QED
  BY <1>1, <1>2, <1>3, <1>4, <1>5 DEF Next

\* An interrupt comes only after the remote processor wrote, and del_vqs waits
\* for the last one.
LEMMA QuietStep ==
  ASSUME PlaceInv, [Next]_vars, NEW e \in Device
  PROVE  QuietByPlace(e)'
<1> USE DEF OnlineByPlace
<1>0. TypeOK /\ OnlineByPlace(e) /\ QuietByPlace(e)
  BY DEF PlaceInv
<1>1. CASE RpmsgInit
  BY <1>1, <1>0 DEF RpmsgInit, queueVars, TypeOK, QuietByPlace
<1>2. CASE RpmsgFini
  BY <1>2, <1>0 DEF RpmsgFini, queueVars, TypeOK, QuietByPlace
<1>3. CASE RpmsgFiniDone
  BY <1>3, <1>0 DEF RpmsgFiniDone, queueVars, TypeOK, QuietByPlace
<1>4. ASSUME NEW d \in Device, ProbeAlloc(d) \/ ProbeStep(d) \/ UnwindStep(d) \/ RemoveReset(d)
                             \/ RemoveStep(d) \/ RemoteWrites(d) \/ RxStep(d)
      PROVE  QuietByPlace(e)'
  <2>1. CASE ProbeAlloc(d)
    BY <2>1, <1>0 DEF ProbeAlloc, Goto, Acquire, queueVars, TypeOK, QuietByPlace
  <2>2. CASE ProbeFindVqs(d)
    BY <2>2, <1>0 DEF ProbeFindVqs, Goto, Acquire, queueVars, TypeOK, QuietByPlace
  <2>3. CASE ProbeFindVqsFails(d)
    BY <2>3, <1>0 DEF ProbeFindVqsFails, Goto, queueVars, TypeOK, QuietByPlace
  <2>4. CASE ProbeAllocBufs(d)
    BY <2>4, <1>0 DEF ProbeAllocBufs, Goto, Acquire, queueVars, TypeOK, QuietByPlace
  <2>5. CASE ProbeAllocBufsFails(d)
    BY <2>5, <1>0 DEF ProbeAllocBufsFails, Goto, queueVars, TypeOK, QuietByPlace
  <2>6. CASE ProbeFill(d)
    BY <2>6, <1>0 DEF ProbeFill, Goto, TypeOK, QuietByPlace
  <2>7. CASE ProbeCreateNs(d)
    BY <2>7, <1>0 DEF ProbeCreateNs, Goto, Acquire, queueVars, TypeOK, QuietByPlace
  <2>8. CASE ProbeCreateNsFails(d)
    BY <2>8, <1>0 DEF ProbeCreateNsFails, Goto, queueVars, TypeOK, QuietByPlace
  <2>9. CASE ProbeReady(d)
    BY <2>9, <1>0 DEF ProbeReady, Goto, queueVars, TypeOK, QuietByPlace
  <2>10. CASE UnwindFreeCoherent(d)
    BY <2>10, <1>0 DEF UnwindFreeCoherent, Goto, Release, queueVars, TypeOK, QuietByPlace
  <2>11. CASE UnwindVqsDel(d)
    BY <2>11, <1>0 DEF UnwindVqsDel, Goto, Release, DelVqs, TypeOK, QuietByPlace
  <2>12. CASE UnwindFreeVrp(d)
    BY <2>12, <1>0 DEF UnwindFreeVrp, Goto, Release, queueVars, TypeOK, QuietByPlace
  <2>13. CASE RemoveReset(d)
    BY <2>13, <1>0 DEF RemoveReset, Goto, queueVars, TypeOK, QuietByPlace
  <2>14. CASE RemoveDestroyNs(d)
    BY <2>14, <1>0 DEF RemoveDestroyNs, Goto, Release, queueVars, TypeOK, QuietByPlace
  <2>15. CASE RemoveDelVqs(d)
    BY <2>15, <1>0 DEF RemoveDelVqs, Goto, Release, DelVqs, TypeOK, QuietByPlace
  <2>16. CASE RemoveFree(d)
    BY <2>16, <1>0 DEF RemoveFree, Goto, Release, queueVars, TypeOK, QuietByPlace
  <2>17. CASE RemoteWrites(d)
    BY <2>17, <1>0 DEF RemoteWrites, TypeOK, QuietByPlace
  <2>18. CASE RxStart(d)
    BY <2>18, <1>0 DEF RxStart, TypeOK, QuietByPlace
  <2>19. CASE RxGet(d)
    BY <2>19, <1>0 DEF RxGet, TypeOK, QuietByPlace
  <2>20. CASE RxPut(d)
    BY <2>20, <1>0 DEF RxPut, TypeOK, QuietByPlace
  <2>21. CASE RxReturn(d)
    BY <2>21, <1>0 DEF RxReturn, TypeOK, QuietByPlace
  <2> QED
    BY <1>4, <2>1, <2>2, <2>3, <2>4, <2>5, <2>6, <2>7, <2>8, <2>9, <2>10, <2>11, <2>12, <2>13, <2>14, <2>15, <2>16, <2>17, <2>18, <2>19, <2>20, <2>21
       DEF ProbeStep, UnwindStep, RemoveStep, RxStep
<1>5. CASE UNCHANGED vars
  BY <1>5, <1>0 DEF vars, TypeOK, QuietByPlace
<1> QED
  BY <1>1, <1>2, <1>3, <1>4, <1>5 DEF Next

\* The receive buffers are counted from the moment they are on the ring.
LEMMA CountStep ==
  ASSUME PlaceInv, [Next]_vars, NEW e \in Device
  PROVE  CountByPlace(e)'
<1> USE DEF OnlineByPlace, QuietByPlace, InHand
<1>0. TypeOK /\ OnlineByPlace(e) /\ QuietByPlace(e) /\ CountByPlace(e)
  BY DEF PlaceInv
<1>1. CASE RpmsgInit
  BY <1>1, <1>0 DEF RpmsgInit, queueVars, TypeOK, CountByPlace
<1>2. CASE RpmsgFini
  BY <1>2, <1>0 DEF RpmsgFini, queueVars, TypeOK, CountByPlace
<1>3. CASE RpmsgFiniDone
  BY <1>3, <1>0 DEF RpmsgFiniDone, queueVars, TypeOK, CountByPlace
<1>4. ASSUME NEW d \in Device, ProbeAlloc(d) \/ ProbeStep(d) \/ UnwindStep(d) \/ RemoveReset(d)
                             \/ RemoveStep(d) \/ RemoteWrites(d) \/ RxStep(d)
      PROVE  CountByPlace(e)'
  <2>1. CASE ProbeAlloc(d)
    BY <2>1, <1>0 DEF ProbeAlloc, Goto, Acquire, queueVars, TypeOK, CountByPlace
  <2>2. CASE ProbeFindVqs(d)
    BY <2>2, <1>0, HalfFits, RingSizesAssumption DEF ProbeFindVqs, Goto, Acquire, queueVars, TypeOK, CountByPlace
  <2>3. CASE ProbeFindVqsFails(d)
    BY <2>3, <1>0 DEF ProbeFindVqsFails, Goto, queueVars, TypeOK, CountByPlace
  <2>4. CASE ProbeAllocBufs(d)
    BY <2>4, <1>0 DEF ProbeAllocBufs, Goto, Acquire, queueVars, TypeOK, CountByPlace
  <2>5. CASE ProbeAllocBufsFails(d)
    BY <2>5, <1>0 DEF ProbeAllocBufsFails, Goto, queueVars, TypeOK, CountByPlace
  <2>6. CASE ProbeFill(d)
    <3>1. numBufs[d] \div 2 \in Nat /\ (d = e => numBufs[d] \div 2 <= ring[d])
      BY <1>0, HalfFits DEF TypeOK, CountByPlace
    <3>2. CASE d = e
      <4>1. posted'[e] = numBufs[e] \div 2 /\ refused'[e] = 0
        BY <2>6, <1>0, <3>1, <3>2 DEF ProbeFill, TypeOK
      <4>2. used[e] = 0 /\ rx[e] = "idle"
        BY <2>6, <1>0, <3>2 DEF ProbeFill, Goto
      <4> QED
        BY <4>1, <4>2, <2>6, <1>0, <3>1, <3>2 DEF ProbeFill, CountByPlace
    <3>3. CASE d # e
      BY <2>6, <1>0, <3>3 DEF ProbeFill, Goto, TypeOK, CountByPlace
    <3> QED
      BY <3>2, <3>3
  <2>7. CASE ProbeCreateNs(d)
    BY <2>7, <1>0 DEF ProbeCreateNs, Goto, Acquire, queueVars, TypeOK, CountByPlace
  <2>8. CASE ProbeCreateNsFails(d)
    BY <2>8, <1>0 DEF ProbeCreateNsFails, Goto, queueVars, TypeOK, CountByPlace
  <2>9. CASE ProbeReady(d)
    BY <2>9, <1>0 DEF ProbeReady, Goto, queueVars, TypeOK, CountByPlace
  <2>10. CASE UnwindFreeCoherent(d)
    BY <2>10, <1>0 DEF UnwindFreeCoherent, Goto, Release, queueVars, TypeOK, CountByPlace
  <2>11. CASE UnwindVqsDel(d)
    BY <2>11, <1>0 DEF UnwindVqsDel, Goto, Release, DelVqs, TypeOK, CountByPlace
  <2>12. CASE UnwindFreeVrp(d)
    BY <2>12, <1>0 DEF UnwindFreeVrp, Goto, Release, queueVars, TypeOK, CountByPlace
  <2>13. CASE RemoveReset(d)
    BY <2>13, <1>0 DEF RemoveReset, Goto, queueVars, TypeOK, CountByPlace
  <2>14. CASE RemoveDestroyNs(d)
    BY <2>14, <1>0 DEF RemoveDestroyNs, Goto, Release, queueVars, TypeOK, CountByPlace
  <2>15. CASE RemoveDelVqs(d)
    BY <2>15, <1>0 DEF RemoveDelVqs, Goto, Release, DelVqs, TypeOK, CountByPlace
  <2>16. CASE RemoveFree(d)
    BY <2>16, <1>0 DEF RemoveFree, Goto, Release, queueVars, TypeOK, CountByPlace
  <2>17. CASE RemoteWrites(d)
    BY <2>17, <1>0 DEF RemoteWrites, TypeOK, CountByPlace
  <2>18. CASE RxStart(d)
    BY <2>18, <1>0 DEF RxStart, TypeOK, CountByPlace
  <2>19. CASE RxGet(d)
    BY <2>19, <1>0 DEF RxGet, TypeOK, CountByPlace
  <2>20. CASE RxPut(d)
    BY <2>20, <1>0 DEF RxPut, TypeOK, CountByPlace
  <2>21. CASE RxReturn(d)
    BY <2>21, <1>0 DEF RxReturn, TypeOK, CountByPlace
  <2> QED
    BY <1>4, <2>1, <2>2, <2>3, <2>4, <2>5, <2>6, <2>7, <2>8, <2>9, <2>10, <2>11, <2>12, <2>13, <2>14, <2>15, <2>16, <2>17, <2>18, <2>19, <2>20, <2>21
       DEF ProbeStep, UnwindStep, RemoveStep, RxStep
<1>5. CASE UNCHANGED vars
  BY <1>5, <1>0 DEF vars, TypeOK, CountByPlace
<1> QED
  BY <1>1, <1>2, <1>3, <1>4, <1>5 DEF Next

\* rpmsg_fini ends only when every device is unbound, and no probe starts then.
LEMMA DriverStep ==
  ASSUME PlaceInv, [Next]_vars
  PROVE  DriverOut'
<1>0. TypeOK /\ DriverOut
  BY DEF PlaceInv
<1>1. CASE RpmsgInit
  BY <1>1, <1>0 DEF RpmsgInit, queueVars, TypeOK, DriverOut
<1>2. CASE RpmsgFini
  BY <1>2, <1>0 DEF RpmsgFini, queueVars, TypeOK, DriverOut
<1>3. CASE RpmsgFiniDone
  BY <1>3, <1>0 DEF RpmsgFiniDone, queueVars, TypeOK, DriverOut
<1>4. ASSUME NEW d \in Device, ProbeAlloc(d) \/ ProbeStep(d) \/ UnwindStep(d) \/ RemoveReset(d)
                             \/ RemoveStep(d) \/ RemoteWrites(d) \/ RxStep(d)
      PROVE  DriverOut'
  <2>1. CASE ProbeAlloc(d)
    BY <2>1, <1>0 DEF ProbeAlloc, Goto, Acquire, queueVars, TypeOK, DriverOut
  <2>2. CASE ProbeFindVqs(d)
    BY <2>2, <1>0 DEF ProbeFindVqs, Goto, Acquire, queueVars, TypeOK, DriverOut
  <2>3. CASE ProbeFindVqsFails(d)
    BY <2>3, <1>0 DEF ProbeFindVqsFails, Goto, queueVars, TypeOK, DriverOut
  <2>4. CASE ProbeAllocBufs(d)
    BY <2>4, <1>0 DEF ProbeAllocBufs, Goto, Acquire, queueVars, TypeOK, DriverOut
  <2>5. CASE ProbeAllocBufsFails(d)
    BY <2>5, <1>0 DEF ProbeAllocBufsFails, Goto, queueVars, TypeOK, DriverOut
  <2>6. CASE ProbeFill(d)
    BY <2>6, <1>0 DEF ProbeFill, Goto, TypeOK, DriverOut
  <2>7. CASE ProbeCreateNs(d)
    BY <2>7, <1>0 DEF ProbeCreateNs, Goto, Acquire, queueVars, TypeOK, DriverOut
  <2>8. CASE ProbeCreateNsFails(d)
    BY <2>8, <1>0 DEF ProbeCreateNsFails, Goto, queueVars, TypeOK, DriverOut
  <2>9. CASE ProbeReady(d)
    BY <2>9, <1>0 DEF ProbeReady, Goto, queueVars, TypeOK, DriverOut
  <2>10. CASE UnwindFreeCoherent(d)
    BY <2>10, <1>0 DEF UnwindFreeCoherent, Goto, Release, queueVars, TypeOK, DriverOut
  <2>11. CASE UnwindVqsDel(d)
    BY <2>11, <1>0 DEF UnwindVqsDel, Goto, Release, DelVqs, TypeOK, DriverOut
  <2>12. CASE UnwindFreeVrp(d)
    BY <2>12, <1>0 DEF UnwindFreeVrp, Goto, Release, queueVars, TypeOK, DriverOut
  <2>13. CASE RemoveReset(d)
    BY <2>13, <1>0 DEF RemoveReset, Goto, queueVars, TypeOK, DriverOut
  <2>14. CASE RemoveDestroyNs(d)
    BY <2>14, <1>0 DEF RemoveDestroyNs, Goto, Release, queueVars, TypeOK, DriverOut
  <2>15. CASE RemoveDelVqs(d)
    BY <2>15, <1>0 DEF RemoveDelVqs, Goto, Release, DelVqs, TypeOK, DriverOut
  <2>16. CASE RemoveFree(d)
    BY <2>16, <1>0 DEF RemoveFree, Goto, Release, queueVars, TypeOK, DriverOut
  <2>17. CASE RemoteWrites(d)
    BY <2>17, <1>0 DEF RemoteWrites, TypeOK, DriverOut
  <2>18. CASE RxStart(d)
    BY <2>18, <1>0 DEF RxStart, TypeOK, DriverOut
  <2>19. CASE RxGet(d)
    BY <2>19, <1>0 DEF RxGet, TypeOK, DriverOut
  <2>20. CASE RxPut(d)
    BY <2>20, <1>0 DEF RxPut, TypeOK, DriverOut
  <2>21. CASE RxReturn(d)
    BY <2>21, <1>0 DEF RxReturn, TypeOK, DriverOut
  <2> QED
    BY <1>4, <2>1, <2>2, <2>3, <2>4, <2>5, <2>6, <2>7, <2>8, <2>9, <2>10, <2>11, <2>12, <2>13, <2>14, <2>15, <2>16, <2>17, <2>18, <2>19, <2>20, <2>21
       DEF ProbeStep, UnwindStep, RemoveStep, RxStep
<1>5. CASE UNCHANGED vars
  BY <1>5, <1>0 DEF vars, TypeOK, DriverOut
<1> QED
  BY <1>1, <1>2, <1>3, <1>4, <1>5 DEF Next

LEMMA PlaceStep == PlaceInv /\ [Next]_vars => PlaceInv'
<1> SUFFICES ASSUME PlaceInv, [Next]_vars PROVE PlaceInv'
  OBVIOUS
<1>1. TypeOK'
  BY TypeStep DEF PlaceInv
<1>2. ASSUME NEW e \in Device
      PROVE  (HeldByPlace(e) /\ OnlineByPlace(e) /\ QuietByPlace(e) /\ CountByPlace(e))'
  BY HeldStep, OnlineStep, QuietStep, CountStep
<1> QED
  BY <1>1, <1>2, DriverStep DEF PlaceInv

THEOREM PlaceCorrect == Spec => []PlaceInv
BY PlaceInit, PlaceStep, PTL DEF Spec

\* The state is well-typed: counts never go below zero, for one.
THEOREM TypeCorrect == Spec => []TypeOK
<1>1. PlaceInv => TypeOK
  BY DEF PlaceInv
<1> QED
  BY <1>1, PlaceCorrect, PTL

\* No memory is freed while the remote processor or rpmsg_recv_done uses it.
THEOREM MemoryCorrect == Spec => []MemoryInUse
<1>1. PlaceInv => MemoryInUse
  BY DEF PlaceInv, MemoryInUse, HeldByPlace, OnlineByPlace, QuietByPlace, HasVqs, HasBufs
<1> QED
  BY <1>1, PlaceCorrect, PTL

\* A failed probe, a remove and rpmsg_fini leave nothing behind.
THEOREM NothingLeftCorrect == Spec => []NothingLeft
<1>1. PlaceInv => NothingLeft
  <2> SUFFICES ASSUME PlaceInv, NEW d \in Device
               PROVE  /\ pc[d] = "unbound" => held[d] = {} /\ ~pending[d] /\ rx[d] = "idle"
                      /\ driver = "out" => pc[d] = "unbound"
    BY DEF NothingLeft
  <2>1. held[d] \subseteq Resources
    BY DEF PlaceInv, TypeOK
  <2>2. pc[d] = "unbound" => held[d] = {}
    BY <2>1 DEF PlaceInv, HeldByPlace, Resources, HasVqs, HasBufs
  <2> QED
    BY <2>2 DEF PlaceInv, QuietByPlace, DriverOut
<1> QED
  BY <1>1, PlaceCorrect, PTL

\* The receive ring takes half of the buffers, and none of them gets lost.
THEOREM FillCorrect == Spec => []FillFits
<1>1. PlaceInv => FillFits
  BY DEF PlaceInv, FillFits, CountByPlace, OnlineByPlace, InHand
<1> QED
  BY <1>1, PlaceCorrect, PTL
=============================================================================
