---------------------------- MODULE RpmsgTxProofs ----------------------------
(***************************************************************************)
(* Safety of the transmit path, for any number of senders and buffers.     *)
(***************************************************************************)
EXTENDS RpmsgTx, TLAPS, FiniteSetTheorems, SequenceTheorems

(***************************************************************************)
(* Types.  TypeOK is not inductive alone: what virtqueue_add_outbuf puts in *)
(* the ring is a buffer only because a sender in "add" owns one.            *)
(***************************************************************************)

TypeInv == TypeOK /\ BufferPhase


LEMMA EnableCbType == EnableCb => cbOn' \in BOOLEAN /\ armed' \in BOOLEAN
BY Zenon DEF EnableCb

LEMMA DisableCbType == DisableCb => cbOn' \in BOOLEAN /\ armed' \in BOOLEAN
BY Zenon DEF DisableCb

\* get_a_tx_buf returns a tx buffer or NULL and leaves its state well typed.
LEMMA GetTxBufType ==
  ASSUME TypeOK, NEW b, GetTxBuf(b)
  PROVE  /\ last_sbuf' \in 0 .. NTx
         /\ used' \subseteq Bufs
         /\ armed' \in BOOLEAN
<1>1. armed' \in BOOLEAN
  BY Zenon DEF TypeOK, GetTxBuf, GetUsed
<1>2. last_sbuf' \in 0 .. NTx
  BY TxAssumption DEF TxAssumption, TypeOK, GetTxBuf, GetUsed
<1>3. used' \subseteq Bufs
  BY DEF TypeOK, GetTxBuf, GetUsed
<1> QED
  BY <1>1, <1>2, <1>3

\* A returning call leaves the state of its thread well typed.
LEMMA ReturnType ==
  ASSUME TypeOK, NEW s \in Senders, NEW r \in Results, Return(s, r)
  PROVE  /\ pc' \in [Senders -> Labels]
         /\ ret' \in [Senders -> Results]
         /\ signal' \in [Senders -> BOOLEAN]
BY DEF TypeOK, Return, Labels

LEMMA TypeInit == Init => TypeInv
<1> SUFFICES ASSUME Init PROVE TypeInv
  OBVIOUS
<1>1. last_sbuf \in 0 .. NTx /\ sleepers \in Int
  BY TxAssumption DEF TxAssumption, Init
<1>2. avail \in Seq(Bufs)
  BY DEF Init
<1>3. held \subseteq Bufs /\ used \subseteq Bufs /\ lost \subseteq Bufs
  BY DEF Init
<1>4. msg \in [Bufs -> Senders \cup {"none"}]
  BY DEF Init
<1>5. cbOn \in BOOLEAN /\ armed \in BOOLEAN /\ irqPending \in BOOLEAN /\ broken \in BOOLEAN
  BY TxAssumption DEF TxAssumption, Init
<1>6. pc \in [Senders -> Labels] /\ wret \in [Senders -> {"running", "expired", "signalled"}]
  BY DEF Init, Labels
<1>7. buf \in [Senders -> Bufs \cup {NoBuf}] /\ ret \in [Senders -> Results]
  BY DEF Init, Results
<1>8. woken \in [Senders -> BOOLEAN] /\ signal \in [Senders -> BOOLEAN]
  BY DEF Init
<1>9. BufferPhase
  BY DEF Init, BufferPhase
<1> QED
  BY <1>1, <1>2, <1>3, <1>4, <1>5, <1>6, <1>7, <1>8, <1>9 DEF TypeInv, TypeOK

LEMMA TypeStep == TypeInv /\ [Next]_vars => TypeInv'
<1> SUFFICES ASSUME TypeInv, [Next]_vars PROVE TypeInv'
  OBVIOUS
<1> USE DEF TypeInv, TypeOK, BufferPhase
<1>1. ASSUME NEW s \in Senders, Call(s) PROVE TypeInv'
  <2>1. pc' \in [Senders -> Labels] /\ ret' \in [Senders -> Results]
    BY <1>1 DEF Call, Labels, Results, Errors
  <2> QED
    BY <1>1, <2>1 DEF Call, devVars, ringVars, cbVars
<1>2. ASSUME NEW s \in Senders, FirstGet(s) PROVE TypeInv'
  <2>1. PICK b \in Bufs \cup {NoBuf} :
           /\ GetTxBuf(b)
           /\ buf' = [buf EXCEPT ![s] = b]
           /\ \/ /\ b # NoBuf
                 /\ pc' = [pc EXCEPT ![s] = "fill"]
                 /\ UNCHANGED <<ret, signal>>
              \/ /\ b = NoBuf /\ pc[s] = "get"
                 /\ pc' = [pc EXCEPT ![s] = "upref"]
                 /\ UNCHANGED <<ret, signal>>
              \/ /\ b = NoBuf /\ pc[s] = "tryget"
                 /\ Return(s, "ENOMEM")
    BY <1>2 DEF FirstGet
  <2>2. /\ pc' \in [Senders -> Labels] /\ ret' \in [Senders -> Results]
        /\ signal' \in [Senders -> BOOLEAN]
    BY <2>1, ReturnType DEF Labels, Results, Errors
  <2>3. BufferPhase'
    BY <1>2, <2>1 DEF Return, FirstGet
  <2> QED
    BY <1>2, <2>1, <2>2, <2>3, GetTxBufType DEF FirstGet
<1>3. ASSUME NEW s \in Senders, Upref(s) PROVE TypeInv'
  BY <1>3, EnableCbType DEF Upref, UpdateSleepers, callVars, Labels, Waiting
<1>4. ASSUME NEW s \in Senders, Cond(s) PROVE TypeInv'
  BY <1>4, GetTxBufType DEF Cond, Labels, Waiting
<1>5. ASSUME NEW s \in Senders, Prepare(s) PROVE TypeInv'
  BY <1>5 DEF Prepare, Labels, Waiting, devVars, ringVars, cbVars
<1>6. ASSUME NEW s \in Senders, Recheck(s) PROVE TypeInv'
  BY <1>6, GetTxBufType DEF Recheck, KeepWoken, Labels, Waiting
<1>7. ASSUME NEW s \in Senders, Unpark(s) PROVE TypeInv'
  BY <1>7 DEF Unpark, Labels, Waiting, devVars, ringVars, cbVars, callVars
<1>8. ASSUME NEW s \in Senders, TimerExpire(s) PROVE TypeInv'
  BY <1>8 DEF TimerExpire, Labels, Waiting, devVars, ringVars, cbVars
<1>9. ASSUME NEW s \in Senders, Downref(s) PROVE TypeInv'
  BY <1>9, DisableCbType, ReturnType DEF Downref, AfterWait, LastDown, UpdateSleepers, Return, Labels, Results, Errors
<1>10. ASSUME NEW s \in Senders, Fill(s) PROVE TypeInv'
  BY <1>10 DEF Fill, Labels, devVars, cbVars, callVars
<1>11. ASSUME NEW s \in Senders, Add(s) PROVE TypeInv'
  <2>1. buf' \in [Senders -> Bufs \cup {NoBuf}]
    BY <1>11 DEF Add, AddOutbuf
  <2> buf[s] \in Bufs
    BY <1>11 DEF Add, AddOutbuf
  <2>2. avail' \in Seq(Bufs) /\ lost' \subseteq Bufs
    <3>1. /\ avail' = Append(avail, buf[s]) \/ avail' = avail
          /\ lost' = lost \cup {buf[s]} \/ lost' = lost
      BY <1>11 DEF Add, AddOutbuf
    <3>2. Append(avail, buf[s]) \in Seq(Bufs)
      BY AppendProperties
    <3> QED
      BY <3>1, <3>2
  <2>3. \E r \in Results : Return(s, r)
    BY <1>11 DEF Add, AddOutbuf, Results, Errors
  <2> QED
    BY <1>11, <2>1, <2>2, <2>3, ReturnType DEF Add, AddOutbuf, Return, devVars, cbVars
<1>12. ASSUME RemoteTake PROVE TypeInv'
  BY <1>12 DEF RemoteTake, devVars, cbVars, callVars
<1>13. ASSUME NEW b \in Bufs, RemotePut(b) PROVE TypeInv'
  BY <1>13 DEF RemotePut, devVars, callVars
<1>14. ASSUME XmitDone PROVE TypeInv'
  BY <1>14 DEF XmitDone, devVars, ringVars, callVars
<1>15. ASSUME BreakQueue PROVE TypeInv'
  BY <1>15 DEF BreakQueue, devVars, cbVars, callVars
<1>16. ASSUME NEW s \in Senders, Signal(s) PROVE TypeInv'
  BY <1>16 DEF Signal, devVars, ringVars, cbVars, callVars
<1>17. CASE UNCHANGED vars
  BY <1>17 DEF vars, devVars, ringVars, cbVars, callVars
<1> QED
  BY <1>1, <1>2, <1>3, <1>4, <1>5, <1>6, <1>7, <1>8, <1>9, <1>10, <1>11, <1>12,
     <1>13, <1>14, <1>15, <1>16, <1>17 DEF Next, SenderStep

\* Every variable of the transmit path keeps its type, whatever the senders,
\* the remote processor and the interrupt handler do.
THEOREM TypeCorrect == Spec => [](TypeOK /\ BufferPhase)
BY TypeInit, TypeStep, PTL DEF Spec, TypeInv

(***************************************************************************)
(* Sleepers and wake-ups.  NoLostWakeup rests on two facts about the code's *)
(* bookkeeping: a parked sender is counted, so the callbacks are enabled;   *)
(* and enabled callbacks over an empty used ring mean that the next buffer  *)
(* put there raises an interrupt.                                           *)
(***************************************************************************)

NextIsArmed == cbOn /\ (used = {} \/ ~EventIdx) => armed

LEMMA SleepingFinite ==
  IsFiniteSet(Sleeping) /\ Cardinality(Sleeping) \in Nat
BY FS_Subset, FS_CardinalityType, TxAssumption DEF TxAssumption, Sleeping

\* vrp->sleepers and the callback flag are kept together.
LEMMA SleepersStep ==
  TypeOK /\ SleepersCount /\ [Next]_vars => SleepersCount'
<1> SUFFICES ASSUME TypeOK, SleepersCount, [Next]_vars PROVE SleepersCount'
  OBVIOUS
<1>1. ASSUME Sleeping' = Sleeping, UNCHANGED <<sleepers, cbOn>>
      PROVE  SleepersCount'
  BY <1>1 DEF SleepersCount
<1>2. ASSUME NEW s \in Senders, Upref(s) PROVE SleepersCount'
  <2>1. s \notin Sleeping /\ Sleeping' = Sleeping \cup {s}
    BY <1>2 DEF Upref, Sleeping, Waiting, TypeOK
  <2>2. Cardinality(Sleeping') = sleepers + 1
    BY <2>1, SleepingFinite, FS_AddElement DEF SleepersCount
  <2>3. sleepers' = sleepers + 1
    BY <1>2 DEF Upref
  <2>4. CASE sleepers = 0
    BY <2>2, <2>3, <2>4, <1>2 DEF Upref, EnableCb, SleepersCount
  <2>5. CASE sleepers # 0
    <3>1. sleepers > 0 /\ sleepers' # 1
      BY <2>3, <2>5, SleepingFinite DEF SleepersCount
    <3> QED
      BY <2>2, <2>3, <3>1, <1>2, SleepingFinite DEF Upref, SleepersCount
  <2> QED
    BY <2>4, <2>5
<1>3. ASSUME NEW s \in Senders, Downref(s) PROVE SleepersCount'
  <2>1. s \in Sleeping /\ Sleeping' = Sleeping \ {s}
    BY <1>3 DEF Downref, AfterWait, LastDown, Return, Sleeping, Waiting, TypeOK
  <2>2. Cardinality(Sleeping') = sleepers - 1 /\ Cardinality(Sleeping') \in Nat
    BY <2>1, SleepingFinite, FS_RemoveElement, FS_CardinalityType DEF SleepersCount
  <2>3. sleepers' = sleepers - 1
    BY <1>3 DEF Downref, AfterWait, LastDown
  <2>4. CASE sleepers' = 0
    <3>1. cbOn' = FALSE
      BY <2>4, <1>3 DEF Downref, AfterWait, LastDown, DisableCb
    <3> QED
      BY <2>2, <2>3, <2>4, <3>1 DEF SleepersCount
  <2>5. CASE sleepers' # 0
    <3>1. sleepers > 0 /\ sleepers' > 0 /\ cbOn' = cbOn
      BY <2>2, <2>3, <2>5, <1>3, SleepingFinite DEF SleepersCount, Downref, AfterWait, LastDown
    <3> QED
      BY <2>2, <2>3, <3>1 DEF SleepersCount
  <2> QED
    BY <2>4, <2>5
<1>4. ASSUME NEW s \in Senders,
             \/ Call(s) \/ FirstGet(s) \/ Cond(s) \/ Prepare(s) \/ Recheck(s)
             \/ Unpark(s) \/ TimerExpire(s) \/ Fill(s) \/ Add(s) \/ Signal(s)
      PROVE  Sleeping' = Sleeping /\ UNCHANGED <<sleepers, cbOn>>
  <2>1. CASE Call(s)
    BY <2>1 DEF Call, Sleeping, Waiting, TypeOK, devVars, cbVars
  <2>2. CASE FirstGet(s)
    BY <2>2 DEF FirstGet, Return, Sleeping, Waiting, TypeOK
  <2>3. CASE Cond(s)
    BY <2>3 DEF Cond, Sleeping, Waiting, TypeOK
  <2>4. CASE Prepare(s)
    BY <2>4 DEF Prepare, Sleeping, Waiting, TypeOK, devVars, cbVars
  <2>5. CASE Recheck(s)
    BY <2>5 DEF Recheck, KeepWoken, Sleeping, Waiting, TypeOK
  <2>6. CASE Unpark(s)
    BY <2>6 DEF Unpark, Sleeping, Waiting, TypeOK, devVars, cbVars
  <2>7. CASE TimerExpire(s)
    BY <2>7 DEF TimerExpire, Sleeping, Waiting, TypeOK, devVars, cbVars
  <2>8. CASE Fill(s)
    BY <2>8 DEF Fill, Sleeping, Waiting, TypeOK, devVars, cbVars
  <2>9. CASE Add(s)
    BY <2>9 DEF Add, AddOutbuf, Return, Sleeping, Waiting, TypeOK, devVars, cbVars
  <2>10. CASE Signal(s)
    BY <2>10 DEF Signal, Sleeping, devVars, cbVars
  <2> QED
    BY <1>4, <2>1, <2>2, <2>3, <2>4, <2>5, <2>6, <2>7, <2>8, <2>9, <2>10
<1>5. ASSUME RemoteTake \/ (\E b \in Bufs : RemotePut(b)) \/ XmitDone \/ BreakQueue
      PROVE  Sleeping' = Sleeping /\ UNCHANGED <<sleepers, cbOn>>
  BY <1>5 DEF RemoteTake, RemotePut, XmitDone, BreakQueue, Sleeping, devVars, cbVars
<1>6. CASE UNCHANGED vars
  BY <1>1, <1>6 DEF vars, devVars, cbVars, Sleeping
<1> QED
  BY <1>1, <1>2, <1>3, <1>4, <1>5, <1>6 DEF Next, SenderStep

\* get_a_tx_buf keeps NextIsArmed, adds nothing to the used ring, and returns
\* NULL only if that ring is empty or the queue is broken.
LEMMA GetTxBufWake ==
  ASSUME TypeOK, NextIsArmed, NEW b \in Bufs \cup {NoBuf}, GetTxBuf(b),
         UNCHANGED cbOn
  PROVE  /\ NextIsArmed'
         /\ used' \subseteq used
         /\ b = NoBuf => used' = {} \/ broken
<1>1. CASE UNCHANGED <<used, armed>> /\ b # NoBuf
  BY <1>1 DEF NextIsArmed
<1>2. CASE UNCHANGED <<used, armed>> /\ (used = {} \/ broken)
  BY <1>2 DEF NextIsArmed
<1>3. CASE /\ b \in used /\ used' = used \ {b}
           /\ armed' = IF EventIdx /\ cbOn THEN used' = {} ELSE armed
  <2>1. CASE EventIdx /\ cbOn
    <3>1. armed' = (used' = {})
      BY <1>3, <2>1, Zenon
    <3>2. NextIsArmed'
      BY <2>1, <3>1, Zenon DEF NextIsArmed
    <3> QED
      BY <1>3, <3>2 DEF TypeOK, Bufs, NoBuf
  <2>2. CASE ~(EventIdx /\ cbOn)
    <3>1. armed' = armed
      BY <1>3, <2>2, Zenon
    <3> QED
      BY <1>3, <2>2, <3>1 DEF NextIsArmed, TypeOK, Bufs, NoBuf
  <2> QED
    BY <2>1, <2>2
<1>4. b = last_sbuf => b # NoBuf
  BY TxAssumption DEF TxAssumption, TypeOK, NoBuf
<1> QED
  BY <1>1, <1>2, <1>3, <1>4, Zenon DEF GetTxBuf, GetUsed

LEMMA NextIsArmedStep ==
  TypeOK /\ NextIsArmed /\ [Next]_vars => NextIsArmed'
<1> SUFFICES ASSUME TypeOK, NextIsArmed, [Next]_vars PROVE NextIsArmed'
  OBVIOUS
<1>1. ASSUME UNCHANGED <<used, cbOn, armed>> PROVE NextIsArmed'
  BY <1>1 DEF NextIsArmed
<1>2. ASSUME EnableCb, UNCHANGED used PROVE NextIsArmed'
  BY <1>2, Zenon DEF EnableCb, NextIsArmed
<1>3. ASSUME DisableCb PROVE NextIsArmed'
  BY <1>3, Zenon DEF DisableCb, NextIsArmed
<1>4. ASSUME NEW s \in Senders, Upref(s) PROVE NextIsArmed'
  BY <1>1, <1>2, <1>4 DEF Upref, UpdateSleepers
<1>5. ASSUME NEW s \in Senders, Downref(s) PROVE NextIsArmed'
  BY <1>1, <1>3, <1>5 DEF Downref, AfterWait, LastDown, UpdateSleepers
<1>6. ASSUME NEW s \in Senders, FirstGet(s) \/ Cond(s) \/ Recheck(s) PROVE NextIsArmed'
  BY <1>6, GetTxBufWake DEF FirstGet, Cond, Recheck, KeepWoken
<1>7. ASSUME NEW b \in Bufs, RemotePut(b) PROVE NextIsArmed'
  <2>1. used' # {} /\ cbOn' = cbOn /\ armed' = (armed /\ ~EventIdx)
    BY <1>7 DEF RemotePut
  <2> QED
    BY <2>1, Zenon DEF NextIsArmed
<1>8. ASSUME NEW s \in Senders,
             \/ Call(s) \/ Prepare(s) \/ Unpark(s) \/ TimerExpire(s)
             \/ Fill(s) \/ Add(s) \/ Signal(s)
      PROVE  UNCHANGED <<used, cbOn, armed>>
  BY <1>8 DEF Call, Prepare, Unpark, TimerExpire, Fill, Add, AddOutbuf, Signal,
              ringVars, cbVars
<1>9. ASSUME RemoteTake \/ XmitDone \/ BreakQueue \/ UNCHANGED vars
      PROVE  UNCHANGED <<used, cbOn, armed>>
  BY <1>9 DEF RemoteTake, XmitDone, BreakQueue, vars, ringVars, cbVars
<1> QED
  BY <1>1, <1>4, <1>5, <1>6, <1>7, <1>8, <1>9 DEF Next, SenderStep

LEMMA WakeupStep ==
  TypeOK /\ SleepersCount /\ NextIsArmed /\ NoLostWakeup /\ [Next]_vars
    => NoLostWakeup'
<1> SUFFICES ASSUME TypeOK, SleepersCount, NextIsArmed, NoLostWakeup, [Next]_vars,
                    NEW t \in Senders,
                    pc'[t] = "parked", ~woken'[t], used' # {}, ~broken'
             PROVE  irqPending'
  BY DEF NoLostWakeup
<1>0. \A s \in Senders : pc[s] = "parked" => cbOn
  <2> SUFFICES ASSUME NEW s \in Senders, pc[s] = "parked" PROVE cbOn
    OBVIOUS
  <2>1. s \in Sleeping
    BY DEF Sleeping, Waiting
  <2>2. Cardinality(Sleeping) # 0
    BY <2>1, SleepingFinite, FS_EmptySet
  <2> QED
    BY <2>2, SleepingFinite DEF SleepersCount
<1>1. ASSUME pc[t] = "parked", woken[t] => woken'[t], used' \subseteq used,
             broken => broken', irqPending => irqPending'
      PROVE  irqPending'
  BY <1>1 DEF NoLostWakeup
<1>2. ASSUME NEW s \in Senders, FirstGet(s) \/ Cond(s) PROVE irqPending'
  <2>1. pc[t] = "parked"
    BY <1>2 DEF FirstGet, Cond, Return, TypeOK
  <2>2. used' \subseteq used
    BY <1>2, GetTxBufWake DEF FirstGet, Cond
  <2> QED
    BY <1>1, <1>2, <2>1, <2>2 DEF FirstGet, Cond
<1>3. ASSUME NEW s \in Senders, Recheck(s) PROVE irqPending'
  <2>1. PICK b \in Bufs \cup {NoBuf} :
           /\ GetTxBuf(b)
           /\ pc' = [pc EXCEPT ![s] = IF b = NoBuf /\ wret[s] = "running"
                                        THEN "parked" ELSE "downref"]
    BY <1>3 DEF Recheck, KeepWoken
  <2>2. used' \subseteq used /\ (b = NoBuf => used' = {} \/ broken)
    BY <1>3, <2>1, GetTxBufWake DEF Recheck, KeepWoken
  <2>3. CASE t = s
    BY <1>3, <2>1, <2>2, <2>3 DEF Recheck, KeepWoken, TypeOK
  <2>4. CASE t # s
    BY <1>1, <1>3, <2>1, <2>2, <2>4 DEF Recheck, KeepWoken, TypeOK
  <2> QED
    BY <2>3, <2>4
<1>4. ASSUME NEW s \in Senders,
             \/ Call(s) \/ Upref(s) \/ Prepare(s) \/ Unpark(s) \/ TimerExpire(s)
             \/ Downref(s) \/ Fill(s) \/ Add(s) \/ Signal(s)
      PROVE  irqPending'
  <2>1. UNCHANGED <<used, broken, irqPending>>
    BY <1>4 DEF Call, Upref, Prepare, Unpark, TimerExpire, Downref, AfterWait, LastDown, Fill, Add, AddOutbuf,
                Signal, UpdateSleepers, ringVars, cbVars
  <2>2. pc[t] = "parked" /\ (woken[t] => woken'[t])
    <3>1. CASE Call(s) \/ Fill(s) \/ Add(s) \/ Signal(s)
      BY <3>1 DEF Call, Fill, Add, AddOutbuf, Signal, Return, TypeOK
    <3>2. CASE Upref(s) \/ Prepare(s) \/ Unpark(s) \/ TimerExpire(s)
      BY <3>2 DEF Upref, Prepare, Unpark, TimerExpire, TypeOK
    <3>3. CASE Downref(s)
      BY <3>3 DEF Downref, AfterWait, LastDown, Return, TypeOK
    <3> QED
      BY <1>4, <3>1, <3>2, <3>3
  <2> QED
    BY <1>1, <2>1, <2>2
<1>5. ASSUME NEW b \in Bufs, RemotePut(b) PROVE irqPending'
  <2>1. pc[t] = "parked" /\ ~woken[t] /\ ~broken
    BY <1>5 DEF RemotePut, callVars
  <2>2. irqPending' = (irqPending \/ armed)
    BY <1>5 DEF RemotePut
  <2>3. CASE used = {}
    BY <1>0, <2>1, <2>2, <2>3 DEF NextIsArmed
  <2>4. CASE used # {}
    BY <2>1, <2>2, <2>4 DEF NoLostWakeup
  <2> QED
    BY <2>3, <2>4
<1>6. ASSUME XmitDone PROVE irqPending'
  <2>1. used # {} /\ ~broken /\ pc[t] = "parked"
    BY <1>6 DEF XmitDone, ringVars
  <2>2. woken'[t]
    BY <1>6, <2>1 DEF XmitDone, Queued
  <2> QED
    BY <2>2
<1>7. CASE RemoteTake \/ BreakQueue
  BY <1>1, <1>7 DEF RemoteTake, BreakQueue, cbVars
<1>8. CASE UNCHANGED vars
  BY <1>1, <1>8 DEF vars, ringVars, cbVars
<1> QED
  BY <1>2, <1>3, <1>4, <1>5, <1>6, <1>7, <1>8 DEF Next, SenderStep

\* rpmsg_upref_sleepers and rpmsg_downref_sleepers count the sleeping senders,
\* and the tx-complete interrupts are on exactly while there are some.
THEOREM SleepersCorrect == Spec => []SleepersCount
<1>1. Init => SleepersCount
  <2> SUFFICES ASSUME Init PROVE SleepersCount
    OBVIOUS
  <2>1. Sleeping = {}
    BY DEF Init, Sleeping, Waiting
  <2> QED
    BY <2>1, FS_EmptySet DEF Init, SleepersCount
<1> QED
  BY <1>1, SleepersStep, TypeCorrect, PTL DEF Spec

\* A sender never sleeps on a buffer it could have: the wake-up that the used
\* ring of a working queue calls for has happened or is on its way.
THEOREM WakeupCorrect == Spec => []NoLostWakeup
<1>1. Init => NextIsArmed /\ NoLostWakeup
  BY DEF Init, NextIsArmed, NoLostWakeup
<1> QED
  BY <1>1, NextIsArmedStep, WakeupStep, SleepersCorrect, TypeCorrect, PTL DEF Spec

(***************************************************************************)
(* Buffers.  A never-used buffer is safe to hand out because everything     *)
(* owned so far lies below last_sbuf.                                       *)
(***************************************************************************)

HandedOut ==
  /\ \A b \in RingBufs \cup lost : b < last_sbuf
  /\ \A s \in Senders : buf[s] < last_sbuf

OwnInv == OneOwner /\ HandedOut /\ NoBufferForgotten

\* The avail ring after virtqueue_add_outbuf of a buffer that is not in it.
LEMMA UnreadAppend ==
  ASSUME avail \in Seq(Bufs), NEW b \in Bufs, avail' = Append(avail, b)
  PROVE  /\ Unread' = Unread \cup {b}
         /\ (\A i, j \in DOMAIN avail : i # j => avail[i] # avail[j]) /\ b \notin Unread
            => \A i, j \in DOMAIN avail' : i # j => avail'[i] # avail'[j]
<1>1. /\ Len(avail) \in Nat /\ DOMAIN avail = 1 .. Len(avail)
      /\ DOMAIN avail' = 1 .. Len(avail) + 1
      /\ \A i \in 1 .. Len(avail) : avail'[i] = avail[i]
      /\ avail'[Len(avail) + 1] = b
  BY AppendProperties, LenProperties
<1>2. Unread' = Unread \cup {b}
  BY <1>1 DEF Unread
<1>3. ASSUME \A i, j \in DOMAIN avail : i # j => avail[i] # avail[j], b \notin Unread,
             NEW i \in DOMAIN avail', NEW j \in DOMAIN avail', i # j
      PROVE  avail'[i] # avail'[j]
  BY <1>1, <1>3 DEF Unread
<1> QED
  BY <1>2, <1>3

\* The avail ring after the remote took its first buffer.
LEMMA UnreadTail ==
  ASSUME avail \in Seq(Bufs), avail # <<>>, avail' = Tail(avail),
         \A i, j \in DOMAIN avail : i # j => avail[i] # avail[j]
  PROVE  /\ Head(avail) \in Unread
         /\ Unread' = Unread \ {Head(avail)}
         /\ \A i, j \in DOMAIN avail' : i # j => avail'[i] # avail'[j]
<1>1. /\ Len(avail) \in Nat \ {0} /\ DOMAIN avail = 1 .. Len(avail)
      /\ DOMAIN avail' = 1 .. Len(avail) - 1
      /\ \A i \in 1 .. Len(avail) - 1 : avail'[i] = avail[i + 1]
      /\ Head(avail) = avail[1]
  BY HeadTailProperties, LenProperties, EmptySeq
<1>2. Head(avail) \in Unread
  BY <1>1 DEF Unread
<1>3. Unread' \subseteq Unread \ {Head(avail)}
  <2> SUFFICES ASSUME NEW i \in 1 .. Len(avail) - 1
               PROVE  avail[i + 1] \in Unread \ {avail[1]}
    BY <1>1 DEF Unread
  <2>1. i + 1 \in DOMAIN avail /\ 1 \in DOMAIN avail /\ i + 1 # 1
    BY <1>1
  <2> QED
    BY <2>1 DEF Unread
<1>4. Unread \ {Head(avail)} \subseteq Unread'
  <2> SUFFICES ASSUME NEW i \in 2 .. Len(avail) PROVE avail[i] \in Unread'
    BY <1>1 DEF Unread
  <2>1. i - 1 \in DOMAIN avail' /\ avail'[i - 1] = avail[i]
    BY <1>1
  <2> QED
    BY <2>1 DEF Unread
<1>5. ASSUME NEW i \in DOMAIN avail', NEW j \in DOMAIN avail', i # j
      PROVE  avail'[i] # avail'[j]
  <2>1. i + 1 \in DOMAIN avail /\ j + 1 \in DOMAIN avail /\ i + 1 # j + 1
    BY <1>1, <1>5
  <2> QED
    BY <1>1, <2>1
<1> QED
  BY <1>2, <1>3, <1>4, <1>5

\* A buffer returned by get_a_tx_buf is nobody else's.
LEMMA GetTxBufOwn ==
  ASSUME TypeOK, OwnInv, NEW b \in Bufs \cup {NoBuf}, GetTxBuf(b),
         UNCHANGED <<avail, held, lost>>
  PROVE  /\ b \notin RingBufs' \cup lost
         /\ b # NoBuf => \A s \in Senders : buf[s] # b
         /\ b < last_sbuf' /\ last_sbuf <= last_sbuf'
         /\ used' \subseteq used /\ RingBufs \subseteq RingBufs' \cup {b}
         /\ \A c \in Bufs : c < last_sbuf' => c < last_sbuf \/ c = b
<1> USE DEF TypeOK, OwnInv, OneOwner, HandedOut
<1>1. Unread' = Unread
  BY DEF Unread
<1>2. RingBufs' = Unread \cup held \cup used' /\ NoBuf \notin RingBufs' \cup lost
  <2>1. used' \subseteq Bufs
    BY GetTxBufType
  <2>2. Unread \subseteq Bufs
    BY LenProperties, ElementOfSeq DEF Unread
  <2>3. NoBuf \notin Bufs
    BY TxAssumption DEF TxAssumption, Bufs, NoBuf
  <2> QED
    BY <1>1, <2>1, <2>2, <2>3 DEF RingBufs
<1>3. CASE /\ last_sbuf < NTx /\ b = last_sbuf /\ last_sbuf' = last_sbuf + 1
           /\ UNCHANGED <<used, armed>>
  BY <1>1, <1>2, <1>3, TxAssumption DEF TxAssumption, Bufs, NoBuf, RingBufs
<1>4. CASE /\ b \in used /\ used' = used \ {b} /\ last_sbuf' = last_sbuf
  BY <1>1, <1>2, <1>4 DEF RingBufs
<1>5. CASE b = NoBuf /\ used' = used /\ last_sbuf' = last_sbuf
  BY <1>1, <1>2, <1>5 DEF RingBufs, NoBuf
<1> QED
  BY <1>3, <1>4, <1>5 DEF GetTxBuf, GetUsed

LEMMA OwnStep == TypeInv /\ OwnInv /\ [Next]_vars => OwnInv'
<1> SUFFICES ASSUME TypeInv, OwnInv, [Next]_vars PROVE OwnInv'
  OBVIOUS
<1> USE DEF TypeInv, TypeOK, BufferPhase
<1>1. ASSUME UNCHANGED <<last_sbuf, avail, held, used, lost, buf>> PROVE OwnInv'
  BY <1>1 DEF OwnInv, OneOwner, HandedOut, NoBufferForgotten, RingBufs, Unread
<1>2. ASSUME NEW s \in Senders, buf[s] = NoBuf,
             NEW b \in Bufs \cup {NoBuf}, GetTxBuf(b),
             buf' = [buf EXCEPT ![s] = b], UNCHANGED <<avail, held, lost>>
      PROVE  OwnInv'
  <2> USE <1>2, GetTxBufOwn
  <2>0. Unread' = Unread
    BY DEF Unread
  <2>1. OneOwner'
    <3>1. \A t \in Senders : buf'[t] \notin RingBufs' \cup lost'
      BY <2>0 DEF OwnInv, OneOwner, RingBufs
    <3>2. \A t, u \in Senders : t # u /\ buf'[t] # NoBuf => buf'[t] # buf'[u]
      BY DEF OwnInv, OneOwner
    <3> QED
      BY <2>0, <3>1, <3>2 DEF OwnInv, OneOwner
  <2>2. HandedOut'
    <3>1. RingBufs' \subseteq RingBufs
      BY <2>0 DEF RingBufs
    <3>2. \A c \in RingBufs \cup lost : c \in Bufs
      BY ElementOfSeq, LenProperties DEF RingBufs, Unread
    <3>3. last_sbuf \in Int /\ last_sbuf' \in Int
      BY GetTxBufType, TxAssumption DEF TxAssumption
    <3> QED
      BY <3>1, <3>2, <3>3, TxAssumption DEF TxAssumption, OwnInv, HandedOut, Bufs, NoBuf
  <2>3. NoBufferForgotten'
    <3> SUFFICES ASSUME NEW c \in Bufs, c < last_sbuf'
                 PROVE  c \in RingBufs' \cup lost' \/ \E t \in Senders : buf'[t] = c
      BY DEF NoBufferForgotten
    <3>1. CASE c = b
      BY <3>1
    <3>2. CASE c # b
      <4>1. c \in RingBufs \cup lost \/ \E t \in Senders : buf[t] = c
        BY <3>2 DEF OwnInv, NoBufferForgotten
      <4>2. ASSUME NEW t \in Senders, buf[t] = c PROVE buf'[t] = c
        BY <3>2, <4>2, TxAssumption DEF TxAssumption, Bufs, NoBuf
      <4> QED
        BY <3>2, <4>1, <4>2
    <3> QED
      BY <3>1, <3>2
  <2> QED
    BY <2>1, <2>2, <2>3 DEF OwnInv
<1>3. ASSUME NEW s \in Senders, FirstGet(s) \/ Cond(s) \/ Recheck(s) PROVE OwnInv'
  <2>1. buf[s] = NoBuf
    BY <1>3 DEF FirstGet, Cond, Recheck, KeepWoken
  <2>2. PICK b \in Bufs \cup {NoBuf} : GetTxBuf(b) /\ buf' = [buf EXCEPT ![s] = b]
    BY <1>3 DEF FirstGet, Cond, Recheck, KeepWoken
  <2> QED
    BY <1>2, <1>3, <2>1, <2>2 DEF FirstGet, Cond, Recheck, KeepWoken
<1>4. ASSUME NEW s \in Senders, Add(s) PROVE OwnInv'
  <2> DEFINE b == buf[s]
  <2>1. b \in Bufs /\ b # NoBuf /\ b < last_sbuf /\ b \notin RingBufs \cup lost
    BY <1>4, TxAssumption DEF TxAssumption, Add, AddOutbuf, OwnInv, OneOwner, HandedOut, Bufs, NoBuf
  <2>2. /\ buf' = [buf EXCEPT ![s] = NoBuf]
        /\ UNCHANGED <<last_sbuf, held, used>>
        /\ \/ avail' = Append(avail, b) /\ lost' = lost
           \/ avail' = avail /\ lost' = lost \cup {b}
    BY <1>4 DEF Add, AddOutbuf, devVars
  <2>3. NoBuf \notin RingBufs \cup lost
    BY ElementOfSeq, LenProperties, TxAssumption DEF TxAssumption, RingBufs, Unread, Bufs, NoBuf
  <2>4. /\ RingBufs' \cup lost' = RingBufs \cup lost \cup {b}
        /\ \A i, j \in DOMAIN avail' : i # j => avail'[i] # avail'[j]
        /\ Unread' \cap (held' \cup used' \cup lost') = {}
        /\ used' \cap lost' = {} /\ held' \cap (used' \cup lost') = {}
    <3>1. CASE avail' = Append(avail, b) /\ lost' = lost
      <4>1. Unread' = Unread \cup {b}
        BY <2>1, <3>1, UnreadAppend
      <4>2. \A i, j \in DOMAIN avail' : i # j => avail'[i] # avail'[j]
        BY <2>1, <3>1, UnreadAppend DEF OwnInv, OneOwner, RingBufs
      <4> QED
        BY <2>1, <2>2, <3>1, <4>1, <4>2 DEF OwnInv, OneOwner, RingBufs
    <3>2. CASE avail' = avail /\ lost' = lost \cup {b}
      <4>1. Unread' = Unread
        BY <3>2 DEF Unread
      <4> QED
        BY <2>1, <2>2, <3>2, <4>1 DEF OwnInv, OneOwner, RingBufs
    <3> QED
      BY <2>2, <3>1, <3>2
  <2>5. OneOwner'
    BY <2>1, <2>2, <2>3, <2>4 DEF OwnInv, OneOwner
  <2>6. HandedOut'
    BY <2>1, <2>2, <2>4 DEF OwnInv, HandedOut, NoBuf
  <2>7. NoBufferForgotten'
    BY <2>2, <2>4 DEF OwnInv, NoBufferForgotten
  <2> QED
    BY <2>5, <2>6, <2>7 DEF OwnInv
<1>5. ASSUME RemoteTake PROVE OwnInv'
  <2>1. UNCHANGED <<last_sbuf, used, lost, buf>>
    BY <1>5 DEF RemoteTake, devVars, callVars
  <2>2. /\ Head(avail) \in Unread /\ Unread' = Unread \ {Head(avail)}
        /\ \A i, j \in DOMAIN avail' : i # j => avail'[i] # avail'[j]
    BY <1>5, UnreadTail DEF RemoteTake, OwnInv, OneOwner
  <2>3. held' = held \cup {Head(avail)}
    BY <1>5 DEF RemoteTake
  <2>4. RingBufs' = RingBufs
    BY <2>1, <2>2, <2>3 DEF RingBufs
  <2>5. OneOwner'
    BY <2>1, <2>2, <2>3, <2>4 DEF OwnInv, OneOwner, RingBufs
  <2>6. HandedOut' /\ NoBufferForgotten'
    BY <2>1, <2>4 DEF OwnInv, HandedOut, NoBufferForgotten
  <2> QED
    BY <2>5, <2>6 DEF OwnInv
<1>6. ASSUME NEW b \in Bufs, RemotePut(b) PROVE OwnInv'
  <2>1. /\ UNCHANGED <<last_sbuf, avail, lost, buf>>
        /\ b \in held /\ held' = held \ {b} /\ used' = used \cup {b}
    BY <1>6 DEF RemotePut, devVars, callVars
  <2>2. Unread' = Unread /\ RingBufs' = RingBufs
    BY <2>1 DEF Unread, RingBufs
  <2> QED
    BY <2>1, <2>2 DEF OwnInv, OneOwner, HandedOut, NoBufferForgotten
<1>7. ASSUME NEW s \in Senders,
             \/ Call(s) \/ Upref(s) \/ Prepare(s) \/ Unpark(s) \/ TimerExpire(s)
             \/ Downref(s) \/ Fill(s) \/ Signal(s)
      PROVE  UNCHANGED <<last_sbuf, avail, held, used, lost, buf>>
  BY <1>7 DEF Call, Upref, Prepare, Unpark, TimerExpire, Downref, AfterWait, LastDown, Fill, Signal,
              UpdateSleepers, devVars, ringVars, callVars
<1>8. ASSUME XmitDone \/ BreakQueue \/ UNCHANGED vars
      PROVE  UNCHANGED <<last_sbuf, avail, held, used, lost, buf>>
  BY <1>8 DEF XmitDone, BreakQueue, vars, devVars, ringVars, callVars
<1> QED
  BY <1>1, <1>3, <1>4, <1>5, <1>6, <1>7, <1>8 DEF Next, SenderStep

LEMMA TypeInvariant == Spec => []TypeInv
BY TypeCorrect DEF TypeInv

LEMMA OwnInvariant == Spec => []OwnInv
<1>1. Init => OwnInv
  <2> SUFFICES ASSUME Init PROVE OwnInv
    OBVIOUS
  <2>1. Unread = {} /\ RingBufs = {} /\ lost = {}
    BY DEF Init, Unread, RingBufs
  <2>2. OneOwner /\ HandedOut
    BY <2>1 DEF Init, OneOwner, HandedOut, NoBuf
  <2>3. NoBufferForgotten
    BY DEF Init, NoBufferForgotten, Bufs
  <2> QED
    BY <2>2, <2>3 DEF OwnInv
<1> QED
  BY <1>1, TypeInvariant, OwnStep, PTL DEF Spec

\* A tx buffer has at most one owner among the senders, the ring and the
\* buffers lost for good: get_a_tx_buf never hands out one that is in use.
THEOREM OwnershipCorrect == Spec => []OneOwner
BY OwnInvariant, PTL DEF OwnInv

\* A tx buffer that get_a_tx_buf has handed out is with a sender, in the ring,
\* or lost by a failed send: none drops out of the pool on any other path.
THEOREM NothingForgottenCorrect == Spec => []NoBufferForgotten
BY OwnInvariant, PTL DEF OwnInv

\* The remote processor never sees a message change: what is in the ring is not
\* owned by a sender, and only an owner writes.
THEOREM MessageStableCorrect == Spec => MessageStable
<1>1. TypeInv /\ OwnInv /\ [Next]_vars
        => [\A b \in Unread \cup held : msg'[b] = msg[b]]_vars
  <2> SUFFICES ASSUME TypeInv, OwnInv, Next, NEW b \in Unread \cup held
               PROVE  msg'[b] = msg[b]
    BY Zenon
  <2>1. CASE msg' = msg
    BY <2>1
  <2>2. ASSUME NEW s \in Senders, Fill(s) PROVE msg'[b] = msg[b]
    <3>1. b # buf[s]
      BY DEF OwnInv, OneOwner, RingBufs
    <3>2. b \in Bufs
      BY ElementOfSeq, LenProperties DEF TypeInv, TypeOK, Unread
    <3> QED
      BY <2>2, <3>1, <3>2 DEF Fill, TypeInv, TypeOK
  <2>3. ASSUME NEW s \in Senders,
               \/ Call(s) \/ FirstGet(s) \/ Upref(s) \/ Cond(s) \/ Prepare(s)
               \/ Recheck(s) \/ Unpark(s) \/ TimerExpire(s) \/ Downref(s)
               \/ Add(s) \/ Signal(s)
        PROVE  msg' = msg
    BY <2>3 DEF Call, FirstGet, Upref, Cond, Prepare, Recheck, KeepWoken, Unpark, TimerExpire,
                Downref, AfterWait, LastDown, Add, AddOutbuf, Signal, UpdateSleepers, ringVars
  <2>4. ASSUME RemoteTake \/ (\E c \in Bufs : RemotePut(c)) \/ XmitDone \/ BreakQueue
        PROVE  msg' = msg
    BY <2>4 DEF RemoteTake, RemotePut, XmitDone, BreakQueue, ringVars
  <2> QED
    BY <2>1, <2>2, <2>3, <2>4 DEF Next, SenderStep
<1>2. Spec => [][Next]_vars
  BY PTL DEF Spec
<1> QED
  BY <1>1, <1>2, OwnInvariant, TypeInvariant, PTL DEF MessageStable

\* With at least as many descriptors as tx buffers, adding a buffer fails on a
\* broken queue only.
THEOREM RingNeverFullCorrect == Spec => []RingNeverFull
<1>1. Init => RingNeverFull
  BY DEF Init, RingNeverFull
<1>2. ASSUME TypeInv, OwnInv, RingNeverFull, [Next]_vars PROVE RingNeverFull'
  <2>1. CASE lost' = lost /\ (broken => broken')
    BY <1>2, <2>1 DEF RingNeverFull
  <2>2. ASSUME NEW s \in Senders, Add(s) PROVE RingNeverFull'
    <3>1. CASE CanAdd
      BY <1>2, <2>1, <2>2, <3>1 DEF Add, AddOutbuf
    <3>2. CASE ~CanAdd
      <4> SUFFICES ASSUME RingSize >= NTx, ~broken PROVE FALSE
        BY <2>2 DEF Add, AddOutbuf, RingNeverFull
      <4>1. buf[s] \in Bufs /\ buf[s] \notin RingBufs
        BY <1>2, <2>2 DEF Add, AddOutbuf, TypeInv, TypeOK, BufferPhase, OwnInv, OneOwner
      <4>2. RingBufs \subseteq Bufs \ {buf[s]}
        BY <1>2, <4>1, ElementOfSeq, LenProperties DEF RingBufs, Unread, TypeInv, TypeOK
      <4>3. IsFiniteSet(Bufs) /\ Cardinality(Bufs) = NTx
        BY FS_Interval, TxAssumption DEF TxAssumption, Bufs
      <4>4. IsFiniteSet(Bufs \ {buf[s]}) /\ Cardinality(Bufs \ {buf[s]}) = NTx - 1
        BY <4>1, <4>3, FS_RemoveElement
      <4>5. Cardinality(RingBufs) <= NTx - 1
        BY <4>2, <4>4, FS_Subset
      <4>6. Cardinality(RingBufs) \in Nat
        BY <4>2, <4>4, FS_Subset, FS_CardinalityType
      <4> QED
        BY <3>2, <4>5, <4>6, TxAssumption DEF TxAssumption, CanAdd
    <3> QED
      BY <3>1, <3>2
  <2>3. ASSUME NEW s \in Senders,
               \/ Call(s) \/ FirstGet(s) \/ Upref(s) \/ Cond(s) \/ Prepare(s)
               \/ Recheck(s) \/ Unpark(s) \/ TimerExpire(s) \/ Downref(s)
               \/ Fill(s) \/ Signal(s)
        PROVE  UNCHANGED <<lost, broken>>
    BY <2>3 DEF Call, FirstGet, Upref, Cond, Prepare, Recheck, KeepWoken, Unpark, TimerExpire,
                Downref, AfterWait, LastDown, Fill, Signal, UpdateSleepers, ringVars
  <2>4. ASSUME RemoteTake \/ (\E c \in Bufs : RemotePut(c)) \/ XmitDone
               \/ BreakQueue \/ UNCHANGED vars
        PROVE  lost' = lost /\ (broken => broken')
    BY <2>4 DEF RemoteTake, RemotePut, XmitDone, BreakQueue, ringVars, vars
  <2> QED
    BY <1>2, <2>1, <2>2, <2>3, <2>4 DEF Next, SenderStep
<1>3. Spec => [][Next]_vars
  BY PTL DEF Spec
<1>4. Spec => Init
  BY DEF Spec
<1> QED
  BY <1>1, <1>2, <1>3, <1>4, OwnInvariant, TypeInvariant, PTL

(***************************************************************************)
(* Refinement.  A buffer about to be added holds its owner's message, and   *)
(* there is room for it: the messages in the avail ring are in pairwise     *)
(* different buffers, none of them the one being added.                     *)
(***************************************************************************)

Filled == \A s \in Senders : pc[s] = "add" => msg[buf[s]] = s

wireBar == [i \in DOMAIN avail |-> msg[avail[i]]]
busyBar == {s \in Senders : pc[s] # "idle"}

LEMMA FilledStep == TypeInv /\ OwnInv /\ Filled /\ [Next]_vars => Filled'
<1> SUFFICES ASSUME TypeInv, OwnInv, Filled, [Next]_vars,
                    NEW t \in Senders, pc'[t] = "add"
             PROVE  msg'[buf'[t]] = t
  BY DEF Filled
<1> USE DEF TypeInv, TypeOK, Filled
<1>1. ASSUME pc[t] = "add", buf'[t] = buf[t], msg' = msg PROVE msg'[buf'[t]] = t
  BY <1>1
<1>2. ASSUME NEW s \in Senders, Fill(s) PROVE msg'[buf'[t]] = t
  <2>1. buf' = buf /\ buf[s] \in Bufs
    BY <1>2 DEF Fill, callVars, BufferPhase
  <2>2. CASE t = s
    BY <1>2, <2>1, <2>2 DEF Fill
  <2>3. CASE t # s
    <3>1. pc[t] = "add" /\ buf[t] # buf[s] /\ buf[t] \in Bufs
      BY <1>2, <2>1, <2>3 DEF Fill, OwnInv, OneOwner, BufferPhase, NoBuf
    <3> QED
      BY <1>2, <2>1, <3>1 DEF Fill
  <2> QED
    BY <2>2, <2>3
<1>3. ASSUME NEW s \in Senders, FirstGet(s) \/ Cond(s) \/ Recheck(s) \/ Downref(s)
      PROVE  msg'[buf'[t]] = t
  <2>1. pc[t] = "add" /\ t # s
    BY <1>3 DEF FirstGet, Cond, Recheck, KeepWoken, Downref, AfterWait, LastDown, Return
  <2>2. buf'[t] = buf[t] /\ msg' = msg
    BY <1>3, <2>1 DEF FirstGet, Cond, Recheck, KeepWoken, Downref, AfterWait, LastDown, UpdateSleepers
  <2> QED
    BY <2>1, <2>2
<1>4. ASSUME NEW s \in Senders, Add(s) PROVE msg'[buf'[t]] = t
  <2>1. pc[t] = "add" /\ t # s
    BY <1>4 DEF Add, AddOutbuf, Return
  <2> QED
    BY <1>4, <2>1 DEF Add, AddOutbuf
<1>5. ASSUME NEW s \in Senders,
             \/ Call(s) \/ Upref(s) \/ Prepare(s) \/ Unpark(s) \/ TimerExpire(s)
             \/ Signal(s)
      PROVE  pc[t] = "add" /\ buf' = buf /\ msg' = msg
  BY <1>5 DEF Call, Upref, Prepare, Unpark, TimerExpire, Signal, UpdateSleepers,
              ringVars, callVars
<1>6. ASSUME \/ RemoteTake \/ (\E b \in Bufs : RemotePut(b)) \/ XmitDone
             \/ BreakQueue \/ UNCHANGED vars
      PROVE  pc[t] = "add" /\ buf' = buf /\ msg' = msg
  BY <1>6 DEF RemoteTake, RemotePut, XmitDone, BreakQueue, vars, ringVars, callVars
<1> QED
  BY <1>1, <1>2, <1>3, <1>4, <1>5, <1>6 DEF Next, SenderStep

\* The message being added fits into the abstract queue.
LEMMA RoomToSend ==
  ASSUME TypeInv, OwnInv, NEW s \in Senders, pc[s] = "add"
  PROVE  Len(avail) < NTx
<1> DEFINE T == Bufs \ {buf[s]}
<1>1. buf[s] \in Bufs /\ buf[s] \notin Unread
  BY DEF TypeInv, TypeOK, BufferPhase, OwnInv, OneOwner, RingBufs
<1>2. IsFiniteSet(T) /\ Cardinality(T) = NTx - 1
  <2>1. IsFiniteSet(Bufs) /\ Cardinality(Bufs) = NTx
    BY FS_Interval, TxAssumption DEF TxAssumption, Bufs
  <2> QED
    BY <1>1, <2>1, FS_RemoveElement
<1>3. Len(avail) \in Nat /\ DOMAIN avail = 1 .. Len(avail)
  BY LenProperties DEF TypeInv, TypeOK
<1>4. avail \in Injection(1 .. Len(avail), T)
  <2>1. avail \in [1 .. Len(avail) -> T]
    BY <1>1, <1>3, LenProperties, ElementOfSeq DEF TypeInv, TypeOK, Unread
  <2>2. \A i, j \in 1 .. Len(avail) : avail[i] = avail[j] => i = j
    BY <1>3 DEF OwnInv, OneOwner
  <2> QED
    BY <2>1, <2>2 DEF Injection, IsInjective
<1>5. Len(avail) <= NTx - 1
  <2>1. IsFiniteSet(1 .. Len(avail)) /\ Cardinality(1 .. Len(avail)) = Len(avail)
    <3>1. 1 \in Int /\ Len(avail) \in Int
      BY <1>3
    <3>2. Cardinality(1 .. Len(avail))
            = IF 1 > Len(avail) THEN 0 ELSE Len(avail) - 1 + 1
      BY <3>1, FS_Interval, Zenon
    <3>3. IsFiniteSet(1 .. Len(avail))
      BY <3>1, FS_Interval, Zenon
    <3> QED
      BY <1>3, <3>2, <3>3
  <2> HIDE DEF T
  <2>2. Cardinality(1 .. Len(avail)) <= Cardinality(T)
    BY <1>2, <1>4, FS_Injection, Zenon
  <2> QED
    BY <1>2, <2>1, <2>2
<1> QED
  BY <1>3, <1>5, TxAssumption DEF TxAssumption

LEMMA RefinesStep ==
  TypeInv /\ OwnInv /\ Filled /\ [Next]_vars => [Abs!Next]_(Abs!vars)
<1> SUFFICES ASSUME TypeInv, OwnInv, Filled, [Next]_vars
             PROVE  [Abs!Next]_(Abs!vars)
  OBVIOUS
<1> USE DEF TypeInv, TypeOK
<1>0. /\ Len(avail) \in Nat /\ DOMAIN avail = 1 .. Len(avail)
      /\ DOMAIN wireBar = DOMAIN avail /\ Len(wireBar) = Len(avail)
      /\ \A i \in DOMAIN avail : avail[i] \in Bufs
      /\ wireBar \in Seq(Senders \cup {"none"})
  BY LenProperties, ElementOfSeq DEF wireBar
<1>1. ASSUME UNCHANGED <<avail, msg, ret>>, busyBar' = busyBar
      PROVE  UNCHANGED Abs!vars
  BY <1>1 DEF Abs!vars, busyBar
<1>2. ASSUME NEW s \in Senders, NEW e \in Errors, s \in busyBar,
             Return(s, e), UNCHANGED <<avail, msg>>
      PROVE  Abs!Fail(s, e)
  BY <1>2 DEF Abs!Fail, Return, busyBar, Labels, Waiting
<1>3. ASSUME NEW s \in Senders, Call(s) PROVE Abs!Next
  <2>1. UNCHANGED <<avail, msg>>
    BY <1>3 DEF Call, ringVars
  <2>2. CASE \E get \in {"get", "tryget"} : pc' = [pc EXCEPT ![s] = get]
    <3>1. Abs!Begin(s)
      BY <1>3, <2>1, <2>2 DEF Call, Abs!Begin
    <3> QED
      BY <3>1 DEF Abs!Next
  <2>3. CASE \E e \in {"EINVAL", "EMSGSIZE"} : ret' = [ret EXCEPT ![s] = e]
    <3>1. \E e \in Errors : Abs!Refuse(s, e)
      BY <1>3, <2>1, <2>3 DEF Call, Abs!Refuse, Errors
    <3> QED
      BY <3>1 DEF Abs!Next
  <2> QED
    BY <1>3, <2>2, <2>3 DEF Call
<1>4. ASSUME NEW s \in Senders, FirstGet(s) PROVE [Abs!Next]_(Abs!vars)
  <2>1. UNCHANGED <<avail, msg>>
    BY <1>4 DEF FirstGet
  <2>2. CASE Return(s, "ENOMEM")
    <3>1. "ENOMEM" \in Errors /\ s \in busyBar
      BY <1>4 DEF FirstGet, Errors, busyBar
    <3> QED
      BY <1>2, <2>1, <2>2, <3>1 DEF Abs!Next
  <2>3. CASE /\ \E l \in {"fill", "upref"} : pc' = [pc EXCEPT ![s] = l]
             /\ ret' = ret
    <3>1. busyBar' = busyBar
      BY <1>4, <2>3 DEF FirstGet, busyBar
    <3> QED
      BY <1>1, <2>1, <2>3, <3>1
  <2> QED
    BY <1>4, <2>2, <2>3 DEF FirstGet
<1>5. ASSUME NEW s \in Senders, Downref(s) PROVE [Abs!Next]_(Abs!vars)
  <2>1. UNCHANGED <<avail, msg>>
    BY <1>5 DEF Downref, AfterWait, LastDown, UpdateSleepers
  <2>2. CASE Return(s, "ERESTARTSYS")
    <3>1. "ERESTARTSYS" \in Errors /\ s \in busyBar
      BY <1>5 DEF Downref, AfterWait, LastDown, Errors, busyBar
    <3> QED
      BY <1>2, <2>1, <2>2, <3>1 DEF Abs!Next
  <2>3. CASE /\ \E l \in {"fill", "upref"} : pc' = [pc EXCEPT ![s] = l]
             /\ ret' = ret
    <3>1. busyBar' = busyBar
      BY <1>5, <2>3 DEF Downref, AfterWait, LastDown, busyBar
    <3> QED
      BY <1>1, <2>1, <2>3, <3>1
  <2> QED
    BY <1>5, <2>2, <2>3 DEF Downref, AfterWait, LastDown
<1>6. ASSUME NEW s \in Senders, Fill(s) PROVE UNCHANGED Abs!vars
  <2>1. UNCHANGED <<avail, ret>> /\ msg' = [msg EXCEPT ![buf[s]] = s]
    BY <1>6 DEF Fill, callVars
  <2>2. \A i \in DOMAIN avail : avail[i] # buf[s]
    BY DEF OwnInv, OneOwner, RingBufs, Unread
  <2>3. wireBar' = wireBar
    <3>1. \A i \in DOMAIN avail : msg'[avail[i]] = msg[avail[i]]
      BY <1>0, <2>1, <2>2
    <3> QED
      BY <2>1, <3>1 DEF wireBar
  <2>4. busyBar' = busyBar
    BY <1>6 DEF Fill, busyBar
  <2> QED
    BY <2>1, <2>3, <2>4 DEF Abs!vars, wireBar, busyBar
<1>7. ASSUME NEW s \in Senders, Add(s) PROVE Abs!Next
  <2>1. s \in busyBar /\ msg' = msg
    BY <1>7 DEF Add, AddOutbuf, busyBar
  <2>2. CASE CanAdd
    <3> DEFINE b == buf[s]
    <3>1. avail' = Append(avail, b) /\ Return(s, "ok")
      BY <1>7, <2>2 DEF Add, AddOutbuf
    <3>2. b \in Bufs /\ msg[b] = s
      BY <1>7 DEF Add, AddOutbuf, BufferPhase, Filled
    <3>3. /\ DOMAIN avail' = 1 .. Len(avail) + 1
          /\ \A i \in 1 .. Len(avail) : avail'[i] = avail[i]
          /\ avail'[Len(avail) + 1] = b
      BY <1>0, <3>1, <3>2, AppendProperties, LenProperties
    <3>4. wireBar' = Append(wireBar, s)
      <4>1. /\ DOMAIN Append(wireBar, s) = 1 .. Len(avail) + 1
            /\ \A i \in 1 .. Len(avail) : Append(wireBar, s)[i] = wireBar[i]
            /\ Append(wireBar, s)[Len(avail) + 1] = s
            /\ Append(wireBar, s) \in Seq(Senders \cup {"none"})
        BY <1>0, AppendProperties, LenProperties
      <4>2. \A i \in 1 .. Len(avail) + 1 : wireBar'[i] = Append(wireBar, s)[i]
        BY <1>0, <2>1, <3>2, <3>3, <4>1 DEF wireBar
      <4>3. wireBar' \in [1 .. Len(avail) + 1 -> Senders \cup {"none"}]
        BY <1>0, <2>1, <3>2, <3>3 DEF wireBar
      <4>4. Append(wireBar, s) \in [1 .. Len(avail) + 1 -> Senders \cup {"none"}]
        BY <1>0, <4>1, LenProperties
      <4> QED
        BY <4>2, <4>3, <4>4
    <3>5. Len(wireBar) < NTx
      BY <1>0, <1>7, RoomToSend DEF Add, AddOutbuf
    <3>6. busyBar' = busyBar \ {s} /\ ret' = [ret EXCEPT ![s] = "ok"]
      BY <3>1 DEF Return, busyBar
    <3>7. Abs!Deliver(s)
      BY <2>1, <3>4, <3>5, <3>6 DEF Abs!Deliver, wireBar, busyBar
    <3> QED
      BY <3>7 DEF Abs!Next
  <2>3. CASE ~CanAdd
    <3>1. avail' = avail /\ \E e \in Errors : Return(s, e)
      BY <1>7, <2>3 DEF Add, AddOutbuf, Errors
    <3> QED
      BY <1>2, <2>1, <3>1 DEF Abs!Next
  <2> QED
    BY <2>2, <2>3
<1>8. ASSUME RemoteTake PROVE Abs!Consume
  <2>1. avail # <<>> /\ avail' = Tail(avail) /\ UNCHANGED <<msg, ret, pc>>
    BY <1>8 DEF RemoteTake, callVars
  <2>2. /\ Len(avail) >= 1 /\ wireBar # <<>>
        /\ DOMAIN avail' = 1 .. Len(avail) - 1
        /\ \A i \in 1 .. Len(avail) - 1 : avail'[i] = avail[i + 1]
    BY <1>0, <2>1, HeadTailProperties, LenProperties, EmptySeq
  <2>3. wireBar' = Tail(wireBar)
    <3>1. /\ Tail(wireBar) \in [1 .. Len(avail) - 1 -> Senders \cup {"none"}]
          /\ \A i \in 1 .. Len(avail) - 1 : Tail(wireBar)[i] = wireBar[i + 1]
      <4>1. /\ Tail(wireBar) \in Seq(Senders \cup {"none"})
            /\ Len(Tail(wireBar)) = Len(avail) - 1
            /\ \A i \in 1 .. Len(avail) - 1 : Tail(wireBar)[i] = wireBar[i + 1]
        BY <1>0, <2>2, HeadTailProperties
      <4> QED
        BY <4>1, LenProperties
    <3>2. /\ wireBar' \in [1 .. Len(avail) - 1 -> Senders \cup {"none"}]
          /\ \A i \in 1 .. Len(avail) - 1 : wireBar'[i] = wireBar[i + 1]
      BY <1>0, <2>1, <2>2 DEF wireBar
    <3> QED
      BY <3>1, <3>2
  <2> QED
    BY <2>1, <2>2, <2>3 DEF Abs!Consume, wireBar, busyBar
<1>9. ASSUME NEW s \in Senders,
             \/ Upref(s) \/ Cond(s) \/ Prepare(s) \/ Recheck(s) \/ Unpark(s)
             \/ TimerExpire(s) \/ Signal(s)
      PROVE  UNCHANGED Abs!vars
  <2>1. UNCHANGED <<avail, msg, ret>>
    BY <1>9 DEF Upref, Cond, Prepare, Recheck, KeepWoken, Unpark, TimerExpire, Signal,
                UpdateSleepers, ringVars, callVars
  <2>2. busyBar' = busyBar
    BY <1>9 DEF Upref, Cond, Prepare, Recheck, KeepWoken, Unpark, TimerExpire, Signal, busyBar
  <2> QED
    BY <1>1, <2>1, <2>2
<1>10. ASSUME \/ (\E b \in Bufs : RemotePut(b)) \/ XmitDone \/ BreakQueue
              \/ UNCHANGED vars
       PROVE  UNCHANGED Abs!vars
  <2>1. UNCHANGED <<avail, msg, ret, pc>>
    BY <1>10 DEF RemotePut, XmitDone, BreakQueue, vars, ringVars, callVars
  <2> QED
    BY <1>1, <2>1 DEF busyBar
<1> QED
  BY <1>3, <1>4, <1>5, <1>6, <1>7, <1>8, <1>9, <1>10 DEF Next, SenderStep, Abs!Next

\* The send functions implement their abstract specification: every call that
\* returns "ok" put its own message, whole and once, at the end of the remote
\* processor's queue, and no other call put anything there.
THEOREM Implements == Spec => ImplementsAbs
<1>1. Init => Abs!Init
  <2> SUFFICES ASSUME Init PROVE Abs!Init
    OBVIOUS
  <2>1. [i \in DOMAIN avail |-> msg[avail[i]]] = <<>>
    BY DEF Init
  <2>2. {s \in Senders : pc[s] # "idle"} = {}
    BY DEF Init
  <2> QED
    BY <2>1, <2>2 DEF Init, Abs!Init
<1>2. Init => Filled
  BY DEF Init, Filled
<1>3. Spec => []Filled
  BY <1>2, FilledStep, TypeInvariant, OwnInvariant, PTL DEF Spec
<1> QED
  BY <1>1, <1>3, RefinesStep, TypeInvariant, OwnInvariant, PTL
  DEF Spec, ImplementsAbs, Abs!Spec
==============================================================================
