------------------------------- MODULE HelloDev -------------------------------
(***************************************************************************)
(* The character device HELLO_MODULE with its blocking read                *)
(* (src/moduleUbuntuTest/moduleTest/moduleTest.c): hello_open,             *)
(* hello_release, hello_write and hello_read, called by any number of      *)
(* threads.  The driver has no lock: every access to struct myDev that     *)
(* another thread can see is a step of its own.                            *)
(*                                                                         *)
(* The two buffers are two halves each, because copies are not atomic; a   *)
(* half is the number of the write it comes from, so "+ 2" is not seen.    *)
(* Reads and writes are of the full size DEV_BUFF_MAX; larger ones return  *)
(* -1 before they touch anything.                                          *)
(*                                                                         *)
(* Init, Next, Spec and the like are named after the driver, so that a     *)
(* module can extend this one and ModuleLife.                              *)
(***************************************************************************)
EXTENDS Naturals, FiniteSets

CONSTANTS
  Readers,   \* threads that read
  Writers,   \* threads that write
  Openers,   \* threads that open and close the device
  MaxWrites  \* bound on the number of writes

ASSUME HelloAssumption == MaxWrites \in Nat

VARIABLES
  \* struct myDev
  enable_read,
  pInputData, pOutputData,
  iOpenCount,
  \* threads
  pc,
  mine,   \* the number of the write of a writer
  reg,    \* iOpenCount as an opener has loaded it
  woken,  \* taken off my_queue by a wake-up since it queued itself
  opens,  \* openers that have the device open
  \* history
  writes, \* number of writes
  seen    \* seen[h]: the writes whose half h a read has put in pOutputData

devVars   == <<enable_read, pInputData, pOutputData, iOpenCount>>
helloVars == <<devVars, pc, mine, reg, woken, opens, writes, seen>>

Threads == Readers \cup Writers \cup Openers
Halves  == 1 .. 2

HelloInit ==
  /\ enable_read = FALSE
  /\ pInputData = [h \in Halves |-> 0] /\ pOutputData = [h \in Halves |-> 0]
  /\ iOpenCount = 0
  /\ pc = [t \in Threads |-> "idle"]
  /\ mine = [t \in Writers |-> 0]
  /\ reg = [t \in Openers |-> 0]
  /\ woken = [t \in Readers |-> FALSE]
  /\ opens = {}
  /\ writes = 0
  /\ seen = [h \in Halves |-> {0}]

Move(t, from, to) ==
  /\ pc[t] = from
  /\ pc' = [pc EXCEPT ![t] = to]

-----------------------------------------------------------------------------
(* hello_write                                                              *)

Write(t) ==
  /\ writes < MaxWrites
  /\ Move(t, "idle", "copy1")
  /\ writes' = writes + 1
  /\ mine' = [mine EXCEPT ![t] = writes']
  /\ UNCHANGED <<devVars, reg, woken, opens, seen>>

\* copy_from_user, half by half.  Where the user's memory cannot be read it
\* fills the rest with zeroes; the result is only logged.
CopyIn(t, h) ==
  /\ IF h = 1 THEN Move(t, "copy1", "copy2") ELSE Move(t, "copy2", "wake")
  /\ \E v \in {mine[t], 0} :
       /\ pInputData' = [pInputData EXCEPT ![h] = v]
       /\ mine' = [mine EXCEPT ![t] = v]
  /\ UNCHANGED <<enable_read, pOutputData, iOpenCount, reg, woken, opens, writes,
                 seen>>

Queued == {"check", "sleep"}

\* wake_up_interruptible(&(myDev->my_queue)) ...
WriteWake(t) ==
  /\ Move(t, "wake", "enable")
  /\ woken' = [r \in Readers |-> woken[r] \/ pc[r] \in Queued]
  /\ UNCHANGED <<devVars, mine, reg, opens, writes, seen>>

\* ... and only then myDev->enable_read = 1.
WriteEnable(t) ==
  /\ Move(t, "enable", "idle")
  /\ enable_read' = TRUE
  /\ UNCHANGED <<pInputData, pOutputData, iOpenCount, mine, reg, woken, opens,
                 writes, seen>>

-----------------------------------------------------------------------------
(* hello_read                                                               *)

Read(t) ==
  /\ Move(t, "idle", "prepare")
  /\ UNCHANGED <<devVars, mine, reg, woken, opens, writes, seen>>

\* wait_event_interruptible_timeout: queue the thread, ...
ReadPrepare(t) ==
  /\ Move(t, "prepare", "check")
  /\ woken' = [woken EXCEPT ![t] = FALSE]
  /\ UNCHANGED <<devVars, mine, reg, opens, writes, seen>>

\* ... check the condition, sleep, and check again when woken.
ReadCheck(t) ==
  /\ \/ enable_read /\ Move(t, "check", "clear")
     \/ ~enable_read /\ Move(t, "check", "sleep")
  /\ UNCHANGED <<devVars, mine, reg, woken, opens, writes, seen>>

ReadWoken(t) ==
  /\ woken[t]
  /\ Move(t, "sleep", "prepare")
  /\ UNCHANGED <<devVars, mine, reg, woken, opens, writes, seen>>

ReadTimeout_WaitsAgain(t) ==
  /\ Move(t, "sleep", "prepare")
  /\ UNCHANGED <<devVars, mine, reg, woken, opens, writes, seen>>

\* The time is up or a signal comes; the read goes on as if there were data.
ReadTimeout(t) ==
  /\ Move(t, "sleep", "clear")
  /\ UNCHANGED <<devVars, mine, reg, woken, opens, writes, seen>>

\* myDev->enable_read = 0, before the data are taken.
ReadClear(t) ==
  /\ Move(t, "clear", "data1")
  /\ enable_read' = FALSE
  /\ UNCHANGED <<pInputData, pOutputData, iOpenCount, mine, reg, woken, opens,
                 writes, seen>>

ReadData_ClearsLate(t, h) ==
  /\ IF h = 1 THEN Move(t, "data1", "data2") ELSE Move(t, "data2", "out")
  /\ pOutputData' = [pOutputData EXCEPT ![h] = pInputData[h]]
  /\ seen' = [seen EXCEPT ![h] = @ \cup {pInputData[h]}]
  /\ enable_read' = FALSE
  /\ UNCHANGED <<pInputData, iOpenCount, mine, reg, woken, opens, writes>>

\* pOutputData[i] = pInputData[i] + 2, half by half.
ReadData(t, h) ==
  /\ IF h = 1 THEN Move(t, "data1", "data2") ELSE Move(t, "data2", "out")
  /\ pOutputData' = [pOutputData EXCEPT ![h] = pInputData[h]]
  /\ seen' = [seen EXCEPT ![h] = @ \cup {pInputData[h]}]
  /\ UNCHANGED <<enable_read, pInputData, iOpenCount, mine, reg, woken, opens,
                 writes>>

\* copy_to_user, and the return.
ReadReturn(t) ==
  /\ Move(t, "out", "idle")
  /\ UNCHANGED <<devVars, mine, reg, woken, opens, writes, seen>>

ReadSteps(t) ==
  \/ ReadPrepare(t) \/ ReadCheck(t) \/ ReadWoken(t) \/ ReadClear(t)
  \/ \E h \in Halves : ReadData(t, h)
  \/ ReadReturn(t)

-----------------------------------------------------------------------------
(* hello_open and hello_release: iOpenCount++ and iOpenCount--, each a load  *)
(* and a store.                                                             *)

Load(t) ==
  /\ Move(t, "idle", "store")
  /\ reg' = [reg EXCEPT ![t] = iOpenCount]
  /\ UNCHANGED <<devVars, mine, woken, opens, writes, seen>>

OpenStore(t) ==
  /\ t \notin opens
  /\ Move(t, "store", "idle")
  /\ iOpenCount' = reg[t] + 1
  /\ opens' = opens \cup {t}
  /\ UNCHANGED <<enable_read, pInputData, pOutputData, mine, reg, woken, writes,
                 seen>>

ReleaseStore(t) ==
  /\ t \in opens
  /\ Move(t, "store", "idle")
  /\ iOpenCount' = reg[t] - 1
  /\ opens' = opens \ {t}
  /\ UNCHANGED <<enable_read, pInputData, pOutputData, mine, reg, woken, writes,
                 seen>>

-----------------------------------------------------------------------------
HelloNext ==
  \/ \E t \in Writers :
       Write(t) \/ (\E h \in Halves : CopyIn(t, h)) \/ WriteWake(t) \/ WriteEnable(t)
  \/ \E t \in Readers : Read(t) \/ ReadSteps(t) \/ ReadTimeout(t)
  \/ \E t \in Openers : Load(t) \/ OpenStore(t) \/ ReleaseStore(t)

\* A reader that can run runs.  The timer is strongly fair: a reader that is
\* woken for nothing sleeps for the remaining time only.
Fairness ==
  \A t \in Readers : WF_helloVars(ReadSteps(t)) /\ SF_helloVars(ReadTimeout(t))

HelloSpec == HelloInit /\ [][HelloNext]_helloVars /\ Fairness

-----------------------------------------------------------------------------
(* Correctness.                                                             *)

HelloTypeOK ==
  /\ enable_read \in BOOLEAN
  /\ pInputData \in [Halves -> 0 .. MaxWrites]
  /\ pOutputData \in [Halves -> 0 .. MaxWrites]
  /\ iOpenCount \in Nat
  /\ pc \in [Threads -> {"idle", "copy1", "copy2", "wake", "enable", "prepare",
                         "check", "sleep", "clear", "data1", "data2", "out", "store"}]
  /\ mine \in [Writers -> 0 .. MaxWrites]
  /\ reg \in [Openers -> Nat]
  /\ woken \in [Readers -> BOOLEAN]
  /\ opens \subseteq Openers
  /\ writes \in 0 .. MaxWrites
  /\ seen \in [Halves -> SUBSET (0 .. MaxWrites)]

Taking == {"data1", "data2"}

\* No write is overlooked: when no call is half-way and enable_read is clear,
\* some read has taken what the input buffer holds.  A write may lose its
\* notification to a read that is clearing the flag, but not its data.
NothingOverlooked ==
  (\A t \in Writers : pc[t] = "idle") /\ (\A t \in Readers : pc[t] \notin Taking)
    /\ ~enable_read
  => \A h \in Halves : pInputData[h] \in seen[h]

\* A read returns in the end, with or without data.
ReadReturns == \A t \in Readers : pc[t] = "prepare" ~> pc[t] = "idle"

-----------------------------------------------------------------------------
(* What the comments promise and the code does not keep; see the README.    *)

\* "wake the blocked read": after a write no reader is left asleep although
\* enable_read is set.
WriteWakesReaders ==
  \A t \in Readers :
     pc[t] = "sleep" /\ ~woken[t] /\ enable_read =>
       \E w \in Writers : pc[w] = "wake"

\* "count of opens of the driver's device node".
OpenCountExact ==
  (\A t \in Openers : pc[t] = "idle") => iOpenCount = Cardinality(opens)
=============================================================================
