----------------------------- MODULE RpmsgTxAbs ------------------------------
(***************************************************************************)
(* What the rpmsg send functions promise their callers, without buffers,   *)
(* interrupts or sleeping: a call either puts its message, once and whole, *)
(* at the end of the remote processor's queue and returns "ok", or returns *)
(* an error and the remote never sees the message.  The queue is bounded   *)
(* and is read in order.                                                   *)
(***************************************************************************)
EXTENDS Naturals, Sequences

CONSTANTS
  Senders,  \* callers
  Capacity, \* messages that fit
  Errors    \* what a call may return instead of "ok"

VARIABLES
  wire,     \* messages sent and not read yet, each named by its sender
  busy,     \* senders inside a call
  ret       \* what the last call of each sender returned

vars == <<wire, busy, ret>>

Init ==
  /\ wire = <<>>
  /\ busy = {}
  /\ ret = [s \in Senders |-> "none"]

Begin(s) ==
  /\ s \notin busy
  /\ busy' = busy \cup {s}
  /\ ret' = [ret EXCEPT ![s] = "none"]
  /\ UNCHANGED wire

Refuse(s, e) ==
  /\ s \notin busy
  /\ ret' = [ret EXCEPT ![s] = e]
  /\ UNCHANGED <<wire, busy>>

Deliver(s) ==
  /\ s \in busy
  /\ Len(wire) < Capacity
  /\ wire' = Append(wire, s)
  /\ busy' = busy \ {s}
  /\ ret' = [ret EXCEPT ![s] = "ok"]

Fail(s, e) ==
  /\ s \in busy
  /\ busy' = busy \ {s}
  /\ ret' = [ret EXCEPT ![s] = e]
  /\ UNCHANGED wire

Consume ==
  /\ wire # <<>>
  /\ wire' = Tail(wire)
  /\ UNCHANGED <<busy, ret>>

Next ==
  \/ \E s \in Senders :
       \/ Begin(s)
       \/ Deliver(s)
       \/ \E e \in Errors : Refuse(s, e) \/ Fail(s, e)
  \/ Consume

Spec == Init /\ [][Next]_vars
=============================================================================
