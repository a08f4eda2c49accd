-------------------------- MODULE RpmsgChannelProofs --------------------------
(***************************************************************************)
(* Safety of channels, their endpoints and their removal, for any number   *)
(* of devices, names, drivers, channels and addresses.  That               *)
(* rpmsg_dev_remove destroys its own endpoint is proved as long as no      *)
(* channel goes from a driver with a callback to one without: that is what *)
(* the run RpmsgChannelStale shows.                                        *)
(***************************************************************************)
EXTENDS RpmsgChannel, TLAPS

LEMMA FreeIsAddr ==
  ASSUME NEW v, NEW want \in Addrs \cup {AddrAny}, NEW a \in FreeAddrs(v, want)
  PROVE  a \in Addrs
BY DEF FreeAddrs, DynamicAddrs, Addrs

\* What CreateEpt does to ept.
LEMMA CreateEptAt ==
  ASSUME NEW e \in Epts, NEW v \in Vdevs, NEW want \in Addrs \cup {AddrAny},
         NEW c \in Chans \cup {None}, CreateEpt(e, v, want, c), TypeOK
  PROVE  \E a \in Addrs :
           /\ ept[e] = None
           /\ ept' = [ept EXCEPT ![e] = [vdev |-> v, owner |-> c, addr |-> a]]
           /\ ept' \in [Epts -> Endpoint \cup {None}]
<1>1. PICK a \in FreeAddrs(v, want) :
        ept[e] = None /\ ept' = [ept EXCEPT ![e] = [vdev |-> v, owner |-> c, addr |-> a]]
  BY DEF CreateEpt
<1>2. a \in Addrs
  BY FreeIsAddr
<1>3. [vdev |-> v, owner |-> c, addr |-> a] \in Endpoint
  BY <1>2 DEF Endpoint
<1> QED
  BY <1>1, <1>2, <1>3 DEF TypeOK

LEMMA TypeInit == Init => TypeOK
BY DEF Init, TypeOK

USE DEF Registered, Children

\* What a probe does to its channel and to the endpoint it takes.
LEMMA BindAt ==
  ASSUME NEW c \in Registered, NEW d \in Drivers, NEW e \in Epts, TypeOK,
         BindEndpoint(c, d, e)
  PROVE  \E a \in Addrs, new \in Channel :
           /\ ept[e] = None
           /\ ept' = [ept EXCEPT ![e] = [vdev |-> chan[c].vdev, owner |-> c, addr |-> a]]
           /\ ept' \in [Epts -> Endpoint \cup {None}]
           /\ chan' = [chan EXCEPT ![c] = new]
           /\ new.phase = "probing" /\ new.driver = d /\ new.ept = e /\ new.src = a
           /\ new.vdev = chan[c].vdev /\ new.name = chan[c].name /\ new.dst = chan[c].dst
<1>1. chan[c] \in Channel
  BY DEF TypeOK
<1>2. PICK a \in Addrs :
        /\ ept[e] = None
        /\ ept' = [ept EXCEPT ![e] = [vdev |-> chan[c].vdev, owner |-> c, addr |-> a]]
        /\ ept' \in [Epts -> Endpoint \cup {None}]
  BY <1>1, CreateEptAt DEF BindEndpoint, Channel
<1>3. ept'[e].addr = a
  BY <1>2 DEF TypeOK
<1> DEFINE new == [chan[c] EXCEPT !.phase = "probing", !.driver = d, !.ept = e,
                                  !.src = a]
<1>4. chan' = [chan EXCEPT ![c] = new]
  BY <1>3 DEF BindEndpoint
<1>5. /\ new \in Channel
      /\ new.phase = "probing" /\ new.driver = d /\ new.ept = e /\ new.src = a
      /\ new.vdev = chan[c].vdev /\ new.name = chan[c].name /\ new.dst = chan[c].dst
  BY <1>1 DEF Channel
<1> HIDE DEF new
<1> QED
  BY <1>2, <1>4, <1>5

\* A change of one registered channel.
LEMMA OneChannelType ==
  ASSUME NEW c \in Registered, TypeOK, NEW new \in Channel \cup {None},
         chan' = [chan EXCEPT ![c] = new]
  PROVE  chan' \in [Chans -> Channel \cup {None}]
BY DEF TypeOK

LEMMA ReleaseType ==
  ASSUME NEW c \in Registered, TypeOK, DestroyOwnEpt(c)
  PROVE  ept' \in [Epts -> Endpoint \cup {None}]
BY DEF TypeOK, DestroyOwnEpt

LEMMA UnregisterType ==
  ASSUME NEW c \in Registered, TypeOK, Unregister(c)
  PROVE  /\ ept' \in [Epts -> Endpoint \cup {None}]
         /\ chan' \in [Chans -> Channel \cup {None}]
BY ReleaseType, OneChannelType DEF Unregister

LEMMA TypeStep == TypeOK /\ [Next]_vars => TypeOK'
<1> SUFFICES ASSUME TypeOK, [Next]_vars PROVE TypeOK'
  OBVIOUS
<1>0. \A c \in Registered : chan[c] \in Channel
  BY DEF TypeOK
<1>1. ASSUME NEW d \in Drivers, LoadDriver(d) \/ UnloadDriver(d) PROVE TypeOK'
  BY <1>1 DEF LoadDriver, UnloadDriver, TypeOK
<1>2. ASSUME NEW c \in Chans, NEW d \in Drivers, ProbeStart(c, d) PROVE TypeOK'
  <2>1. c \in Registered /\ UNCHANGED <<vstate, raced, ns, announced, loaded>>
    BY <1>2 DEF ProbeStart
  <2>2. CASE \E e \in Epts : BindEndpoint(c, d, e)
    BY <2>1, <2>2, BindAt, OneChannelType DEF TypeOK
  <2>3. CASE /\ chan' = [chan EXCEPT ![c].phase = "probing", ![c].driver = d]
             /\ UNCHANGED ept
    <3>1. [chan[c] EXCEPT !.phase = "probing", !.driver = d] \in Channel
      BY <1>0, <2>1 DEF Channel
    <3> QED
      BY <2>1, <2>3, <3>1 DEF TypeOK
  <2> QED
    BY <1>2, <2>2, <2>3 DEF ProbeStart
<1>3. ASSUME NEW c \in Chans, NEW d \in Drivers \cup {None}, SetOverride(c, d)
      PROVE  TypeOK'
  <2>1. c \in Registered
    BY <1>3 DEF SetOverride
  <2>2. [chan[c] EXCEPT !.override = d] \in Channel
    BY <1>0, <2>1 DEF Channel
  <2> QED
    BY <1>3, <2>1, <2>2 DEF SetOverride, TypeOK
<1>4. ASSUME NEW c \in Chans, ProbeOk(c) PROVE TypeOK'
  <2>1. [chan[c] EXCEPT !.phase = "bound"] \in Channel
    BY <1>0, <1>4 DEF Channel, ProbeOk
  <2> QED
    BY <1>4, <2>1 DEF ProbeOk, TypeOK
<1>5. ASSUME NEW c \in Chans, ProbeFail(c) \/ Unbind(c) PROVE TypeOK'
  <2>1. c \in Registered
    BY <1>5 DEF ProbeFail, Unbind
  <2>2. [chan[c] EXCEPT !.phase = "unbound", !.driver = None] \in Channel
    BY <1>0, <2>1 DEF Channel
  <2>3. ept' \in [Epts -> Endpoint \cup {None}]
    BY <1>5, <2>1, ReleaseType DEF ProbeFail, FreeOnFail, Unbind, TypeOK
  <2> QED
    BY <1>5, <2>2, <2>3 DEF ProbeFail, Unbind, TypeOK
<1>6. ASSUME NEW e \in Epts, NEW v \in Vdevs, NEW want \in Addrs \cup {AddrAny},
             OwnCreateEpt(v, e, want)
      PROVE  TypeOK'
  BY <1>6, CreateEptAt DEF OwnCreateEpt, TypeOK
<1>7. ASSUME NEW e \in Epts, OwnDestroyEpt(e) PROVE TypeOK'
  BY <1>7 DEF OwnDestroyEpt, TypeOK
<1>8. ASSUME NEW v \in Vdevs, NEW flag \in {"create", "destroy"},
             NEW name \in Names, NEW dst \in Dsts, NsReceive(v, flag, name, dst)
      PROVE  TypeOK'
  <2>1. [flag |-> flag, name |-> name, dst |-> dst, chan |-> None,
         step |-> "find"] \in NsMessage
    BY DEF NsMessage
  <2>2. announced' \in [Vdevs -> SUBSET (Names \X Dsts)]
    BY <1>8 DEF NsReceive, TypeOK
  <2> QED
    BY <1>8, <2>1, <2>2 DEF NsReceive, TypeOK
<1>9. ASSUME NEW v \in Vdevs, NsCreate(v) PROVE TypeOK'
  <2>1. ns[v] \in NsMessage
    BY <1>9 DEF NsCreate, TypeOK
  <2>2. CASE ns' = [ns EXCEPT ![v] = None] /\ UNCHANGED chan
    BY <1>9, <2>2 DEF NsCreate, TypeOK
  <2>3. ASSUME NEW c \in Chans, c \notin Registered,
               chan' = [chan EXCEPT ![c] =
                 [vdev |-> v, name |-> ns[v].name, dst |-> ns[v].dst,
                  src |-> AddrAny, ept |-> None, override |-> None,
                  driver |-> None, phase |-> "unbound"]],
               ns' = [ns EXCEPT ![v].step = "attach", ![v].chan = c]
        PROVE  TypeOK'
    <3>1. chan'[c] \in Channel
      BY <2>1, <2>3 DEF Channel, NsMessage, TypeOK
    <3>2. [ns[v] EXCEPT !.step = "attach", !.chan = c] \in NsMessage
      BY <2>1 DEF NsMessage
    <3> QED
      BY <1>9, <2>3, <3>1, <3>2 DEF NsCreate, TypeOK
  <2> QED
    BY <1>9, <2>2, <2>3 DEF NsCreate
<1>10. ASSUME NEW v \in Vdevs, NsAttached(v) PROVE TypeOK'
  BY <1>10 DEF NsAttached, TypeOK
<1>11. ASSUME NEW v \in Vdevs, NsFind(v) PROVE TypeOK'
  <2>1. ns[v] \in NsMessage
    BY <1>11 DEF NsFind, TypeOK
  <2>2. ASSUME NEW c \in Chans PROVE [ns[v] EXCEPT !.step = "act", !.chan = c] \in NsMessage
    BY <2>1 DEF NsMessage
  <2> QED
    BY <1>11, <2>2 DEF NsFind, FindDevice, TypeOK
<1>12. ASSUME NEW v \in Vdevs, NsUnregister(v) PROVE TypeOK'
  BY <1>12, UnregisterType DEF NsUnregister, TypeOK
<1>13. ASSUME NEW v \in Vdevs, Reset(v) \/ LoopEnds(v) \/ FreeVrp(v) PROVE TypeOK'
  BY <1>13 DEF Reset, LoopEnds, FreeVrp, TypeOK
<1>14. ASSUME NEW v \in Vdevs, NEW c \in Chans, RemoveChild(v, c) PROVE TypeOK'
  BY <1>14, UnregisterType DEF RemoveChild, TypeOK
<1>15. CASE UNCHANGED vars
  BY <1>15 DEF vars, TypeOK
<1> QED
  BY <1>1, <1>2, <1>3, <1>4, <1>5, <1>6, <1>7, <1>8, <1>9, <1>10, <1>11, <1>12,
     <1>13, <1>14, <1>15 DEF Next

\* The devices, channels, endpoints and name service messages stay what they
\* are through every step of the bus.
THEOREM TypeCorrect == Spec => []TypeOK
BY TypeInit, TypeStep, PTL DEF Spec

-----------------------------------------------------------------------------
(* The endpoint of a channel.                                               *)

\* The channel is with a driver that rpmsg_dev_probe has given an endpoint.
Served(c) == chan[c].phase # "unbound" /\ chan[c].driver \notin NoCallback

\* An endpoint created by a probe is the one of a channel that is still with that
\* driver ...
Owned ==
  \A e \in Epts :
    ept[e] # None /\ ept[e].owner # None =>
      \E c \in Registered : c = ept[e].owner /\ Served(c) /\ chan[c].ept = e

\* ... and the other way round.
EndpointInv ==
  /\ TypeOK
  /\ Owned
  /\ \A c \in Registered : Served(c) =>
       /\ chan[c].ept \in Epts /\ chan[c].src # AddrAny
       /\ ept[chan[c].ept] = [vdev |-> chan[c].vdev, owner |-> c, addr |-> chan[c].src]

\* No channel is with a driver without a callback that has had one with a callback
\* before, whose endpoint it still points to.
NotRebound ==
  \A c \in Registered :
    chan[c].phase # "unbound" /\ chan[c].ept # None => chan[c].driver \notin NoCallback

\* The four things that a step may do to channels and endpoints.  Nothing, as far as
\* these go, ...
Same ==
  /\ UNCHANGED ept
  /\ \A c \in Chans :
       IF c \in Registered
         THEN /\ chan'[c] # None
              /\ chan'[c].ept = chan[c].ept /\ chan'[c].src = chan[c].src
              /\ chan'[c].vdev = chan[c].vdev
              /\ Served(c)' <=> Served(c)
         ELSE chan'[c] # None => ~Served(c)'

\* ... a channel leaves its driver, or the bus, ...
Leaves(c) ==
  /\ \E new : /\ new = None \/ new.phase = "unbound"
              /\ chan' = [chan EXCEPT ![c] = new]
  /\ \/ ept' = ept /\ (~Served(c) \/ chan[c].ept = None)
     \/ ept' = [ept EXCEPT ![chan[c].ept] = None] /\ chan[c].phase # "unbound"
          /\ chan[c].ept # None

\* ... a probe takes a free endpoint for its channel, ...
Binds(c, e) ==
  \E a \in Addrs, new \in Channel :
    /\ ept[e] = None /\ chan[c].phase = "unbound"
    /\ ept' = [ept EXCEPT ![e] = [vdev |-> chan[c].vdev, owner |-> c, addr |-> a]]
    /\ chan' = [chan EXCEPT ![c] = new]
    /\ new.phase = "probing" /\ new.ept = e /\ new.src = a /\ new.vdev = chan[c].vdev
    /\ new.driver \notin NoCallback

\* ... or an endpoint that belongs to no channel comes or goes.
OwnChanges(e) ==
  \E new : /\ UNCHANGED chan
           /\ ept' = [ept EXCEPT ![e] = new]
           /\ ept[e] = None \/ ept[e].owner = None
           /\ new = None \/ new.owner = None

\* What is not NULL is an endpoint.
LEMMA LiveEndpoint ==
  ASSUME TypeOK, NEW e \in Epts, ept[e] # None
  PROVE  ept[e] \in Endpoint /\ ept[e].owner \in Chans \cup {None}
BY DEF TypeOK, Endpoint

LEMMA StepKinds ==
  ASSUME TypeOK, [Next]_vars
  PROVE  \/ Same
         \/ \E c \in Registered : Leaves(c) \/ \E e \in Epts : Binds(c, e)
         \/ \E e \in Epts : OwnChanges(e)
<1>0. \A c \in Registered : chan[c] \in Channel
  BY DEF TypeOK
<1>1. ASSUME NEW c \in Chans, NEW d \in Drivers, ProbeStart(c, d)
      PROVE  Same \/ \E e \in Epts : Binds(c, e)
  <2>1. c \in Registered /\ chan[c].phase = "unbound" /\ chan[c] \in Channel
    BY <1>0, <1>1 DEF ProbeStart
  <2>2. ASSUME NEW e \in Epts, d \notin NoCallback, BindEndpoint(c, d, e)
        PROVE  Binds(c, e)
    <3>1. PICK a \in Addrs, new \in Channel :
            /\ ept[e] = None
            /\ ept' = [ept EXCEPT ![e] = [vdev |-> chan[c].vdev, owner |-> c, addr |-> a]]
            /\ chan' = [chan EXCEPT ![c] = new]
            /\ new.phase = "probing" /\ new.driver = d /\ new.ept = e /\ new.src = a
            /\ new.vdev = chan[c].vdev
      BY <2>1, <2>2, BindAt
    <3> QED
      BY <2>1, <2>2, <3>1 DEF Binds
  <2>3. ASSUME d \in NoCallback, UNCHANGED ept,
               chan' = [chan EXCEPT ![c].phase = "probing", ![c].driver = d]
        PROVE  Same
    <3>1. chan'[c] = [chan[c] EXCEPT !.phase = "probing", !.driver = d]
      BY <2>1, <2>3 DEF TypeOK
    <3>2. /\ chan'[c] \in Channel /\ chan'[c].driver = d /\ chan'[c].ept = chan[c].ept
          /\ chan'[c].src = chan[c].src /\ chan'[c].vdev = chan[c].vdev
      BY <2>1, <3>1 DEF Channel
    <3>3. \A b \in Chans : b # c => chan'[b] = chan[b]
      BY <2>1, <2>3 DEF TypeOK
    <3> QED
      BY <2>1, <2>3, <3>2, <3>3, NoneAssumption DEF Same, Served
  <2> QED
    BY <1>1, <2>2, <2>3 DEF ProbeStart
<1>2. ASSUME NEW c \in Chans,
             ProbeOk(c) \/ \E d \in Drivers \cup {None} : SetOverride(c, d)
      PROVE  Same
  <2>1. c \in Registered /\ chan[c] \in Channel /\ UNCHANGED ept
    BY <1>0, <1>2 DEF ProbeOk, SetOverride
  <2>2. \/ chan'[c] = [chan[c] EXCEPT !.phase = "bound"] /\ chan[c].phase = "probing"
        \/ \E d \in Drivers \cup {None} : chan'[c] = [chan[c] EXCEPT !.override = d]
    BY <1>2, <2>1 DEF ProbeOk, SetOverride, TypeOK
  <2>3. /\ chan'[c] \in Channel /\ chan'[c].ept = chan[c].ept
        /\ chan'[c].src = chan[c].src /\ chan'[c].vdev = chan[c].vdev
        /\ chan'[c].driver = chan[c].driver
        /\ chan'[c].phase # "unbound" <=> chan[c].phase # "unbound"
    BY <2>1, <2>2 DEF Channel
  <2>4. \A b \in Chans : b # c => chan'[b] = chan[b]
    BY <1>2, <2>1 DEF ProbeOk, SetOverride, TypeOK
  <2> QED
    BY <2>1, <2>3, <2>4, NoneAssumption DEF Same, Served
<1>3. ASSUME NEW c \in Chans, ProbeFail(c) \/ Unbind(c)
      PROVE  c \in Registered /\ Leaves(c)
  <2>1. /\ c \in Registered /\ chan[c] \in Channel /\ chan[c].phase # "unbound"
        /\ chan' = [chan EXCEPT ![c] = [chan[c] EXCEPT !.phase = "unbound", !.driver = None]]
    BY <1>0, <1>3 DEF ProbeFail, Unbind
  <2>2. [chan[c] EXCEPT !.phase = "unbound", !.driver = None].phase = "unbound"
    BY <2>1 DEF Channel
  <2>3. \/ ept' = ept /\ (~Served(c) \/ chan[c].ept = None)
        \/ ept' = [ept EXCEPT ![chan[c].ept] = None] /\ chan[c].ept # None
    <3>1. CASE ProbeFail(c)
      <4>1. [ept EXCEPT ![None] = None] = ept
        BY ChannelAssumption DEF TypeOK
      <4> QED
        BY <3>1, <4>1 DEF ProbeFail, FreeOnFail, Served
    <3>2. CASE Unbind(c)
      BY <3>2 DEF Unbind, DestroyOwnEpt
    <3> QED
      BY <1>3, <3>1, <3>2
  <2> QED
    BY <2>1, <2>2, <2>3 DEF Leaves
<1>4. ASSUME NEW c \in Registered, Unregister(c) PROVE Leaves(c)
  <2>1. chan[c].phase \in {"unbound", "bound"}
    BY <1>0, <1>4 DEF Unregister, Channel
  <2> QED
    BY <1>4, <2>1 DEF Unregister, DestroyOwnEpt, Leaves, Served
<1>5. ASSUME NEW e \in Epts, NEW v \in Vdevs, NEW want \in Addrs \cup {AddrAny},
             OwnCreateEpt(v, e, want)
      PROVE  OwnChanges(e)
  <2>1. PICK a \in Addrs :
          /\ ept[e] = None
          /\ ept' = [ept EXCEPT ![e] = [vdev |-> v, owner |-> None, addr |-> a]]
    BY <1>5, CreateEptAt DEF OwnCreateEpt
  <2> DEFINE new == [vdev |-> v, owner |-> None, addr |-> a]
  <2>2. new.owner = None /\ ept' = [ept EXCEPT ![e] = new] /\ UNCHANGED chan
    BY <1>5, <2>1 DEF OwnCreateEpt
  <2> HIDE DEF new
  <2> QED
    BY <2>1, <2>2 DEF OwnChanges
<1>6. ASSUME NEW e \in Epts, OwnDestroyEpt(e) PROVE OwnChanges(e)
  BY <1>6 DEF OwnDestroyEpt, OwnChanges
<1>7. ASSUME UNCHANGED <<chan, ept>> PROVE Same
  BY <1>7 DEF Same, Served
<1>8. ASSUME NEW v \in Vdevs, NsCreate(v) PROVE Same
  <2>1. CASE UNCHANGED chan
    BY <1>7, <1>8, <2>1 DEF NsCreate
  <2>2. ASSUME NEW c \in Chans \ Registered, NEW new, new.phase = "unbound",
               chan' = [chan EXCEPT ![c] = new]
        PROVE  Same
    <3>1. chan'[c].phase = "unbound" /\ \A b \in Chans : b # c => chan'[b] = chan[b]
      BY <2>2 DEF TypeOK
    <3> QED
      BY <1>8, <3>1 DEF Same, Served, NsCreate
  <2>3. [vdev |-> v, name |-> ns[v].name, dst |-> ns[v].dst,
         src |-> AddrAny, ept |-> None, override |-> None,
         driver |-> None, phase |-> "unbound"].phase = "unbound"
    OBVIOUS
  <2> QED
    BY <1>8, <2>1, <2>2, <2>3 DEF NsCreate
<1>9. ASSUME NEW v \in Vdevs,
             NsUnregister(v) \/ \E c \in Chans : RemoveChild(v, c)
      PROVE  \E c \in Registered : Leaves(c)
  BY <1>4, <1>9 DEF NsUnregister, RemoveChild
<1>10. ASSUME NEW d \in Drivers, LoadDriver(d) \/ UnloadDriver(d) PROVE Same
  BY <1>7, <1>10 DEF LoadDriver, UnloadDriver
<1>11. ASSUME NEW v \in Vdevs,
              \/ \E flag \in {"create", "destroy"}, name \in Names, dst \in Dsts :
                   NsReceive(v, flag, name, dst)
              \/ NsAttached(v) \/ NsFind(v)
              \/ Reset(v) \/ LoopEnds(v) \/ FreeVrp(v)
       PROVE  Same
  BY <1>7, <1>11 DEF NsReceive, NsAttached, NsFind, Reset, LoopEnds, FreeVrp
<1>12. CASE UNCHANGED vars
  BY <1>7, <1>12 DEF vars
<1>13. ASSUME NEW c \in Chans,
              \/ \E d \in Drivers : ProbeStart(c, d) \/ SetOverride(c, d)
              \/ SetOverride(c, None) \/ ProbeOk(c) \/ ProbeFail(c) \/ Unbind(c)
       PROVE  Same \/ \E b \in Registered : Leaves(b) \/ \E e \in Epts : Binds(b, e)
  BY <1>1, <1>2, <1>3, <1>13 DEF ProbeStart
<1> QED
  BY <1>5, <1>6, <1>8, <1>9, <1>10, <1>11, <1>12, <1>13 DEF Next

\* Whatever the drivers, an endpoint is owned by the channel it was made for.
LEMMA OwnedStep ==
  ASSUME TypeOK, TypeOK', Owned, [Next]_vars
  PROVE  Owned'
<1> DEFINE OwnedBy(e) == \E c \in Chans : /\ chan'[c] # None /\ c = ept'[e].owner
                                             /\ Served(c)' /\ chan'[c].ept = e
<1> SUFFICES ASSUME NEW e \in Epts, ept'[e] # None, ept'[e].owner # None
             PROVE  OwnedBy(e)
  BY DEF Owned
<1>1. ASSUME ept'[e] = ept[e]
      PROVE  \E c \in Registered : c = ept'[e].owner /\ Served(c) /\ chan[c].ept = e
  BY <1>1 DEF Owned
<1>2. CASE Same
  BY <1>1, <1>2 DEF Same
<1>3. ASSUME NEW b \in Registered, Leaves(b) PROVE OwnedBy(e)
  <2>1. ept'[e] = ept[e] /\ ~(Served(b) /\ chan[b].ept = e)
    BY <1>3, ChannelAssumption DEF Leaves, TypeOK, Served
  <2>2. PICK c \in Registered : c = ept'[e].owner /\ Served(c) /\ chan[c].ept = e
    BY <1>1, <2>1
  <2>3. chan'[c] = chan[c]
    BY <1>3, <2>1, <2>2 DEF Leaves, TypeOK
  <2> QED
    BY <2>2, <2>3 DEF Served
<1>4. ASSUME NEW b \in Registered, NEW f \in Epts, Binds(b, f) PROVE OwnedBy(e)
  <2>1. PICK a \in Addrs, new \in Channel :
          /\ ept[f] = None /\ chan[b].phase = "unbound"
          /\ ept' = [ept EXCEPT ![f] = [vdev |-> chan[b].vdev, owner |-> b, addr |-> a]]
          /\ chan' = [chan EXCEPT ![b] = new]
          /\ new.phase = "probing" /\ new.ept = f /\ new.driver \notin NoCallback
    BY <1>4 DEF Binds
  <2>2. chan'[b] = new /\ \A c \in Chans : c # b => chan'[c] = chan[c]
    BY <2>1 DEF TypeOK
  <2>3. CASE e = f
    BY <2>1, <2>2, <2>3, NoneAssumption DEF TypeOK, Served
  <2>4. CASE e # f
    BY <1>1, <2>1, <2>2, <2>4 DEF TypeOK, Served
  <2> QED
    BY <2>3, <2>4
<1>5. ASSUME NEW f \in Epts, OwnChanges(f) PROVE OwnedBy(e)
  <2>1. ept'[e] = ept[e] /\ UNCHANGED chan
    BY <1>5 DEF OwnChanges, TypeOK
  <2> QED
    BY <1>1, <2>1 DEF Served
<1> QED
  BY <1>2, <1>3, <1>4, <1>5, StepKinds

LEMMA OwnedLeavesNothing == TypeOK /\ Owned => NoEndpointLeak
BY LiveEndpoint DEF Owned, NoEndpointLeak, Served

\* No endpoint of a probe is left behind by a failed probe, an unbind or the
\* removal of its channel, also when rpmsg_chrdev and other drivers take turns.
THEOREM NoEndpointLeakCorrect == Spec => []NoEndpointLeak
<1>1. Init => TypeOK /\ Owned
  BY TypeInit DEF Init, Owned
<1>2. TypeOK /\ Owned /\ [Next]_vars => (TypeOK /\ Owned)'
  BY TypeStep, OwnedStep
<1>3. TypeOK /\ Owned => NoEndpointLeak
  BY OwnedLeavesNothing
<1> QED
  BY <1>1, <1>2, <1>3, PTL DEF Spec

\* The endpoint of a channel with a driver that has a callback is its own.
LEMMA ServedChannel ==
  ASSUME EndpointInv, NEW c \in Registered, Served(c)
  PROVE  /\ chan[c].ept \in Epts
         /\ ept[chan[c].ept] # None /\ ept[chan[c].ept].owner = c
<1>1. chan[c] \in Channel /\ chan[c].ept \in Epts /\ chan[c].src \in Addrs
  BY DEF EndpointInv, TypeOK, Channel
<1>2. ept[chan[c].ept] = [vdev |-> chan[c].vdev, owner |-> c, addr |-> chan[c].src]
  BY DEF EndpointInv
<1>3. [vdev |-> chan[c].vdev, owner |-> c, addr |-> chan[c].src] \in Endpoint
  BY <1>1 DEF Channel, Endpoint
<1> QED
  BY <1>1, <1>2, <1>3, NoneAssumption

LEMMA EndpointStep ==
  ASSUME NotRebound, EndpointInv, [Next]_vars
  PROVE  EndpointInv'
<1>0. TypeOK /\ TypeOK' /\ Owned'
  BY TypeStep, OwnedStep DEF EndpointInv
<1> DEFINE OwnsIts(c) ==
      /\ chan'[c].ept \in Epts /\ chan'[c].src # AddrAny
      /\ ept'[chan'[c].ept] = [vdev |-> chan'[c].vdev, owner |-> c, addr |-> chan'[c].src]
<1> SUFFICES ASSUME NEW c \in Chans, chan'[c] # None, Served(c)'
             PROVE  OwnsIts(c)
  BY <1>0 DEF EndpointInv
<1>1. ASSUME c \in Registered, Served(c), chan'[c].ept = chan[c].ept,
             chan'[c].src = chan[c].src, chan'[c].vdev = chan[c].vdev,
             ept'[chan[c].ept] = ept[chan[c].ept]
      PROVE  OwnsIts(c)
  BY <1>1 DEF EndpointInv
<1>2. CASE Same
  BY <1>1, <1>2 DEF Same
<1>3. ASSUME NEW b \in Registered, Leaves(b) PROVE OwnsIts(c)
  <2>1. c # b /\ chan'[c] = chan[c]
    BY <1>0, <1>3 DEF Leaves, TypeOK, Served
  <2>2. c \in Registered /\ Served(c)
    BY <2>1 DEF Served
  <2>3. ept'[chan[c].ept] = ept[chan[c].ept]
    <3>1. CASE ept' = ept
      BY <3>1
    <3>2. CASE /\ ept' = [ept EXCEPT ![chan[b].ept] = None]
               /\ chan[b].phase # "unbound" /\ chan[b].ept # None
      <4>1. Served(b)
        BY <3>2 DEF NotRebound, Served
      <4>2. chan[b].ept # chan[c].ept
        BY <2>1, <2>2, <4>1, ServedChannel
      <4> QED
        BY <1>0, <2>2, <3>2, <4>2, ServedChannel DEF TypeOK
    <3> QED
      BY <1>3, <3>1, <3>2 DEF Leaves
  <2> QED
    BY <1>1, <2>1, <2>2, <2>3
<1>4. ASSUME NEW b \in Registered, NEW f \in Epts, Binds(b, f) PROVE OwnsIts(c)
  <2>1. PICK a \in Addrs, new \in Channel :
          /\ ept[f] = None
          /\ ept' = [ept EXCEPT ![f] = [vdev |-> chan[b].vdev, owner |-> b, addr |-> a]]
          /\ chan' = [chan EXCEPT ![b] = new]
          /\ new.ept = f /\ new.src = a /\ new.vdev = chan[b].vdev
    BY <1>4 DEF Binds
  <2>2. chan'[b] = new /\ \A d \in Chans : d # b => chan'[d] = chan[d]
    BY <1>0, <2>1 DEF TypeOK
  <2>3. CASE c = b
    BY <1>0, <2>1, <2>2, <2>3, ChannelAssumption DEF TypeOK, Addrs, AddrAny
  <2>4. CASE c # b
    <3>1. c \in Registered /\ Served(c)
      BY <2>2, <2>4 DEF Served
    <3>2. chan[c].ept # f /\ ept'[chan[c].ept] = ept[chan[c].ept]
      BY <1>0, <2>1, <3>1, ServedChannel DEF TypeOK
    <3> QED
      BY <1>1, <2>2, <2>4, <3>1, <3>2
  <2> QED
    BY <2>3, <2>4
<1>5. ASSUME NEW f \in Epts, OwnChanges(f) PROVE OwnsIts(c)
  <2>1. c \in Registered /\ Served(c) /\ chan'[c] = chan[c]
    BY <1>5 DEF OwnChanges, Served
  <2>2. chan[c].ept # f
    BY <1>5, <2>1, ServedChannel, ChannelAssumption DEF OwnChanges
  <2>3. ept'[chan[c].ept] = ept[chan[c].ept]
    BY <1>0, <1>5, <2>1, <2>2 DEF OwnChanges, TypeOK
  <2> QED
    BY <1>1, <2>1, <2>3
<1> QED
  BY <1>0, <1>2, <1>3, <1>4, <1>5, StepKinds

LEMMA EndpointInit == Init => EndpointInv
BY TypeInit DEF Init, EndpointInv, Owned

LEMMA InvOwnEndpoint == EndpointInv /\ NotRebound => OwnEndpoint
BY DEF EndpointInv, NotRebound, OwnEndpoint, Served

\* What rpmsg_dev_remove destroys is the live endpoint that was created for its
\* channel, at the address in rpdev->src, unless a channel that has had a driver
\* with a callback gets one without: finding 2 is the only way to break it.
THEOREM OwnEndpointUnlessRebound == Spec /\ []NotRebound => []OwnEndpoint
<1>1. EndpointInv /\ NotRebound /\ [Next]_vars => EndpointInv'
  BY EndpointStep
<1> QED
  BY <1>1, EndpointInit, InvOwnEndpoint, PTL DEF Spec

\* So it holds if every driver has a callback.
THEOREM OwnEndpointCorrect ==
  ASSUME NoCallback = {}
  PROVE  Spec => []OwnEndpoint
<1>1. TRUE => NotRebound
  BY DEF NotRebound
<1> QED
  BY <1>1, OwnEndpointUnlessRebound, PTL

-----------------------------------------------------------------------------
(* Drivers come and go without a channel changing its identity.             *)

SameIdentity(c) ==
  /\ chan'[c] # None
  /\ chan'[c].vdev = chan[c].vdev
  /\ chan'[c].name = chan[c].name /\ chan'[c].dst = chan[c].dst

\* What the driver core and sysfs do to channel c.
DriverStep(c) ==
  \/ \E d \in Drivers : ProbeStart(c, d)
  \/ \E d \in Drivers \cup {None} : SetOverride(c, d)
  \/ ProbeOk(c) \/ ProbeFail(c) \/ Unbind(c)

LEMMA KeepsIdentity ==
  ASSUME TypeOK, TypeOK', NEW c \in Chans, DriverStep(c)
  PROVE  /\ \A b \in Registered : SameIdentity(b)
         /\ \A b \in Chans \ Registered : chan'[b] = None
         /\ UNCHANGED <<vstate, raced, ns, announced>>
<1>1. c \in Registered /\ UNCHANGED <<vstate, raced, ns, announced>>
  BY DEF DriverStep, ProbeStart, SetOverride, ProbeOk, ProbeFail, Unbind
<1>2. chan[c] \in Channel
  BY <1>1 DEF TypeOK
<1>3. ASSUME NEW new \in Channel, chan' = [chan EXCEPT ![c] = new],
             new.vdev = chan[c].vdev, new.name = chan[c].name, new.dst = chan[c].dst
      PROVE  /\ \A b \in Registered : SameIdentity(b)
             /\ \A b \in Chans \ Registered : chan'[b] = None
  <2>1. chan'[c] = new /\ \A b \in Chans : b # c => chan'[b] = chan[b]
    BY <1>1, <1>3 DEF TypeOK
  <2> QED
    BY <1>1, <1>3, <2>1, NoneAssumption DEF SameIdentity
<1>4. ASSUME NEW d \in Drivers, NEW e \in Epts, BindEndpoint(c, d, e)
      PROVE  /\ \A b \in Registered : SameIdentity(b)
             /\ \A b \in Chans \ Registered : chan'[b] = None
  BY <1>1, <1>3, <1>4, BindAt
<1>5. ASSUME NEW d \in Drivers,
             chan' = [chan EXCEPT ![c].phase = "probing", ![c].driver = d]
      PROVE  /\ \A b \in Registered : SameIdentity(b)
             /\ \A b \in Chans \ Registered : chan'[b] = None
  BY <1>2, <1>3, <1>5 DEF Channel
<1>6. ASSUME NEW d \in Drivers \cup {None}, chan' = [chan EXCEPT ![c].override = d]
      PROVE  /\ \A b \in Registered : SameIdentity(b)
             /\ \A b \in Chans \ Registered : chan'[b] = None
  BY <1>2, <1>3, <1>6 DEF Channel
<1>7. ASSUME chan' = [chan EXCEPT ![c].phase = "bound"]
      PROVE  /\ \A b \in Registered : SameIdentity(b)
             /\ \A b \in Chans \ Registered : chan'[b] = None
  BY <1>2, <1>3, <1>7 DEF Channel
<1>8. ASSUME chan' = [chan EXCEPT ![c].phase = "unbound", ![c].driver = None]
      PROVE  /\ \A b \in Registered : SameIdentity(b)
             /\ \A b \in Chans \ Registered : chan'[b] = None
  BY <1>2, <1>3, <1>8 DEF Channel
<1> QED
  BY <1>1, <1>4, <1>5, <1>6, <1>7, <1>8
     DEF DriverStep, ProbeStart, SetOverride, ProbeOk, ProbeFail, Unbind

-----------------------------------------------------------------------------
(* The removal of a device.                                                 *)

\* Unless the rx thread was at work at the reset, the name service is idle from
\* then on, so no channel is added behind device_for_each_child.
OrphanInv ==
  /\ TypeOK
  /\ \A v \in Vdevs : v \notin raced =>
       /\ vstate[v] # "online" => ns[v] = None
       /\ vstate[v] \in {"closing", "gone"} => Children(v) = {}

LEMMA OrphanInit == Init => OrphanInv
BY TypeInit DEF Init, OrphanInv

LEMMA OrphanStep == OrphanInv /\ [Next]_vars => OrphanInv'
<1> SUFFICES ASSUME OrphanInv, [Next]_vars PROVE OrphanInv'
  OBVIOUS
<1>0. TypeOK /\ TypeOK'
  BY TypeStep DEF OrphanInv
\* No channel is added or moves to another device.
<1>1. ASSUME UNCHANGED <<vstate, raced>>,
             \A v \in Vdevs : ns[v] = None => ns'[v] = None,
             \A c \in Chans : chan'[c] # None =>
                               chan[c] # None /\ chan'[c].vdev = chan[c].vdev
      PROVE  OrphanInv'
  BY <1>0, <1>1 DEF OrphanInv
<1>2. ASSUME NEW c \in Chans, DriverStep(c) PROVE OrphanInv'
  BY <1>0, <1>1, <1>2, KeepsIdentity DEF SameIdentity
<1>3. ASSUME NEW c \in Chans, chan' = [chan EXCEPT ![c] = None],
             UNCHANGED <<vstate, raced>>,
             \A v \in Vdevs : ns[v] = None => ns'[v] = None
      PROVE  OrphanInv'
  BY <1>0, <1>1, <1>3 DEF TypeOK
<1>4. ASSUME NEW v \in Vdevs, NEW c \in Chans, RemoveChild(v, c) PROVE OrphanInv'
  BY <1>3, <1>4 DEF RemoveChild, Unregister
<1>5. ASSUME NEW v \in Vdevs, NsUnregister(v) PROVE OrphanInv'
  BY <1>0, <1>3, <1>5 DEF NsUnregister, Unregister, TypeOK
<1>6. ASSUME NEW e \in Epts,
              \/ \E v \in Vdevs, want \in Addrs \cup {AddrAny} : OwnCreateEpt(v, e, want)
              \/ OwnDestroyEpt(e)
       PROVE  OrphanInv'
  BY <1>6, <1>1 DEF OwnCreateEpt, OwnDestroyEpt
<1>7. ASSUME NEW d \in Drivers, LoadDriver(d) \/ UnloadDriver(d) PROVE OrphanInv'
  BY <1>7, <1>1 DEF LoadDriver, UnloadDriver
<1>8. ASSUME NEW v \in Vdevs, NsAttached(v) \/ NsFind(v) PROVE OrphanInv'
  <2>1. UNCHANGED <<vstate, raced, chan>>
    BY <1>8 DEF NsAttached, NsFind
  <2>2. \A w \in Vdevs : ns[w] = None => ns'[w] = None
    BY <1>0, <1>8 DEF NsAttached, NsFind, TypeOK
  <2> QED
    BY <2>1, <2>2, <1>1
\* A message is only taken by a device that is online or raced.
<1>9. ASSUME NEW v \in Vdevs, NEW flag, NEW name, NEW dst,
              NsReceive(v, flag, name, dst)
       PROVE  OrphanInv'
  BY <1>0, <1>9 DEF NsReceive, OrphanInv, TypeOK
<1>10. ASSUME NEW v \in Vdevs, NsCreate(v) PROVE OrphanInv'
  <2>1. CASE UNCHANGED chan
    <3>1. \A w \in Vdevs : ns[w] = None => ns'[w] = None
      BY <1>0, <1>10 DEF NsCreate, TypeOK
    <3> QED
      BY <1>10, <2>1, <3>1, <1>1 DEF NsCreate
  <2>2. ASSUME NEW c \in Chans, NEW new, new.vdev = v,
               chan' = [chan EXCEPT ![c] = new], UNCHANGED <<vstate, raced>>,
               \A w \in Vdevs : ns[w] = None => ns'[w] = None
        PROVE  OrphanInv'
    <3>1. ns[v] # None /\ (v \notin raced => vstate[v] = "online")
      BY <1>10 DEF NsCreate, OrphanInv
    <3>2. \A w \in Vdevs : w # v => Children(w)' \subseteq Children(w)
      BY <1>0, <2>2 DEF TypeOK
    <3> QED
      BY <1>0, <2>2, <3>1, <3>2 DEF OrphanInv
  <2>3. [vdev |-> v, name |-> ns[v].name, dst |-> ns[v].dst, src |-> AddrAny,
         ept |-> None, override |-> None, driver |-> None, phase |-> "unbound"].vdev = v
    OBVIOUS
  <2>4. \A w \in Vdevs : ns[w] = None => ns'[w] = None
    BY <1>0, <1>10 DEF NsCreate, TypeOK
  <2> QED
    BY <1>10, <2>1, <2>2, <2>3, <2>4 DEF NsCreate
<1>11. ASSUME NEW v \in Vdevs, Reset(v) \/ LoopEnds(v) \/ FreeVrp(v) PROVE OrphanInv'
  BY <1>0, <1>11 DEF Reset, LoopEnds, ChildrenGone, FreeVrp, OrphanInv, TypeOK
<1>12. CASE UNCHANGED vars
  BY <1>0, <1>12 DEF vars, OrphanInv
<1> QED
  BY <1>2, <1>4, <1>5, <1>6, <1>7, <1>8, <1>9, <1>10, <1>11, <1>12
     DEF Next, DriverStep

\* rpmsg_remove leaves no channel of its device behind, unless the rx thread was
\* at work when the device was reset.
THEOREM NoOrphanCorrect == Spec => []NoOrphanChannel
<1>1. OrphanInv => NoOrphanChannel
  BY DEF OrphanInv, NoOrphanChannel
<1> QED
  BY OrphanInit, OrphanStep, <1>1, PTL DEF Spec

-----------------------------------------------------------------------------
(* The channels of a device and the services its remote announces.          *)

Services(v) == {<<chan[c].name, chan[c].dst>> : c \in Children(v)}

\* Between the steps of rpmsg_ns_cb announced differs from the channels by the
\* service of the message under way.
Pending(v) ==
  LET m == ns[v]  service == <<m.name, m.dst>> IN
    /\ m = None => announced[v] = Services(v)
    /\ m # None /\ m.step = "attach" => announced[v] = Services(v)
    /\ m # None /\ m.step = "find" /\ m.flag = "create" =>
         announced[v] = Services(v) \cup {service}
    /\ m # None /\ m.step = "find" /\ m.flag = "destroy" =>
         announced[v] = Services(v) \ {service}
    /\ m # None /\ m.step = "act" =>
         /\ announced[v] = Services(v) \ {service}
         /\ m.chan \in Children(v)
         /\ service = <<chan[m.chan].name, chan[m.chan].dst>>

\* No two channels have the same name and destination.
Distinct ==
  \A b, c \in Registered : chan[b].name = chan[c].name /\ chan[b].dst = chan[c].dst => b = c

\* rpmsg_unregister_device is at a channel of its own device.
ActsOnOwn ==
  \A v \in Vdevs : ns[v] # None /\ ns[v].step = "act" /\ ns[v].chan \in Registered =>
    chan[ns[v].chan].vdev = v

AnnouncedInv ==
  /\ TypeOK /\ Distinct /\ ActsOnOwn
  /\ \A v \in Vdevs : vstate[v] = "online" => Pending(v)

\* No service that an online device is about to add is a channel of another device.
NoClash ==
  \A v \in Vdevs :
    /\ vstate[v] = "online" /\ ns[v] # None /\ ns[v].flag = "create" /\ ns[v].step = "find"
    /\ NameTaken(ns[v].name, ns[v].dst)
    => FindDevice(v, ns[v].name, ns[v].dst) # {}

LEMMA AnnouncedInit == Init => AnnouncedInv
BY TypeInit DEF Init, AnnouncedInv, Distinct, ActsOnOwn, Pending, Services

\* A step of device v does nothing to the others.
Others(v) ==
  \A w \in Vdevs : w # v =>
    /\ vstate'[w] = vstate[w] /\ ns'[w] = ns[w] /\ announced'[w] = announced[w]
    /\ Children(w)' = Children(w)
    /\ \A c \in Children(w) : chan'[c] = chan[c]

LEMMA OthersPending ==
  ASSUME NEW v \in Vdevs, Others(v), NEW w \in Vdevs, w # v, Pending(w)
  PROVE  Pending(w)'
<1>1. /\ ns'[w] = ns[w] /\ announced'[w] = announced[w] /\ Children(w)' = Children(w)
      /\ \A c \in Children(w) : chan'[c] = chan[c]
  BY DEF Others
<1>2. Services(w)' = Services(w)
  BY <1>1 DEF Services
<1> QED
  BY <1>1, <1>2 DEF Pending

LEMMA OneDevice ==
  ASSUME AnnouncedInv, TypeOK', NEW v \in Vdevs, Others(v), Distinct', ActsOnOwn',
         vstate'[v] = "online" => Pending(v)'
  PROVE  AnnouncedInv'
<1>1. ASSUME NEW w \in Vdevs, vstate'[w] = "online" PROVE Pending(w)'
  <2>1. CASE w = v
    BY <1>1, <2>1
  <2>2. CASE w # v
    <3>1. Pending(w)
      BY <1>1, <2>2 DEF Others, AnnouncedInv
    <3> QED
      BY <2>2, <3>1, OthersPending
  <2> QED
    BY <2>1, <2>2
<1> QED
  BY <1>1 DEF AnnouncedInv

LEMMA AnnouncedStep ==
  ASSUME NoClash, AnnouncedInv, [Next]_vars
  PROVE  AnnouncedInv'
<1>0. TypeOK /\ TypeOK' /\ Distinct /\ ActsOnOwn
  BY TypeStep DEF AnnouncedInv
<1>1. ASSUME UNCHANGED <<vstate, ns, announced>>,
             \A c \in Registered : SameIdentity(c),
             \A c \in Chans \ Registered : chan'[c] = None
      PROVE  AnnouncedInv'
  <2>1. Registered' = Registered
    BY <1>1 DEF SameIdentity
  <2>2. \A v \in Vdevs : Children(v)' = Children(v)
    BY <1>1, <2>1 DEF SameIdentity
  <2>3. \A v \in Vdevs : Services(v)' = Services(v)
    BY <1>1, <2>2 DEF Services, SameIdentity
  <2>4. ASSUME NEW v \in Vdevs, Pending(v) PROVE Pending(v)'
    BY <1>1, <2>2, <2>3, <2>4 DEF Pending, SameIdentity
  <2>5. Distinct' /\ ActsOnOwn'
    BY <1>0, <1>1, <2>1 DEF Distinct, ActsOnOwn, SameIdentity
  <2> QED
    BY <1>0, <1>1, <2>4, <2>5 DEF AnnouncedInv
<1>2. ASSUME NEW c \in Chans, DriverStep(c) PROVE AnnouncedInv'
  BY <1>0, <1>1, <1>2, KeepsIdentity
<1>3. ASSUME UNCHANGED <<vstate, ns, announced, chan>> PROVE AnnouncedInv'
  BY <1>1, <1>3 DEF SameIdentity
<1>4. ASSUME NEW e \in Epts,
             \/ \E v \in Vdevs, want \in Addrs \cup {AddrAny} : OwnCreateEpt(v, e, want)
             \/ OwnDestroyEpt(e)
      PROVE  AnnouncedInv'
  BY <1>3, <1>4 DEF OwnCreateEpt, OwnDestroyEpt
<1>5. ASSUME NEW d \in Drivers, LoadDriver(d) \/ UnloadDriver(d) PROVE AnnouncedInv'
  BY <1>3, <1>5 DEF LoadDriver, UnloadDriver
\* A channel goes; the device it belonged to is v.
<1>6. ASSUME NEW v \in Vdevs, NEW c \in Children(v), chan' = [chan EXCEPT ![c] = None],
             UNCHANGED <<vstate, announced>>,
             UNCHANGED ns \/ ns' = [ns EXCEPT ![v] = None],
             vstate[v] = "online" => Pending(v)'
      PROVE  AnnouncedInv'
  <2>1. chan'[c] = None /\ \A b \in Chans : b # c => chan'[b] = chan[b]
    BY <1>0, <1>6 DEF TypeOK
  <2>2. \A w \in Vdevs : ns'[w] = ns[w] \/ (w = v /\ ns'[w] = None)
    BY <1>0, <1>6 DEF TypeOK
  <2>3. Others(v)
    BY <1>6, <2>1, <2>2 DEF Others
  <2>4. Distinct' /\ ActsOnOwn'
    BY <1>0, <2>1, <2>2 DEF Distinct, ActsOnOwn
  <2> QED
    BY <1>0, <1>6, <2>3, <2>4, OneDevice
\* A device that is being removed has no obligation left.
<1>7. ASSUME NEW v \in Vdevs, Reset(v) \/ LoopEnds(v) \/ FreeVrp(v) PROVE AnnouncedInv'
  <2>1. vstate'[v] # "online" /\ UNCHANGED <<chan, ns>> /\ Others(v)
    BY <1>0, <1>7 DEF Reset, LoopEnds, FreeVrp, TypeOK, Others
  <2>2. Distinct' /\ ActsOnOwn'
    BY <1>0, <2>1 DEF Distinct, ActsOnOwn
  <2> QED
    BY <1>0, <2>1, <2>2, OneDevice
<1>8. ASSUME NEW v \in Vdevs, NEW c \in Chans, RemoveChild(v, c) PROVE AnnouncedInv'
  BY <1>6, <1>8 DEF RemoveChild, Unregister
\* A step of the name service that leaves the channels alone.
<1>9. ASSUME NEW v \in Vdevs, vstate[v] = "online" => Pending(v)',
             UNCHANGED <<vstate, chan>>,
             \A w \in Vdevs : w # v => ns'[w] = ns[w] /\ announced'[w] = announced[w],
             \/ ns'[v] = None \/ ns'[v].step # "act"
             \/ ns'[v].chan \in Registered => chan[ns'[v].chan].vdev = v
      PROVE  AnnouncedInv'
  <2>1. Others(v) /\ Distinct' /\ ActsOnOwn'
    BY <1>0, <1>9 DEF Others, Distinct, ActsOnOwn
  <2> QED
    BY <1>0, <1>9, <2>1, OneDevice
<1>10. ASSUME NEW v \in Vdevs, vstate[v] = "online" PROVE Pending(v)
  BY <1>10 DEF AnnouncedInv
<1>11. ASSUME NEW v \in Vdevs, UNCHANGED chan PROVE Services(v)' = Services(v)
  BY <1>11 DEF Services
<1>12. ASSUME NEW v \in Vdevs, NEW flag \in {"create", "destroy"},
              NEW name \in Names, NEW dst \in Dsts, NsReceive(v, flag, name, dst)
       PROVE  AnnouncedInv'
  <2>1. /\ ns[v] = None /\ ns'[v] # None /\ ns'[v].flag = flag /\ ns'[v].step = "find"
        /\ ns'[v].name = name /\ ns'[v].dst = dst
        /\ UNCHANGED <<vstate, chan>>
        /\ \A w \in Vdevs : w # v => ns'[w] = ns[w] /\ announced'[w] = announced[w]
    <3>1. [flag |-> flag, name |-> name, dst |-> dst, chan |-> None,
           step |-> "find"] \in NsMessage
      BY DEF NsMessage
    <3> QED
      BY <1>0, <1>12, <3>1, NoneAssumption DEF NsReceive, TypeOK
  <2>2. announced'[v] = IF flag = "create" THEN announced[v] \cup {<<name, dst>>}
                                          ELSE announced[v] \ {<<name, dst>>}
    BY <1>0, <1>12 DEF NsReceive, TypeOK
  <2>3. vstate[v] = "online" => announced[v] = Services(v)
    BY <1>10, <2>1 DEF Pending
  <2>4. vstate[v] = "online" => Pending(v)'
    BY <1>11, <2>1, <2>2, <2>3 DEF Pending
  <2> QED
    BY <2>1, <2>4, <1>9
<1>13. ASSUME NEW v \in Vdevs, NsAttached(v) PROVE AnnouncedInv'
  <2>1. ns'[v] = None /\ UNCHANGED <<vstate, chan, announced>>
        /\ \A w \in Vdevs : w # v => ns'[w] = ns[w]
    BY <1>0, <1>13 DEF NsAttached, TypeOK
  <2>2. vstate[v] = "online" => Pending(v)'
    BY <1>10, <1>11, <1>13, <2>1 DEF Pending, NsAttached, TypeOK
  <2> QED
    BY <2>1, <2>2, <1>9
<1>14. ASSUME NEW v \in Vdevs, NsFind(v) PROVE AnnouncedInv'
  <2> DEFINE found == FindDevice(v, ns[v].name, ns[v].dst)
  <2>0. /\ ns[v] \in NsMessage /\ UNCHANGED <<vstate, chan, announced>>
        /\ \A w \in Vdevs : w # v => ns'[w] = ns[w]
    BY <1>0, <1>14 DEF NsFind, TypeOK
  <2>1. vstate[v] = "online" =>
          announced[v] = Services(v) \ {<<ns[v].name, ns[v].dst>>}
    BY <1>10, <1>14 DEF Pending, NsFind
  <2>2. CASE found = {} /\ ns' = [ns EXCEPT ![v] = None]
    <3>1. <<ns[v].name, ns[v].dst>> \notin Services(v)
      BY <2>0, <2>2 DEF FindDevice, Services
    <3>2. ns'[v] = None
      BY <1>0, <2>2 DEF TypeOK
    <3>3. vstate[v] = "online" => announced[v] = Services(v)
      BY <2>1, <3>1
    <3>4. Services(v)' = Services(v)
      BY <1>11, <2>0
    <3>5. vstate[v] = "online" => Pending(v)'
      BY <2>0, <3>2, <3>3, <3>4 DEF Pending
    <3> QED
      BY <2>0, <3>2, <3>5, <1>9
  <2>3. ASSUME NEW c \in found,
               ns' = [ns EXCEPT ![v].step = "act", ![v].chan = c]
        PROVE  AnnouncedInv'
    <3>1. /\ ns'[v].step = "act" /\ ns'[v].chan = c
          /\ ns'[v].name = ns[v].name /\ ns'[v].dst = ns[v].dst
      BY <1>0, <2>0, <2>3 DEF NsMessage, TypeOK
    <3>2. c \in Children(v) /\ chan[c].name = ns[v].name /\ chan[c].dst = ns[v].dst
      BY <2>3 DEF FindDevice
    <3>3. ns'[v] # None
      <4>1. [ns[v] EXCEPT !.step = "act", !.chan = c] \in NsMessage
        BY <2>0, <3>2 DEF NsMessage
      <4> QED
        BY <1>0, <2>3, <4>1, NoneAssumption DEF TypeOK
    <3>4. vstate[v] = "online" => Pending(v)'
      BY <1>11, <2>0, <3>1, <3>2, <3>3, <2>1 DEF Pending
    <3> QED
      BY <2>0, <3>1, <3>2, <3>4, <1>9
  <2> QED
    BY <1>14, <2>2, <2>3 DEF NsFind
<1>15. ASSUME NEW v \in Vdevs, NsUnregister(v) PROVE AnnouncedInv'
  <2> DEFINE c == ns[v].chan
  <2>1. /\ c \in Registered /\ ns[v] # None /\ ns[v].step = "act"
        /\ chan' = [chan EXCEPT ![c] = None] /\ ns' = [ns EXCEPT ![v] = None]
        /\ UNCHANGED <<vstate, announced>>
    BY <1>15 DEF NsUnregister, Unregister
  <2>2. c \in Children(v)
    BY <1>0, <2>1 DEF ActsOnOwn
  <2> HIDE DEF c
  <2>3. chan'[c] = None /\ \A b \in Chans : b # c => chan'[b] = chan[b]
    BY <1>0, <2>1 DEF TypeOK
  <2>4. ASSUME vstate[v] = "online" PROVE Pending(v)'
    <3>1. /\ announced[v] = Services(v) \ {<<ns[v].name, ns[v].dst>>}
          /\ <<ns[v].name, ns[v].dst>> = <<chan[c].name, chan[c].dst>>
      BY <1>10, <2>1, <2>4 DEF Pending, c
    <3>2. \A b \in Registered : b # c =>
            <<chan[b].name, chan[b].dst>> # <<chan[c].name, chan[c].dst>>
      BY <1>0, <2>1 DEF Distinct
    <3>3. Services(v)' = announced[v]
      BY <3>1, <3>2, <2>2, <2>3 DEF Services
    <3>4. ns'[v] = None
      BY <1>0, <2>1 DEF TypeOK
    <3> QED
      BY <3>3, <3>4, <2>1 DEF Pending
  <2> QED
    BY <1>6, <2>1, <2>2, <2>4
<1>16. ASSUME NEW v \in Vdevs, NsCreate(v) PROVE AnnouncedInv'
  <2> DEFINE name == ns[v].name
             dst == ns[v].dst
             new == [vdev |-> v, name |-> name, dst |-> dst, src |-> AddrAny,
                     ept |-> None, override |-> None, driver |-> None,
                     phase |-> "unbound"]
  <2>0. /\ ns[v] \in NsMessage /\ ns[v] # None /\ ns[v].step = "find" /\ ns[v].flag = "create"
        /\ UNCHANGED <<vstate, announced>>
        /\ \A w \in Vdevs : w # v => ns'[w] = ns[w]
    BY <1>0, <1>16 DEF NsCreate, TypeOK
  <2>1. vstate[v] = "online" => announced[v] = Services(v) \cup {<<name, dst>>}
    BY <1>10, <2>0 DEF Pending
  <2>2. CASE /\ FindDevice(v, name, dst) # {} \/ NameTaken(name, dst)
             /\ ns' = [ns EXCEPT ![v] = None] /\ UNCHANGED chan
    <3>1. vstate[v] = "online" => FindDevice(v, name, dst) # {}
      BY <2>0, <2>2 DEF NoClash
    <3>2. vstate[v] = "online" => <<name, dst>> \in Services(v)
      BY <3>1 DEF FindDevice, Services
    <3>3. ns'[v] = None
      BY <1>0, <2>2 DEF TypeOK
    <3>4. vstate[v] = "online" => Pending(v)'
      BY <1>11, <2>0, <2>1, <2>2, <3>2, <3>3 DEF Pending
    <3> QED
      BY <2>0, <2>2, <3>3, <3>4, <1>9
  <2>3. ASSUME NEW c \in Chans \ Registered, ~NameTaken(name, dst),
               \A w \in Vdevs : ns[w] # None => ns[w].chan # c,
               chan' = [chan EXCEPT ![c] = new],
               ns' = [ns EXCEPT ![v].step = "attach", ![v].chan = c]
        PROVE  AnnouncedInv'
    <3>1. new \in Channel
      BY <2>0 DEF Channel, NsMessage
    <3>2. new.vdev = v /\ new.name = name /\ new.dst = dst
      OBVIOUS
    <3> HIDE DEF new
    <3>3. /\ chan'[c] = new /\ chan'[c] # None
          /\ \A b \in Chans : b # c => chan'[b] = chan[b]
      BY <1>0, <2>3, <3>1, NoneAssumption DEF TypeOK
    <3>4. Services(v)' = Services(v) \cup {<<name, dst>>}
      <4>1. Children(v)' = Children(v) \cup {c}
        BY <2>3, <3>2, <3>3
      <4>2. \A b \in Children(v) : chan'[b] = chan[b]
        BY <2>3, <3>3
      <4> HIDE DEF name, dst
      <4> QED
        BY <3>2, <3>3, <4>1, <4>2 DEF Services
    <3>5. [ns[v] EXCEPT !.step = "attach", !.chan = c] \in NsMessage
      BY <2>0, <2>3 DEF NsMessage
    <3>6. ns'[v] # None /\ ns'[v].step = "attach"
      BY <1>0, <2>0, <2>3, <3>5, NoneAssumption DEF TypeOK, NsMessage
    <3>7. vstate'[v] = "online" => Pending(v)'
      BY <2>0, <2>1, <3>4, <3>6 DEF Pending
    <3>8. \A b \in Registered : ~(chan[b].name = name /\ chan[b].dst = dst)
      BY <2>3 DEF NameTaken
    <3>9. Distinct'
      <4> SUFFICES ASSUME NEW a \in Registered', NEW b \in Registered',
                          chan'[a].name = chan'[b].name, chan'[a].dst = chan'[b].dst
                   PROVE  a = b
        BY DEF Distinct
      <4> HIDE DEF name, dst
      <4> QED
        BY <1>0, <2>3, <3>2, <3>3, <3>8 DEF Distinct
    <3>10. ActsOnOwn'
      <4>1. ASSUME NEW w \in Vdevs, w # v, ns[w] # None, ns[w].step = "act",
                   ns[w].chan \in Registered'
            PROVE  chan'[ns[w].chan].vdev = w
        <5>1. chan'[ns[w].chan] = chan[ns[w].chan]
          BY <2>3, <3>3, <4>1
        <5> QED
          BY <1>0, <4>1, <5>1 DEF ActsOnOwn
      <4> QED
        BY <2>0, <3>6, <4>1 DEF ActsOnOwn
    <3>11. Others(v)
      <4>1. ASSUME NEW w \in Vdevs, w # v
            PROVE  Children(w)' = Children(w) /\ \A b \in Children(w) : chan'[b] = chan[b]
        BY <2>3, <3>2, <3>3, <4>1
      <4> QED
        BY <2>0, <4>1 DEF Others
    <3> QED
      BY <1>0, <3>7, <3>9, <3>10, <3>11, OneDevice
  <2> QED
    BY <1>16, <2>2, <2>3 DEF NsCreate
<1>17. CASE UNCHANGED vars
  BY <1>3, <1>17 DEF vars
<1> QED
  BY <1>2, <1>4, <1>5, <1>7, <1>8, <1>12, <1>13, <1>14, <1>15, <1>16, <1>17
     DEF Next, DriverStep

\* Whenever rpmsg_ns_cb of a device has no message under way, the channels of the
\* device are the services its remote has announced and not withdrawn, unless
\* another device has a channel for the same service when it is announced: the
\* device name that the bus refuses is the only way to lose one.
THEOREM AnnouncedUnlessClash == Spec /\ []NoClash => []AnnouncedHasChannel
<1>1. AnnouncedInv /\ NoClash /\ [Next]_vars => AnnouncedInv'
  BY AnnouncedStep
<1>2. AnnouncedInv => AnnouncedHasChannel
  BY DEF AnnouncedInv, AnnouncedHasChannel, Pending, Services
<1> QED
  BY <1>1, <1>2, AnnouncedInit, PTL DEF Spec

\* So it holds of the only device.
THEOREM AnnouncedCorrect ==
  ASSUME \A v, w \in Vdevs : v = w
  PROVE  Spec => []AnnouncedHasChannel
<1>1. TypeOK => NoClash
  BY DEF NoClash, NameTaken, FindDevice, TypeOK, Channel
<1> QED
  BY <1>1, TypeCorrect, AnnouncedUnlessClash, PTL
===============================================================================
