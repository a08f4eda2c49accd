----------------------------- MODULE RpmsgChannel -----------------------------
(***************************************************************************)
(* The life of rpmsg channels: they are created and destroyed by name      *)
(* service messages (rpmsg_ns_cb), bound to and unbound from drivers, and   *)
(* removed with their virtio device (src/virtio_rpmsg_test/rpmsg_core.c    *)
(* and virtio_rpmsg_bus.c).                                                *)
(*                                                                         *)
(* rpmsg_dev_probe, rpmsg_dev_remove and device_unregister run under the   *)
(* device lock of the driver core; a probe takes two steps, and the others *)
(* wait for it.  The name service callback of a virtio device runs on its  *)
(* rx thread, one message at a time, and is not synchronised with the      *)
(* removal of the device until the latter destroys the ns endpoint.        *)
(* rpmsg_create_channel is only called with src = RPMSG_ADDR_ANY, so       *)
(* rpdev->announce is FALSE and the announce functions never send.         *)
(***************************************************************************)
EXTENDS Integers, FiniteSets

CONSTANTS
  Vdevs,      \* virtio devices of type VIRTIO_ID_RPMSG, all probed
  Names,      \* service names
  Dsts,       \* remote addresses
  Drivers,    \* rpmsg drivers
  Serves,     \* Serves[d]: the names in the id_table of driver d
  NoCallback, \* drivers without an rx callback (rpmsg_chrdev)
  Chans,      \* memory for struct virtio_rpmsg_channel
  Epts,       \* memory for struct rpmsg_endpoint
  MaxAddr,    \* local addresses are 1 .. MaxAddr, all of them dynamic
  None        \* NULL

ASSUME ChannelAssumption ==
  /\ Serves \in [Drivers -> SUBSET Names]
  /\ NoCallback \subseteq Drivers
  /\ MaxAddr \in Nat
  /\ None \notin Vdevs \cup Drivers \cup Chans \cup Epts

VARIABLES
  vstate,    \* a virtio device: online, then the steps of rpmsg_remove
  raced,     \* devices reset while their rx thread was in rpmsg_recv_done
  ns,        \* ns[v]: the name service message rpmsg_ns_cb works on, or None
  announced, \* announced[v]: the services the remote has announced
  chan,      \* chan[c]: the registered channel in c, or None
  ept,       \* ept[e]: the live endpoint in e, or None
  loaded     \* registered drivers

vars == <<vstate, raced, ns, announced, chan, ept, loaded>>

Addrs   == 1 .. MaxAddr
AddrAny == -1

\* A channel: rpdev->id, dst, src, ept and driver_override, and the driver it
\* is bound to, if any.
Channel == [vdev : Vdevs, name : Names, dst : Dsts,
            src : Addrs \cup {AddrAny}, ept : Epts \cup {None},
            override : Drivers \cup {None},
            driver : Drivers \cup {None},
            phase : {"unbound", "probing", "bound"}]

Endpoint == [vdev : Vdevs, addr : Addrs, owner : Chans \cup {None}]

\* step: find the channel, act on it, wait until it is attached to a driver.
NsMessage == [flag : {"create", "destroy"}, name : Names, dst : Dsts,
              chan : Chans \cup {None}, step : {"find", "act", "attach"}]

ASSUME NoneAssumption == None \notin Channel \cup Endpoint \cup NsMessage

Registered   == {c \in Chans : chan[c] # None}
Children(v)  == {c \in Registered : chan[c].vdev = v}

Init ==
  /\ vstate = [v \in Vdevs |-> "online"] /\ raced = {}
  /\ ns = [v \in Vdevs |-> None]
  /\ announced = [v \in Vdevs |-> {}]
  /\ chan = [c \in Chans |-> None]
  /\ ept = [e \in Epts |-> None]
  /\ loaded = {}

-----------------------------------------------------------------------------
(* Endpoints, without the details that RpmsgRx models.                      *)

DynamicAddrs_OffByOne == 1 .. MaxAddr + 1

\* The range idr_alloc chooses from.
DynamicAddrs == 1 .. MaxAddr

FreeAddrs(v, want) ==
  {a \in IF want = AddrAny THEN DynamicAddrs ELSE {want} :
     \A e \in Epts : ept[e] # None => <<ept[e].vdev, ept[e].addr>> # <<v, a>>}

\* rpmsg_create_ept for channel c (or for a driver's own use): the requested
\* address or the lowest free one.
CreateEpt(e, v, want, c) ==
  /\ ept[e] = None
  /\ \E a \in FreeAddrs(v, want) :
       /\ \A b \in FreeAddrs(v, want) : a <= b
       /\ ept' = [ept EXCEPT ![e] = [vdev |-> v, owner |-> c, addr |-> a]]

-----------------------------------------------------------------------------
(* Drivers.                                                                 *)

\* __register_rpmsg_driver; a driver that is loaded again was detached from
\* every channel before.
LoadDriver(d) ==
  /\ d \notin loaded
  /\ \A c \in Registered : chan[c].driver # d
  /\ loaded' = loaded \cup {d}
  /\ UNCHANGED <<vstate, raced, ns, announced, chan, ept>>

\* unregister_rpmsg_driver: no channel is matched any more; those bound are
\* then unbound one at a time.
UnloadDriver(d) ==
  /\ d \in loaded
  /\ loaded' = loaded \ {d}
  /\ UNCHANGED <<vstate, raced, ns, announced, chan, ept>>

\* driver_override_store.
SetOverride(c, d) ==
  /\ c \in Registered /\ chan[c].phase # "probing"
  /\ chan' = [chan EXCEPT ![c].override = d]
  /\ UNCHANGED <<vstate, raced, ns, announced, ept, loaded>>

\* rpmsg_dev_match.
Match(c, d) ==
  IF chan[c].override # None THEN chan[c].override = d
                             ELSE chan[c].name \in Serves[d]

BindEndpoint_SrcNotSet(c, d, e) ==
  /\ CreateEpt(e, chan[c].vdev, chan[c].src, c)
  /\ chan' = [chan EXCEPT ![c].phase = "probing", ![c].driver = d, ![c].ept = e]

\* rpmsg_dev_probe gives the channel an endpoint with the driver's callback, at
\* the address the channel has if it has one.
BindEndpoint(c, d, e) ==
  /\ CreateEpt(e, chan[c].vdev, chan[c].src, c)
  /\ chan' = [chan EXCEPT ![c].phase = "probing", ![c].driver = d,
                          ![c].ept = e, ![c].src = ept'[e].addr]

\* rpmsg_dev_probe up to the call of the driver's probe: when a channel or a
\* driver is registered, or by hand through sysfs.  Without an address for the
\* endpoint it returns -ENOMEM and nothing has changed.
ProbeStart(c, d) ==
  /\ c \in Registered /\ chan[c].phase = "unbound"
  /\ vstate[chan[c].vdev] # "gone"
  /\ d \in loaded /\ Match(c, d)
  /\ \/ d \notin NoCallback /\ \E e \in Epts : BindEndpoint(c, d, e)
     \/ /\ d \in NoCallback
        /\ chan' = [chan EXCEPT ![c].phase = "probing", ![c].driver = d]
        /\ UNCHANGED ept
  /\ UNCHANGED <<vstate, raced, ns, announced, loaded>>

\* The driver's probe succeeds ...
ProbeOk(c) ==
  /\ c \in Registered /\ chan[c].phase = "probing"
  /\ chan' = [chan EXCEPT ![c].phase = "bound"]
  /\ UNCHANGED <<vstate, raced, ns, announced, ept, loaded>>

FreeOnFail_Kept(c) == UNCHANGED ept

\* ... or fails, and the endpoint created for it is destroyed.  rpdev->ept
\* still points there.
FreeOnFail(c) ==
  ept' = IF chan[c].driver \in NoCallback THEN ept
         ELSE [ept EXCEPT ![chan[c].ept] = None]

ProbeFail(c) ==
  /\ c \in Registered /\ chan[c].phase = "probing"
  /\ FreeOnFail(c)
  /\ chan' = [chan EXCEPT ![c].phase = "unbound", ![c].driver = None]
  /\ UNCHANGED <<vstate, raced, ns, announced, loaded>>

\* rpmsg_dev_remove destroys what rpdev->ept points to, whoever created it.
DestroyOwnEpt(c) ==
  ept' = IF chan[c].phase = "bound" /\ chan[c].ept # None
           THEN [ept EXCEPT ![chan[c].ept] = None]
           ELSE ept

\* A bound channel is unbound, because its driver goes or through sysfs; the
\* pointer rpdev->ept is left as it is.
Unbind(c) ==
  /\ c \in Registered /\ chan[c].phase = "bound"
  /\ vstate[chan[c].vdev] # "gone"
  /\ DestroyOwnEpt(c)
  /\ chan' = [chan EXCEPT ![c].phase = "unbound", ![c].driver = None]
  /\ UNCHANGED <<vstate, raced, ns, announced, loaded>>

\* device_unregister: waits for the device lock, unbinds, and the channel is
\* no longer found.
Unregister(c) ==
  /\ chan[c].phase # "probing"
  /\ DestroyOwnEpt(c)
  /\ chan' = [chan EXCEPT ![c] = None]

\* A bound driver opens and closes endpoints of its own (rpmsg_eptdev_open).
OwnCreateEpt(v, e, want) ==
  /\ \E c \in Children(v) : chan[c].phase = "bound"
  /\ CreateEpt(e, v, want, None)
  /\ UNCHANGED <<vstate, raced, ns, announced, chan, loaded>>

OwnDestroyEpt(e) ==
  /\ ept[e] # None /\ ept[e].owner = None
  /\ ept' = [ept EXCEPT ![e] = None]
  /\ UNCHANGED <<vstate, raced, ns, announced, chan, loaded>>

-----------------------------------------------------------------------------
(* The name service.                                                        *)

FindDevice_AnyDst(v, name, dst) ==
  {c \in Children(v) : chan[c].name = name}

\* rpmsg_find_device with chinfo.src = RPMSG_ADDR_ANY.
FindDevice(v, name, dst) ==
  {c \in Children(v) : chan[c].name = name /\ chan[c].dst = dst}

\* rpmsg_ns_cb is called: the rx thread keeps working on what it has received
\* even while rpmsg_remove runs.
NsReceive(v, flag, name, dst) ==
  /\ ns[v] = None
  /\ vstate[v] = "online" \/ (vstate[v] # "gone" /\ v \in raced)
  /\ ns' = [ns EXCEPT ![v] = [flag |-> flag, name |-> name, dst |-> dst,
                              chan |-> None, step |-> "find"]]
  /\ announced' = [announced EXCEPT ![v] =
       IF flag = "create" THEN @ \cup {<<name, dst>>} ELSE @ \ {<<name, dst>>}]
  /\ UNCHANGED <<vstate, raced, chan, ept, loaded>>

\* The device name of an NS channel is name.-1.dst, with nothing of the parent
\* in it, and the bus refuses a second device of that name.
NameTaken(name, dst) ==
  \E c \in Registered : chan[c].name = name /\ chan[c].dst = dst

\* rpmsg_create_channel: refused if a similar channel exists or the device
\* cannot be registered; otherwise the new device is offered to the drivers.
NsCreate(v) ==
  /\ ns[v] # None /\ ns[v].flag = "create" /\ ns[v].step = "find"
  /\ LET name == ns[v].name  dst == ns[v].dst IN
       IF FindDevice(v, name, dst) # {} \/ NameTaken(name, dst)
         THEN ns' = [ns EXCEPT ![v] = None] /\ UNCHANGED chan
         ELSE \E c \in Chans \ Registered :
                /\ \A w \in Vdevs : ns[w] # None => ns[w].chan # c
                /\ chan' = [chan EXCEPT ![c] =
                     [vdev |-> v, name |-> name, dst |-> dst, src |-> AddrAny,
                      ept |-> None, override |-> None, driver |-> None,
                      phase |-> "unbound"]]
                /\ ns' = [ns EXCEPT ![v].step = "attach", ![v].chan = c]
  /\ UNCHANGED <<vstate, raced, announced, ept, loaded>>

\* The callback returns when no probe of the new channel is under way.
NsAttached(v) ==
  /\ ns[v] # None /\ ns[v].step = "attach"
  /\ ns[v].chan \in Registered => chan[ns[v].chan].phase # "probing"
  /\ ns' = [ns EXCEPT ![v] = None]
  /\ UNCHANGED <<vstate, raced, announced, chan, ept, loaded>>

\* rpmsg_unregister_device: the channel is found, and a reference taken ...
NsFind(v) ==
  /\ ns[v] # None /\ ns[v].flag = "destroy" /\ ns[v].step = "find"
  /\ LET found == FindDevice(v, ns[v].name, ns[v].dst) IN
       \/ found = {} /\ ns' = [ns EXCEPT ![v] = None]
       \/ \E c \in found : ns' = [ns EXCEPT ![v].step = "act", ![v].chan = c]
  /\ UNCHANGED <<vstate, raced, announced, chan, ept, loaded>>

\* ... and then it is unregistered.  What happens if somebody else has done so
\* in between is undefined, and not modelled.
NsUnregister(v) ==
  /\ ns[v] # None /\ ns[v].step = "act" /\ ns[v].chan \in Registered
  /\ Unregister(ns[v].chan)
  /\ ns' = [ns EXCEPT ![v] = None]
  /\ UNCHANGED <<vstate, raced, announced, loaded>>

-----------------------------------------------------------------------------
(* rpmsg_remove.                                                            *)

\* The device is reset, so nothing more is received; the rx thread may be in
\* its loop, on the way to the name service callback or in it.
Reset(v) ==
  /\ vstate[v] = "online"
  /\ vstate' = [vstate EXCEPT ![v] = "removing"]
  /\ raced' \in {raced \cup {v}} \cup (IF ns[v] = None THEN {raced} ELSE {})
  /\ UNCHANGED <<ns, announced, chan, ept, loaded>>

\* device_for_each_child(..., rpmsg_remove_device) ...
RemoveChild(v, c) ==
  /\ vstate[v] = "removing" /\ c \in Children(v)
  /\ Unregister(c)
  /\ UNCHANGED <<vstate, raced, ns, announced, loaded>>

ChildrenGone_Early(v) == vstate[v] = "removing"

\* ... until there is none.
ChildrenGone(v) == vstate[v] = "removing" /\ Children(v) = {}

LoopEnds(v) ==
  /\ ChildrenGone(v)
  /\ vstate' = [vstate EXCEPT ![v] = "closing"]
  /\ UNCHANGED <<raced, ns, announced, chan, ept, loaded>>

\* __rpmsg_destroy_ept of vrp->ns_ept waits for the callback; then vrp is freed.
FreeVrp(v) ==
  /\ vstate[v] = "closing" /\ ns[v] = None
  /\ vstate' = [vstate EXCEPT ![v] = "gone"]
  /\ UNCHANGED <<raced, ns, announced, chan, ept, loaded>>

-----------------------------------------------------------------------------
Next ==
  \/ \E d \in Drivers : LoadDriver(d) \/ UnloadDriver(d)
  \/ \E c \in Chans :
       \/ \E d \in Drivers : ProbeStart(c, d) \/ SetOverride(c, d)
       \/ SetOverride(c, None)
       \/ ProbeOk(c) \/ ProbeFail(c) \/ Unbind(c)
  \/ \E e \in Epts :
       \/ \E v \in Vdevs, want \in Addrs \cup {AddrAny} : OwnCreateEpt(v, e, want)
       \/ OwnDestroyEpt(e)
  \/ \E v \in Vdevs :
       \/ \E flag \in {"create", "destroy"}, name \in Names, dst \in Dsts :
            NsReceive(v, flag, name, dst)
       \/ NsCreate(v) \/ NsAttached(v) \/ NsFind(v) \/ NsUnregister(v)
       \/ Reset(v) \/ LoopEnds(v) \/ FreeVrp(v)
       \/ \E c \in Chans : RemoveChild(v, c)

Spec == Init /\ [][Next]_vars

-----------------------------------------------------------------------------
(* Correctness.                                                             *)

TypeOK ==
  /\ vstate \in [Vdevs -> {"online", "removing", "closing", "gone"}]
  /\ raced \subseteq Vdevs
  /\ ns \in [Vdevs -> NsMessage \cup {None}]
  /\ announced \in [Vdevs -> SUBSET (Names \X Dsts)]
  /\ chan \in [Chans -> Channel \cup {None}]
  /\ ept \in [Epts -> Endpoint \cup {None}]
  /\ loaded \subseteq Drivers

\* The endpoint rpmsg_dev_remove is going to destroy is alive, was created for
\* this channel, and is bound to the address in rpdev->src.  rpdev->ept is
\* never cleared: this holds only because the next probe sets it again.
OwnEndpoint ==
  \A c \in Registered :
     chan[c].phase # "unbound" /\ chan[c].ept # None =>
       ept[chan[c].ept] = [vdev |-> chan[c].vdev, owner |-> c, addr |-> chan[c].src]

\* Every endpoint created by a probe belongs to a channel that will destroy it:
\* neither a failed probe nor the removal of a channel leaves one behind.
NoEndpointLeak ==
  \A e \in Epts :
     ept[e] # None /\ ept[e].owner # None =>
       LET c == ept[e].owner IN
         c \in Registered /\ chan[c].phase # "unbound" /\ chan[c].ept = e

\* Between name service messages, the channels of a device are the services its
\* remote has announced and not withdrawn.
AnnouncedHasChannel ==
  \A v \in Vdevs :
     vstate[v] = "online" /\ ns[v] = None =>
       announced[v] = {<<chan[c].name, chan[c].dst>> : c \in Children(v)}

\* No channel outlives the virtproc_info its vch->vrp points to, unless the rx
\* thread was at work when the device was reset.
NoOrphanChannel ==
  \A v \in Vdevs : vstate[v] = "gone" /\ v \notin raced => Children(v) = {}

-----------------------------------------------------------------------------
(* What the comments promise and the code does not keep; see the README.    *)

\* rpmsg_unregister_device "find[s] an existing channel [...] and destroy[s]
\* it": the channel it found still exists when it is unregistered.
UnregistersExisting ==
  \A v \in Vdevs :
     ns[v] # None /\ ns[v].step = "act" => ns[v].chan \in Registered

\* "when an rpmsg driver is probed with a channel, we seamlessly create it an
\* endpoint, binding its rx callback to a unique local rpmsg address": as long
\* as the device has a free address.
SeamlessEndpoint ==
  \A c \in Registered :
     chan[c].phase = "unbound" /\ FreeAddrs(chan[c].vdev, AddrAny) # {} =>
       FreeAddrs(chan[c].vdev, chan[c].src) # {}
=============================================================================
