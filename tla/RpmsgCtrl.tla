------------------------------ MODULE RpmsgCtrl -------------------------------
(***************************************************************************)
(* The devices of the rpmsg character device driver: the control devices   *)
(* /dev/rpmsg_ctrlN, one per channel bound to rpmsg_chrdev, and the        *)
(* endpoint devices /dev/rpmsgN created through them                       *)
(* (src/virtio_rpmsg_test/rpmsg_char.c).  Modelled are their creation step *)
(* by step with every failure and its unwinding, their reference counts,   *)
(* the minors and ids they take, and their entries in the kernel's map of  *)
(* character devices.  What an open endpoint device does is in RpmsgChar;  *)
(* here a device is destroyed at most once (see RpmsgChar for twice).      *)
(***************************************************************************)
EXTENDS Integers, Sequences, FiniteSets, SequencesExt

CONSTANTS
  Channels,  \* channels that rpmsg_chrdev may be bound to
  Ctrls,     \* memory for struct rpmsg_ctrldev
  Eptdevs,   \* memory for struct rpmsg_eptdev
  Files,     \* open file descriptions
  DevMax,    \* RPMSG_DEV_MAX
  MaxCdevs,  \* bound on character devices added at once
  None       \* NULL

ASSUME CtrlAssumption ==
  /\ DevMax \in Nat \ {0} /\ MaxCdevs \in Nat
  /\ IsFiniteSet(Eptdevs) /\ IsFiniteSet(Files)
  /\ Ctrls \cap Eptdevs = {}
  /\ None \notin Ctrls \cup Eptdevs \cup Channels \cup Files \cup Nat

VARIABLES
  minors, \* rpmsg_minor_ida
  ids,    \* rpmsg_ctrl_ida and rpmsg_ept_ida
  dev,    \* dev[d]: the device in d, or None
  cdevs,  \* the character devices added, newest first
  bound,  \* bound[ch]: what rpmsg_chrdev does with the channel
  file    \* file[f]: the device the file has open, or None

vars == <<minors, ids, dev, cdevs, bound, file>>

Devs    == Ctrls \cup Eptdevs
Minors  == 0 .. DevMax - 1
Kind(d) == IF d \in Ctrls THEN "ctrl" ELSE "ept"

\* How far the creation of a device has come, "live" between device_add and
\* device_del, "deleted" after it, and the steps of its release function.
Creating  == {"alloc", "minor", "id", "cdev"}
Releasing == {"rel_id", "rel_minor", "rel_cdev"}
Phases    == Creating \cup {"live", "deleted"} \cup Releasing

\* parent is a channel or a control device; by is the control file an endpoint
\* device is created through.
Device == [phase : Phases, refs : Nat, minor : Minors \cup {None},
           id : Nat \cup {None}, parent : Channels \cup Ctrls,
           by : Files \cup {None}]

ASSUME NoneAssumption == None \notin Device

Init ==
  /\ minors = {} /\ ids = [k \in {"ctrl", "ept"} |-> {}]
  /\ dev = [d \in Devs |-> None]
  /\ cdevs = <<>>
  /\ bound = [ch \in Channels |-> "unbound"]
  /\ file = [f \in Files |-> None]

-----------------------------------------------------------------------------
(* Helpers.                                                                 *)

Exists(d)   == dev[d] # None
Alive(d)    == Exists(d) /\ dev[d].phase \notin Releasing
HasCdev(d)  == Exists(d) /\ dev[d].phase \in {"cdev", "live", "deleted"}
IsLive(d)   == Exists(d) /\ dev[d].phase = "live"
Children(c) == {d \in Eptdevs : IsLive(d) /\ dev[d].parent = c}
OpenOn(d)   == {f \in Files : file[f] = d}

\* ida_simple_get gives the lowest number that is free.
Lowest(n, free) == n \in free /\ \A m \in free : n <= m

\* put_device: with the last reference the release function starts.
Put(r) == IF r.refs = 1 THEN [r EXCEPT !.refs = 0, !.phase = "rel_id"]
                        ELSE [r EXCEPT !.refs = @ - 1]

-----------------------------------------------------------------------------
(* rpmsg_eptdev_create and the same steps in rpmsg_chrdev_probe.            *)

\* kzalloc and device_initialize.
Alloc(d, parent, by) ==
  /\ dev[d] = None
  /\ dev' = [dev EXCEPT ![d] =
       [phase |-> "alloc", refs |-> 1, minor |-> None, id |-> None,
        parent |-> parent, by |-> by]]

\* RPMSG_CREATE_EPT_IOCTL on an open control device; a file runs one at a time.
CreateEptdev(d, f) ==
  /\ d \in Eptdevs /\ file[f] \in Ctrls
  /\ \A e \in Eptdevs : Exists(e) => dev[e].by # f
  /\ Alloc(d, file[f], f)
  /\ UNCHANGED <<minors, ids, cdevs, bound, file>>

\* rpmsg_chrdev_probe, under the device lock of the channel.
Probe(d, ch) ==
  /\ d \in Ctrls /\ bound[ch] = "unbound"
  /\ Alloc(d, ch, None)
  /\ bound' = [bound EXCEPT ![ch] = "probing"]
  /\ UNCHANGED <<minors, ids, cdevs, file>>

\* A failed probe leaves the channel unbound.
ProbeEnds(d, state) ==
  bound' = IF d \in Ctrls THEN [bound EXCEPT ![dev[d].parent] = state] ELSE bound

FreeMinors == Minors \ minors

GetMinor(d) ==
  /\ Exists(d) /\ dev[d].phase = "alloc"
  /\ \E m \in FreeMinors :
       /\ Lowest(m, FreeMinors)
       /\ minors' = minors \cup {m}
       /\ dev' = [dev EXCEPT ![d].phase = "minor", ![d].minor = m]
  /\ UNCHANGED <<ids, cdevs, bound, file>>

GetId(d) ==
  /\ Exists(d) /\ dev[d].phase = "minor"
  /\ \E n \in 0 .. Cardinality(Devs) :
       /\ Lowest(n, (0 .. Cardinality(Devs)) \ ids[Kind(d)])
       /\ ids' = [ids EXCEPT ![Kind(d)] = @ \cup {n}]
       /\ dev' = [dev EXCEPT ![d].phase = "id", ![d].id = n]
  /\ UNCHANGED <<minors, cdevs, bound, file>>

\* cdev_add; from here on the minor can be opened, and the release function
\* cleans up.
CdevAdd(d) ==
  /\ Exists(d) /\ dev[d].phase = "id" /\ Len(cdevs) < MaxCdevs
  /\ cdevs' = <<[minor |-> dev[d].minor, dev |-> d]>> \o cdevs
  /\ dev' = [dev EXCEPT ![d].phase = "cdev"]
  /\ UNCHANGED <<minors, ids, bound, file>>

Unwind_KeepsMinor(d) ==
  /\ Exists(d) /\ dev[d].phase \in {"alloc", "minor", "id"}
  /\ ids' = [ids EXCEPT ![Kind(d)] = @ \ {dev[d].id}]
  /\ dev' = [dev EXCEPT ![d] = None]
  /\ ProbeEnds(d, "unbound")
  /\ UNCHANGED <<minors, cdevs, file>>

\* One of these steps fails: free_ept_ida, free_minor_ida and free_eptdev, of
\* which the first two have nothing to do if the number was not taken.
Unwind(d) ==
  /\ Exists(d) /\ dev[d].phase \in {"alloc", "minor", "id"}
  /\ ids' = [ids EXCEPT ![Kind(d)] = @ \ {dev[d].id}]
  /\ minors' = minors \ {dev[d].minor}
  /\ dev' = [dev EXCEPT ![d] = None]
  /\ ProbeEnds(d, "unbound")
  /\ UNCHANGED <<cdevs, file>>

ParentGet_Not(d) == dev

\* A registered device has a reference on its parent.
ParentGet(d) ==
  IF d \in Eptdevs THEN [dev EXCEPT ![dev[d].parent].refs = @ + 1] ELSE dev

\* device_add succeeds, under a parent that is registered itself ...
DeviceAdd(d) ==
  /\ Exists(d) /\ dev[d].phase = "cdev"
  /\ d \in Eptdevs => IsLive(dev[d].parent)
  /\ dev' = [ParentGet(d) EXCEPT ![d].phase = "live", ![d].by = None]
  /\ ProbeEnds(d, "bound")
  /\ UNCHANGED <<minors, ids, cdevs, file>>

\* ... or fails, and the reference of the creator is dropped.
DeviceAddFails(d) ==
  /\ Exists(d) /\ dev[d].phase = "cdev"
  /\ dev' = [dev EXCEPT ![d] = Put([@ EXCEPT !.by = None, !.phase = "deleted"])]
  /\ ProbeEnds(d, "unbound")
  /\ UNCHANGED <<minors, ids, cdevs, file>>

-----------------------------------------------------------------------------
(* open and release                                                         *)

\* The entry the kernel finds for a minor: the newest character device added for
\* it, if there is one.
Newest(m) == {i \in DOMAIN cdevs : Lowest(i, {j \in DOMAIN cdevs : cdevs[j].minor = m})}

OpenGet_Not(d) == dev

\* get_device(&ctrldev->dev), get_device(&eptdev->dev)
OpenGet(d) == [dev EXCEPT ![d].refs = @ + 1]

\* rpmsg_ctrldev_open and rpmsg_eptdev_open, as one step with the lookup.
\* Opening what has been freed is undefined, and not modelled.
Open(f, m) ==
  /\ file[f] = None
  /\ \E i \in Newest(m) :
       LET d == cdevs[i].dev IN
       /\ HasCdev(d) /\ dev[d].minor = m
       /\ file' = [file EXCEPT ![f] = d]
       /\ dev' = OpenGet(d)
  /\ UNCHANGED <<minors, ids, cdevs, bound>>

\* rpmsg_ctrldev_release and rpmsg_eptdev_release, when no call is under way.
Close(f) ==
  /\ file[f] # None
  /\ \A e \in Eptdevs : Exists(e) => dev[e].by # f
  /\ file' = [file EXCEPT ![f] = None]
  /\ dev' = [dev EXCEPT ![file[f]] = Put(@)]
  /\ UNCHANGED <<minors, ids, cdevs, bound>>

-----------------------------------------------------------------------------
(* The end of a device.                                                     *)

\* rpmsg_eptdev_destroy: device_del drops the reference on the parent, and
\* put_device the one it was created with.
DestroyEptdev(d) ==
  dev' = [dev EXCEPT ![d] = Put([@ EXCEPT !.phase = "deleted"]),
                     ![dev[d].parent] = Put(@)]

\* RPMSG_DESTROY_EPT_IOCTL on an open endpoint device.
IoctlDestroy(f) ==
  /\ file[f] \in Eptdevs /\ IsLive(file[f])
  /\ DestroyEptdev(file[f])
  /\ UNCHANGED <<minors, ids, cdevs, bound, file>>

\* The control device of a channel: dev_get_drvdata(&rpdev->dev).
CtrlOf(ch) == CHOOSE c \in Ctrls : IsLive(c) /\ dev[c].parent = ch

\* rpmsg_chrdev_remove destroys the endpoint devices one by one ...
RemoveStart(ch) ==
  /\ bound[ch] = "bound"
  /\ bound' = [bound EXCEPT ![ch] = "removing"]
  /\ UNCHANGED <<minors, ids, dev, cdevs, file>>

RemoveChild(ch, d) ==
  /\ bound[ch] = "removing" /\ d \in Children(CtrlOf(ch))
  /\ DestroyEptdev(d)
  /\ UNCHANGED <<minors, ids, cdevs, bound, file>>

RemoveLoopEnds(ch) ==
  /\ bound[ch] = "removing" /\ Children(CtrlOf(ch)) = {}
  /\ bound' = [bound EXCEPT ![ch] = "childless"]
  /\ UNCHANGED <<minors, ids, dev, cdevs, file>>

\* ... and then the control device.
RemoveCtrl(ch) ==
  /\ bound[ch] = "childless"
  /\ dev' = [dev EXCEPT ![CtrlOf(ch)] = Put([@ EXCEPT !.phase = "deleted"])]
  /\ bound' = [bound EXCEPT ![ch] = "unbound"]
  /\ UNCHANGED <<minors, ids, cdevs, file>>

\* rpmsg_eptdev_release_device, rpmsg_ctrldev_release_device: the id, ...
ReleaseId(d) ==
  /\ Exists(d) /\ dev[d].phase = "rel_id"
  /\ ids' = [ids EXCEPT ![Kind(d)] = @ \ {dev[d].id}]
  /\ dev' = [dev EXCEPT ![d].phase = "rel_minor", ![d].id = None]
  /\ UNCHANGED <<minors, cdevs, bound, file>>

\* ... the minor, which another device may take from now on, ...
ReleaseMinor(d) ==
  /\ Exists(d) /\ dev[d].phase = "rel_minor"
  /\ minors' = minors \ {dev[d].minor}
  /\ dev' = [dev EXCEPT ![d].phase = "rel_cdev"]
  /\ UNCHANGED <<ids, cdevs, bound, file>>

\* kobj_unmap takes the first entry for the minor out, whose ever it is.
Unmap(m) ==
  IF Newest(m) = {} THEN UNCHANGED cdevs
                    ELSE \E i \in Newest(m) : cdevs' = RemoveAt(cdevs, i)

\* ... and with cdev_del the character device; then the memory is freed.
ReleaseCdev(d) ==
  /\ Exists(d) /\ dev[d].phase = "rel_cdev"
  /\ Unmap(dev[d].minor)
  /\ dev' = [dev EXCEPT ![d] = None]
  /\ UNCHANGED <<minors, ids, bound, file>>

-----------------------------------------------------------------------------
Next ==
  \/ \E d \in Devs :
       \/ \E f \in Files : CreateEptdev(d, f)
       \/ \E ch \in Channels : Probe(d, ch) \/ RemoveChild(ch, d)
       \/ GetMinor(d) \/ GetId(d) \/ CdevAdd(d) \/ Unwind(d)
       \/ DeviceAdd(d) \/ DeviceAddFails(d)
       \/ ReleaseId(d) \/ ReleaseMinor(d) \/ ReleaseCdev(d)
  \/ \E f \in Files : (\E m \in Minors : Open(f, m)) \/ Close(f) \/ IoctlDestroy(f)
  \/ \E ch \in Channels : RemoveStart(ch) \/ RemoveLoopEnds(ch) \/ RemoveCtrl(ch)

Spec == Init /\ [][Next]_vars

-----------------------------------------------------------------------------
(* Correctness.                                                             *)

TypeOK ==
  /\ minors \subseteq Minors
  /\ ids \in [{"ctrl", "ept"} -> SUBSET Nat]
  /\ dev \in [Devs -> Device \cup {None}]
  /\ cdevs \in Seq([minor : Minors, dev : Devs])
  /\ bound \in [Channels -> {"unbound", "probing", "bound", "removing", "childless"}]
  /\ file \in [Files -> Devs \cup {None}]

HasMinor == {d \in Devs : Exists(d) /\ dev[d].minor # None
                          /\ dev[d].phase # "rel_cdev"}
HasId(k) == {d \in Devs : Exists(d) /\ Kind(d) = k /\ dev[d].id # None}

\* Minors and ids are taken exactly by the devices that use them, one each:
\* no way a creation fails or a device ends leaks one or frees one twice.
NumbersExact ==
  /\ TypeOK
  /\ minors = {dev[d].minor : d \in HasMinor}
  /\ \A d, e \in HasMinor : d # e => dev[d].minor # dev[e].minor
  /\ \A k \in {"ctrl", "ept"} :
       /\ ids[k] = {dev[d].id : d \in HasId(k)}
       /\ \A d, e \in HasId(k) : d # e => dev[d].id # dev[e].id

\* No device is released while it is in use: by a file, by the creation of an
\* endpoint device through it, or as the parent of one, however the channel
\* is removed meanwhile.
ReleasedUnused ==
  /\ \A f \in Files : file[f] # None => Alive(file[f])
  /\ \A d \in Eptdevs :
       Exists(d) /\ dev[d].phase \in Creating \cup {"live"} => Alive(dev[d].parent)

\* Nor is a device that nobody uses kept: the references of a device are those
\* of its files, its children, and the one it was created with.
RefsExact ==
  \A d \in Devs : Alive(d) =>
    dev[d].refs = Cardinality(OpenOn(d))
                    + Cardinality(IF d \in Ctrls THEN Children(d) ELSE {})
                    + (IF dev[d].phase = "deleted" THEN 0 ELSE 1)

-----------------------------------------------------------------------------
(* What the comments promise and the code does not keep; see the README.    *)

\* "We can now rely on the release function for cleanup": it leaves nothing of
\* the device among the character devices that can be opened.
CdevsExist == \A i \in DOMAIN cdevs : Exists(cdevs[i].dev)

\* "Destroy all endpoints": an unbound channel has no endpoint device.
NoEptdevAfterRemove ==
  \A d \in Eptdevs : IsLive(d) => IsLive(dev[d].parent)
=============================================================================
