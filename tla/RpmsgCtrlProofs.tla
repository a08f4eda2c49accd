---------------------------- MODULE RpmsgCtrlProofs ----------------------------
(***************************************************************************)
(* Minors, ids and references of the devices of rpmsg_chrdev, for any      *)
(* channels, devices, files and any RPMSG_DEV_MAX.                         *)
(***************************************************************************)
EXTENDS RpmsgCtrl, TLAPS, FiniteSetTheorems

(***************************************************************************)
(* The strengthening: the phase of a device determines what it has taken   *)
(* and who creates it; whatever is open can be; a device that is created   *)
(* through a file has the file's device as its parent; and a bound channel *)
(* has a control device.                                                   *)
(***************************************************************************)
Openable == {"cdev", "live", "deleted"}

ByPhase(d) ==
  /\ dev[d].minor # None <=> dev[d].phase # "alloc"
  /\ dev[d].id # None <=> dev[d].phase \notin {"alloc", "minor", "rel_minor", "rel_cdev"}
  /\ dev[d].parent \in IF d \in Ctrls THEN Channels ELSE Ctrls
  /\ dev[d].by # None <=> d \in Eptdevs /\ dev[d].phase \in Creating
  /\ Alive(d) => dev[d].refs # 0

HasByPhase == \A d \in Devs : Exists(d) => ByPhase(d)

OpenUsable == \A f \in Files : file[f] # None => HasCdev(file[f])

CreatedThroughFile ==
  \A d \in Eptdevs : Exists(d) /\ dev[d].by # None => file[dev[d].by] = dev[d].parent

LiveUnderParent ==
  \A d \in Eptdevs : IsLive(d) => HasCdev(dev[d].parent) /\ dev[dev[d].parent].phase # "cdev"

BoundHasCtrl ==
  \A ch \in Channels : bound[ch] \in {"bound", "removing", "childless"} =>
    \E c \in Ctrls : IsLive(c) /\ dev[c].parent = ch

UseInv ==
  TypeOK /\ HasByPhase /\ OpenUsable /\ CreatedThroughFile /\ LiveUnderParent /\ BoundHasCtrl

USE CtrlAssumption, NoneAssumption DEF CtrlAssumption

LEMMA UseInit == Init => UseInv
<1> SUFFICES ASSUME Init PROVE UseInv
  OBVIOUS
<1>1. cdevs \in Seq([minor : Minors, dev : Devs])
  BY DEF Init
<1>2. TypeOK
  BY <1>1 DEF Init, TypeOK, Minors
<1>3. HasByPhase /\ LiveUnderParent /\ CreatedThroughFile
  BY DEF Init, HasByPhase, ByPhase, LiveUnderParent, CreatedThroughFile, Exists, IsLive, Devs
<1>4. OpenUsable /\ BoundHasCtrl
  BY DEF Init, OpenUsable, BoundHasCtrl
<1> QED
  BY <1>2, <1>3, <1>4 DEF UseInv

\* put_device takes one reference, and ends the device with the last.
LEMMA PutEffect ==
  ASSUME NEW r \in Device, r.refs # 0, r.phase \in Openable
  PROVE  /\ Put(r) \in Device
         /\ Put(r).minor = r.minor /\ Put(r).id = r.id
         /\ Put(r).parent = r.parent /\ Put(r).by = r.by
         /\ \/ r.refs = 1 /\ Put(r).phase = "rel_id"
            \/ r.refs # 1 /\ Put(r).phase = r.phase /\ Put(r).refs = r.refs - 1 /\ Put(r).refs # 0
<1>1. r.refs \in Nat /\ r.minor \in Minors \cup {None} /\ r.id \in Nat \cup {None}
      /\ r.parent \in Channels \cup Ctrls /\ r.by \in Files \cup {None} /\ r.phase \in Phases
  BY DEF Device
<1>2. CASE r.refs = 1
  <2>1. Put(r) = [r EXCEPT !.refs = 0, !.phase = "rel_id"]
    BY <1>2 DEF Put
  <2>2. "rel_id" \in Phases /\ 0 \in Nat
    BY DEF Phases, Releasing
  <2> QED
    BY <1>1, <1>2, <2>1, <2>2 DEF Device
<1>3. CASE r.refs # 1
  <2>1. Put(r) = [r EXCEPT !.refs = @ - 1] /\ r.refs - 1 \in Nat /\ r.refs - 1 # 0
    BY <1>1, <1>3 DEF Put
  <2> QED
    BY <1>1, <1>3, <2>1 DEF Device
<1> QED
  BY <1>2, <1>3

\* What is in a device that exists.
LEMMA DeviceHas ==
  ASSUME TypeOK, NEW d \in Devs, Exists(d)
  PROVE  dev[d] \in Device
BY DEF TypeOK, Exists

\* An endpoint device and its parent are different, and both lose a reference.
LEMMA DestroyEffect ==
  ASSUME UseInv, NEW d \in Eptdevs, IsLive(d), DestroyEptdev(d)
  PROVE  LET p == dev[d].parent
             r == [dev[d] EXCEPT !.phase = "deleted"]
         IN  /\ p \in Ctrls /\ p \in Devs /\ d \in Devs /\ p # d
             /\ r \in Device /\ r.refs # 0 /\ r.phase = "deleted"
             /\ r.minor = dev[d].minor /\ r.id = dev[d].id /\ r.refs = dev[d].refs
             /\ r.parent = dev[d].parent /\ r.by = dev[d].by
             /\ dev[p] \in Device /\ dev[p].refs # 0 /\ dev[p].phase \in {"live", "deleted"}
             /\ dev'[d] = Put(r) /\ dev'[p] = Put(dev[p])
             /\ \A x \in Devs \ {d, p} : dev'[x] = dev[x]
             /\ dev' \in [Devs -> Device \cup {None}]
<1> DEFINE p == dev[d].parent
           r == [dev[d] EXCEPT !.phase = "deleted"]
<1>1. d \in Devs /\ Exists(d) /\ dev[d] \in Device
  BY DeviceHas DEF UseInv, IsLive, Devs
<1>2. p \in Ctrls /\ p \in Devs /\ p # d
  BY <1>1 DEF UseInv, HasByPhase, ByPhase, Devs
<1>3. dev[p] \in Device /\ dev[p].phase \in {"live", "deleted"}
  BY <1>2, DeviceHas DEF UseInv, LiveUnderParent, HasCdev
<1>4. dev[p].refs # 0 /\ dev[d].refs # 0
  BY <1>1, <1>2, <1>3 DEF UseInv, HasByPhase, ByPhase, IsLive, Alive, Releasing, Exists
<1>5. r \in Device /\ r.refs = dev[d].refs /\ r.phase = "deleted" /\ r.minor = dev[d].minor
      /\ r.id = dev[d].id /\ r.parent = dev[d].parent /\ r.by = dev[d].by
  BY <1>1 DEF Device, Phases
<1>6. Put(r) \in Device /\ Put(dev[p]) \in Device
  BY <1>3, <1>4, <1>5, PutEffect DEF Openable
<1>7. dev' = [[dev EXCEPT ![d] = Put(r)] EXCEPT ![p] = Put(dev[p])]
  BY <1>2 DEF DestroyEptdev, UseInv, TypeOK
<1>8. dev \in [Devs -> Device \cup {None}]
  BY DEF UseInv, TypeOK
<1> HIDE DEF p, r
<1>9. dev'[d] = Put(r) /\ dev'[p] = Put(dev[p]) /\ \A x \in Devs \ {d, p} : dev'[x] = dev[x]
  BY <1>1, <1>2, <1>7, <1>8
<1>10. dev' \in [Devs -> Device \cup {None}]
  BY <1>1, <1>2, <1>6, <1>7, <1>8
<1> QED
  BY <1>1, <1>2, <1>3, <1>4, <1>5, <1>9, <1>10 DEF p, r

\* kzalloc and device_initialize.
LEMMA AllocEffect ==
  ASSUME TypeOK, NEW d \in Devs, NEW parent \in Channels \cup Ctrls, NEW by \in Files \cup {None},
         Alloc(d, parent, by)
  PROVE  /\ ~Exists(d) /\ dev'[d] \in Device
         /\ dev'[d].phase = "alloc" /\ dev'[d].refs = 1 /\ dev'[d].minor = None
         /\ dev'[d].id = None /\ dev'[d].parent = parent /\ dev'[d].by = by
         /\ \A x \in Devs \ {d} : dev'[x] = dev[x]
         /\ dev' \in [Devs -> Device \cup {None}]
<1> DEFINE r == [phase |-> "alloc", refs |-> 1, minor |-> None, id |-> None,
                 parent |-> parent, by |-> by]
<1>1. r \in Device
  BY DEF Device, Phases, Creating
<1>2. r.phase = "alloc" /\ r.refs = 1 /\ r.minor = None /\ r.id = None /\ r.parent = parent /\ r.by = by
  OBVIOUS
<1>3. dev' = [dev EXCEPT ![d] = r] /\ dev[d] = None
  BY DEF Alloc
<1>4. dev \in [Devs -> Device \cup {None}]
  BY DEF TypeOK
<1> HIDE DEF r
<1> QED
  BY <1>1, <1>2, <1>3, <1>4 DEF Exists

StepOf(d) ==
  GetMinor(d) \/ GetId(d) \/ CdevAdd(d) \/ ReleaseId(d) \/ ReleaseMinor(d)

\* A step of a creation or of a release function changes one device only.
LEMMA StepEffect ==
  ASSUME TypeOK, HasByPhase, NEW d \in Devs, StepOf(d)
  PROVE  /\ dev[d] \in Device /\ dev'[d] \in Device
         /\ dev'[d].refs = dev[d].refs /\ dev'[d].parent = dev[d].parent
         /\ dev'[d].by = dev[d].by
         /\ \/ dev[d].phase = "alloc" /\ dev'[d].phase = "minor" /\ dev'[d].id = dev[d].id
               /\ dev'[d].minor \in Minors \ minors /\ minors' = minors \cup {dev'[d].minor}
               /\ UNCHANGED <<ids, cdevs>>
            \/ dev[d].phase = "minor" /\ dev'[d].phase = "id" /\ dev'[d].minor = dev[d].minor
               /\ dev'[d].id \in Nat \ ids[Kind(d)]
               /\ ids' = [ids EXCEPT ![Kind(d)] = @ \cup {dev'[d].id}]
               /\ UNCHANGED <<minors, cdevs>>
            \/ dev[d].phase = "id" /\ dev'[d].phase = "cdev" /\ dev'[d].minor = dev[d].minor
               /\ dev'[d].id = dev[d].id /\ UNCHANGED <<minors, ids>>
            \/ dev[d].phase = "rel_id" /\ dev'[d].phase = "rel_minor"
               /\ dev'[d].minor = dev[d].minor /\ dev'[d].id = None
               /\ ids' = [ids EXCEPT ![Kind(d)] = @ \ {dev[d].id}]
               /\ UNCHANGED <<minors, cdevs>>
            \/ dev[d].phase = "rel_minor" /\ dev'[d].phase = "rel_cdev"
               /\ dev'[d].minor = dev[d].minor /\ dev'[d].id = dev[d].id
               /\ minors' = minors \ {dev[d].minor} /\ UNCHANGED <<ids, cdevs>>
         /\ \A x \in Devs \ {d} : dev'[x] = dev[x]
         /\ dev' \in [Devs -> Device \cup {None}]
         /\ UNCHANGED <<bound, file>>
<1>1. dev \in [Devs -> Device \cup {None}] /\ dev[d] \in Device
  BY DeviceHas DEF TypeOK, StepOf, GetMinor, GetId, CdevAdd, ReleaseId, ReleaseMinor
<1>2. CASE GetMinor(d)
  <2>1. PICK m \in FreeMinors : minors' = minors \cup {m}
                /\ dev' = [dev EXCEPT ![d].phase = "minor", ![d].minor = m]
    BY <1>2 DEF GetMinor
  <2>2. dev'[d] = [dev[d] EXCEPT !.phase = "minor", !.minor = m]
        /\ \A x \in Devs \ {d} : dev'[x] = dev[x]
    BY <1>1, <2>1
  <2>3. m \in Minors \ minors
    BY <2>1 DEF FreeMinors
  <2>4. dev'[d] \in Device
    BY <1>1, <2>2, <2>3 DEF Device, Phases, Creating
  <2>5. dev' \in [Devs -> Device \cup {None}]
    BY <1>1, <2>1, <2>2, <2>4
  <2> QED
    BY <1>1, <1>2, <2>1, <2>2, <2>3, <2>4, <2>5 DEF GetMinor, Device
<1>3. CASE GetId(d)
  <2>1. PICK n \in 0 .. Cardinality(Devs) :
               Lowest(n, (0 .. Cardinality(Devs)) \ ids[Kind(d)])
               /\ ids' = [ids EXCEPT ![Kind(d)] = @ \cup {n}]
               /\ dev' = [dev EXCEPT ![d].phase = "id", ![d].id = n]
    BY <1>3 DEF GetId
  <2>2. dev'[d] = [dev[d] EXCEPT !.phase = "id", !.id = n]
        /\ \A x \in Devs \ {d} : dev'[x] = dev[x]
    BY <1>1, <2>1
  <2>3. n \in Nat \ ids[Kind(d)]
    BY <2>1 DEF Lowest
  <2>4. dev'[d] \in Device
    BY <1>1, <2>2, <2>3 DEF Device, Phases, Creating
  <2>5. dev' \in [Devs -> Device \cup {None}]
    BY <1>1, <2>1, <2>2, <2>4
  <2> QED
    BY <1>1, <1>3, <2>1, <2>2, <2>3, <2>4, <2>5 DEF GetId, Device
<1>4. CASE CdevAdd(d)
  <2>1. dev' = [dev EXCEPT ![d].phase = "cdev"]
    BY <1>4 DEF CdevAdd
  <2>2. dev'[d] = [dev[d] EXCEPT !.phase = "cdev"] /\ \A x \in Devs \ {d} : dev'[x] = dev[x]
    BY <1>1, <2>1
  <2>3. dev'[d] \in Device
    BY <1>1, <2>2 DEF Device, Phases, Creating
  <2>4. dev' \in [Devs -> Device \cup {None}]
    BY <1>1, <2>1, <2>2, <2>3
  <2> QED
    BY <1>1, <1>4, <2>2, <2>3, <2>4 DEF CdevAdd, Device
<1>5. CASE ReleaseId(d)
  <2>1. dev' = [dev EXCEPT ![d].phase = "rel_minor", ![d].id = None]
    BY <1>5 DEF ReleaseId
  <2>2. dev'[d] = [dev[d] EXCEPT !.phase = "rel_minor", !.id = None]
        /\ \A x \in Devs \ {d} : dev'[x] = dev[x]
    BY <1>1, <2>1
  <2>3. dev'[d] \in Device
    BY <1>1, <2>2 DEF Device, Phases, Releasing
  <2>4. dev' \in [Devs -> Device \cup {None}]
    BY <1>1, <2>1, <2>2, <2>3
  <2> QED
    BY <1>1, <1>5, <2>2, <2>3, <2>4 DEF ReleaseId, Device
<1>6. CASE ReleaseMinor(d)
  <2>1. dev' = [dev EXCEPT ![d].phase = "rel_cdev"]
    BY <1>6 DEF ReleaseMinor
  <2>2. dev'[d] = [dev[d] EXCEPT !.phase = "rel_cdev"] /\ \A x \in Devs \ {d} : dev'[x] = dev[x]
    BY <1>1, <2>1
  <2>3. dev'[d] \in Device
    BY <1>1, <2>2 DEF Device, Phases, Releasing
  <2>4. dev' \in [Devs -> Device \cup {None}]
    BY <1>1, <2>1, <2>2, <2>3
  <2> QED
    BY <1>1, <1>6, <2>2, <2>3, <2>4 DEF ReleaseMinor, Device
<1> QED
  BY <1>2, <1>3, <1>4, <1>5, <1>6 DEF StepOf

\* Registering a device takes a reference on its parent.
LEMMA DeviceAddEffect ==
  ASSUME UseInv, NEW d \in Devs, DeviceAdd(d)
  PROVE  /\ dev[d] \in Device /\ dev[d].phase = "cdev" /\ dev'[d] \in Device
         /\ dev'[d].phase = "live" /\ dev'[d].by = None /\ dev'[d].refs = dev[d].refs
         /\ dev'[d].minor = dev[d].minor /\ dev'[d].id = dev[d].id
         /\ dev'[d].parent = dev[d].parent
         /\ IF d \in Ctrls THEN \A x \in Devs \ {d} : dev'[x] = dev[x]
            ELSE LET p == dev[d].parent IN
                 /\ p \in Ctrls /\ p # d /\ dev[p] \in Device /\ dev[p].phase = "live"
                 /\ dev'[p] \in Device /\ dev'[p].refs = dev[p].refs + 1
                 /\ dev'[p].phase = "live" /\ dev'[p].by = dev[p].by
                 /\ dev'[p].minor = dev[p].minor /\ dev'[p].id = dev[p].id
                 /\ dev'[p].parent = dev[p].parent
                 /\ \A x \in Devs \ {d, p} : dev'[x] = dev[x]
         /\ dev' \in [Devs -> Device \cup {None}]
<1>1. dev \in [Devs -> Device \cup {None}] /\ dev[d] \in Device /\ dev[d].phase = "cdev"
  BY DeviceHas DEF UseInv, TypeOK, DeviceAdd
<1> DEFINE r == [dev[d] EXCEPT !.phase = "live", !.by = None]
<1>2. /\ r \in Device /\ r.phase = "live" /\ r.by = None /\ r.refs = dev[d].refs
      /\ r.minor = dev[d].minor /\ r.id = dev[d].id /\ r.parent = dev[d].parent
  <2>1. "live" \in Phases
    BY DEF Phases
  <2> QED
    BY <1>1, <2>1 DEF Device
<1>3. CASE d \in Ctrls
  <2>1. dev' = [dev EXCEPT ![d] = r]
    BY <1>1, <1>3 DEF DeviceAdd, ParentGet
  <2> HIDE DEF r
  <2> QED
    BY <1>1, <1>2, <1>3, <2>1
<1>4. CASE d \notin Ctrls
  <2> DEFINE p == dev[d].parent
             q == [dev[p] EXCEPT !.refs = @ + 1]
  <2>1. d \in Eptdevs /\ IsLive(p) /\ p \in Ctrls
    BY <1>4 DEF DeviceAdd, Devs, UseInv, HasByPhase, ByPhase
  <2>2. p # d /\ p \in Devs /\ dev[p] \in Device /\ dev[p].phase = "live"
    BY <2>1, DeviceHas DEF UseInv, IsLive, Devs
  <2>3. /\ q \in Device /\ q.refs = dev[p].refs + 1 /\ q.phase = "live" /\ q.by = dev[p].by
        /\ q.minor = dev[p].minor /\ q.id = dev[p].id /\ q.parent = dev[p].parent
    BY <2>2 DEF Device
  <2>4. ParentGet(d) = [dev EXCEPT ![p] = q]
    BY <1>1, <2>1, <2>2 DEF ParentGet
  <2>5. ParentGet(d)[d] = dev[d]
    BY <1>1, <2>2, <2>4
  <2>6. dev' = [[dev EXCEPT ![p] = q] EXCEPT ![d] = r]
    <3>1. dev' = [ParentGet(d) EXCEPT ![d].phase = "live", ![d].by = None]
      BY DEF DeviceAdd
    <3>2. dev' = [ParentGet(d) EXCEPT ![d] = [ParentGet(d)[d] EXCEPT !.phase = "live", !.by = None]]
      BY <1>1, <2>2, <2>4, <3>1
    <3> QED
      BY <2>4, <2>5, <3>2
  <2> HIDE DEF r, q, p
  <2>7. dev'[d] = r /\ dev'[p] = q /\ \A x \in Devs \ {d, p} : dev'[x] = dev[x]
    BY <1>1, <2>2, <2>6
  <2>8. dev' \in [Devs -> Device \cup {None}]
    BY <1>1, <1>2, <2>2, <2>3, <2>6
  <2> QED
    BY <1>1, <1>2, <1>4, <2>1, <2>2, <2>3, <2>7, <2>8 DEF p
<1> QED
  BY <1>3, <1>4

\* A device whose creator or channel gives it up, or whose file is closed.
LEMMA PutsEffect ==
  ASSUME UseInv, NEW d \in Devs, NEW r \in Device, r.refs # 0, r.phase \in Openable,
         dev' = [dev EXCEPT ![d] = Put(r)]
  PROVE  /\ dev'[d] = Put(r) /\ \A x \in Devs \ {d} : dev'[x] = dev[x]
         /\ dev' \in [Devs -> Device \cup {None}]
<1>1. Put(r) \in Device
  BY PutEffect
<1> QED
  BY <1>1 DEF UseInv, TypeOK

LEMMA DeletedRecord ==
  ASSUME NEW r \in Device
  PROVE  LET s == [r EXCEPT !.by = None, !.phase = "deleted"]
             t == [r EXCEPT !.phase = "deleted"]
         IN  /\ s \in Device /\ s.phase = "deleted" /\ s.refs = r.refs /\ s.minor = r.minor
             /\ s.id = r.id /\ s.parent = r.parent /\ s.by = None
             /\ t \in Device /\ t.phase = "deleted" /\ t.refs = r.refs /\ t.minor = r.minor
             /\ t.id = r.id /\ t.parent = r.parent /\ t.by = r.by
<1>1. "deleted" \in Phases
  BY DEF Phases
<1> QED
  BY <1>1 DEF Device

\* device_add fails.
LEMMA AddFailsEffect ==
  ASSUME UseInv, NEW d \in Devs, DeviceAddFails(d)
  PROVE  /\ dev[d] \in Device /\ dev[d].phase = "cdev" /\ dev[d].refs # 0
         /\ dev'[d] \in Device /\ dev'[d].minor = dev[d].minor /\ dev'[d].id = dev[d].id
         /\ dev'[d].parent = dev[d].parent /\ dev'[d].by = None
         /\ \/ dev[d].refs = 1 /\ dev'[d].phase = "rel_id"
            \/ dev[d].refs # 1 /\ dev'[d].phase = "deleted" /\ dev'[d].refs = dev[d].refs - 1
               /\ dev'[d].refs # 0
         /\ \A x \in Devs \ {d} : dev'[x] = dev[x]
         /\ dev' \in [Devs -> Device \cup {None}]
<1> DEFINE r == [dev[d] EXCEPT !.by = None, !.phase = "deleted"]
<1>1. dev[d] \in Device /\ dev[d].phase = "cdev" /\ dev[d].refs # 0
  BY DeviceHas DEF UseInv, DeviceAddFails, HasByPhase, ByPhase, Alive, Releasing
<1>2. r \in Device /\ r.phase = "deleted" /\ r.refs = dev[d].refs /\ r.minor = dev[d].minor
      /\ r.id = dev[d].id /\ r.parent = dev[d].parent /\ r.by = None
  BY <1>1, DeletedRecord
<1>3. dev' = [dev EXCEPT ![d] = Put(r)]
  BY DEF DeviceAddFails
<1> HIDE DEF r
<1>4. dev'[d] = Put(r) /\ (\A x \in Devs \ {d} : dev'[x] = dev[x])
      /\ dev' \in [Devs -> Device \cup {None}]
  BY <1>1, <1>2, <1>3, PutsEffect DEF Openable
<1> QED
  BY <1>1, <1>2, <1>4, PutEffect DEF Openable

LEMMA EntryOf ==
  ASSUME NEW S, NEW s \in Seq(S), NEW i \in DOMAIN s
  PROVE  s[i] \in S
OBVIOUS

\* A file takes a reference when it is opened ...
LEMMA OpenEffect ==
  ASSUME UseInv, NEW f \in Files, NEW m \in Minors, Open(f, m)
  PROVE  \E d \in Devs :
           /\ file[f] = None /\ file' = [file EXCEPT ![f] = d] /\ HasCdev(d)
           /\ dev[d] \in Device /\ dev'[d] \in Device /\ dev'[d].refs = dev[d].refs + 1
           /\ dev'[d].phase = dev[d].phase /\ dev'[d].minor = dev[d].minor
           /\ dev'[d].id = dev[d].id /\ dev'[d].parent = dev[d].parent
           /\ dev'[d].by = dev[d].by
           /\ \A x \in Devs \ {d} : dev'[x] = dev[x]
           /\ dev' \in [Devs -> Device \cup {None}]
<1>1. PICK i \in Newest(m) : /\ HasCdev(cdevs[i].dev)
                             /\ file' = [file EXCEPT ![f] = cdevs[i].dev]
                             /\ dev' = OpenGet(cdevs[i].dev)
  BY DEF Open
<1> DEFINE d == cdevs[i].dev
           r == [dev[d] EXCEPT !.refs = @ + 1]
<1>2. d \in Devs
  <2>1. cdevs[i] \in [minor : Minors, dev : Devs]
    <3>1. i \in DOMAIN cdevs /\ cdevs \in Seq([minor : Minors, dev : Devs])
      BY <1>1 DEF Newest, UseInv, TypeOK
    <3> QED
      BY <3>1, EntryOf
  <2> QED
    BY <2>1
<1>3. dev[d] \in Device
  BY <1>1, <1>2, DeviceHas DEF UseInv, HasCdev
<1>4. /\ r \in Device /\ r.refs = dev[d].refs + 1 /\ r.phase = dev[d].phase
      /\ r.minor = dev[d].minor /\ r.id = dev[d].id /\ r.parent = dev[d].parent
      /\ r.by = dev[d].by
  BY <1>3 DEF Device
<1>5. dev' = [dev EXCEPT ![d] = r] /\ dev \in [Devs -> Device \cup {None}]
  BY <1>1 DEF OpenGet, UseInv, TypeOK
<1>6. file[f] = None
  BY DEF Open
<1> HIDE DEF d, r
<1>7. dev'[d] = r /\ (\A x \in Devs \ {d} : dev'[x] = dev[x]) /\ dev' \in [Devs -> Device \cup {None}]
  BY <1>2, <1>4, <1>5
<1>8. HasCdev(d) /\ file' = [file EXCEPT ![f] = d]
  BY <1>1 DEF d
<1> QED
  BY <1>2, <1>3, <1>4, <1>6, <1>7, <1>8

\* ... and drops it when it is closed.
LEMMA CloseEffect ==
  ASSUME UseInv, NEW f \in Files, Close(f)
  PROVE  LET d == file[f] IN
         /\ d \in Devs /\ file' = [file EXCEPT ![f] = None]
         /\ dev[d] \in Device /\ dev[d].phase \in Openable /\ dev[d].refs # 0
         /\ dev'[d] = Put(dev[d]) /\ \A x \in Devs \ {d} : dev'[x] = dev[x]
         /\ dev' \in [Devs -> Device \cup {None}]
<1> DEFINE d == file[f]
<1>1. d \in Devs /\ HasCdev(d) /\ file' = [file EXCEPT ![f] = None]
  BY DEF Close, UseInv, OpenUsable, TypeOK
<1>2. dev[d] \in Device /\ dev[d].phase \in Openable
  BY <1>1, DeviceHas DEF UseInv, HasCdev, Openable
<1>3. dev[d].refs # 0
  BY <1>1, <1>2 DEF UseInv, HasByPhase, ByPhase, HasCdev, Alive, Releasing, Openable
<1>4. dev' = [dev EXCEPT ![d] = Put(dev[d])]
  BY DEF Close, UseInv, TypeOK
<1> HIDE DEF d
<1> QED
  BY <1>1, <1>2, <1>3, <1>4, PutsEffect DEF d

\* The control device of a channel that is bound.
LEMMA CtrlOfBound ==
  ASSUME BoundHasCtrl, NEW ch \in Channels, bound[ch] \in {"bound", "removing", "childless"}
  PROVE  CtrlOf(ch) \in Ctrls /\ IsLive(CtrlOf(ch)) /\ dev[CtrlOf(ch)].parent = ch
<1>1. \E c \in Ctrls : IsLive(c) /\ dev[c].parent = ch
  BY DEF BoundHasCtrl
<1> QED
  BY <1>1 DEF CtrlOf

LEMMA RemoveCtrlEffect ==
  ASSUME UseInv, NEW ch \in Channels, RemoveCtrl(ch)
  PROVE  LET c == CtrlOf(ch)
             r == [dev[c] EXCEPT !.phase = "deleted"]
         IN  /\ c \in Ctrls /\ c \in Devs /\ IsLive(c) /\ dev[c].parent = ch
             /\ dev[c] \in Device /\ dev[c].refs # 0
             /\ r \in Device /\ r.phase = "deleted" /\ r.refs = dev[c].refs
             /\ r.minor = dev[c].minor /\ r.id = dev[c].id /\ r.parent = dev[c].parent
             /\ r.by = dev[c].by
             /\ dev'[c] = Put(r) /\ \A x \in Devs \ {c} : dev'[x] = dev[x]
             /\ dev' \in [Devs -> Device \cup {None}]
<1> DEFINE c == CtrlOf(ch)
           r == [dev[c] EXCEPT !.phase = "deleted"]
<1>1. c \in Ctrls /\ IsLive(c) /\ dev[c].parent = ch /\ c \in Devs
  BY CtrlOfBound DEF UseInv, RemoveCtrl, Devs
<1>2. dev[c] \in Device /\ dev[c].refs # 0
  BY <1>1, DeviceHas DEF UseInv, IsLive, HasByPhase, ByPhase, Alive, Releasing
<1>3. r \in Device /\ r.phase = "deleted" /\ r.refs = dev[c].refs /\ r.minor = dev[c].minor
      /\ r.id = dev[c].id /\ r.parent = dev[c].parent /\ r.by = dev[c].by
  BY <1>2, DeletedRecord
<1>4. dev' = [dev EXCEPT ![c] = Put(r)]
  BY <1>1 DEF RemoveCtrl, UseInv, TypeOK
<1> HIDE DEF c, r
<1>5. dev'[c] = Put(r) /\ (\A x \in Devs \ {c} : dev'[x] = dev[x])
      /\ dev' \in [Devs -> Device \cup {None}]
  BY <1>1, <1>2, <1>3, <1>4, PutsEffect DEF Openable
<1> QED
  BY <1>1, <1>2, <1>3, <1>5 DEF c, r

-----------------------------------------------------------------------------
(***************************************************************************)
(* The kinds of steps.                                                     *)
(***************************************************************************)
Destroys(d) ==
  IsLive(d) /\ DestroyEptdev(d) /\ UNCHANGED <<minors, ids, cdevs, bound, file>>

\* rpmsg_chrdev_remove goes on, or nothing happens.
Passes ==
  /\ UNCHANGED <<minors, ids, dev, cdevs, file>>
  /\ bound' \in [Channels -> {"unbound", "probing", "bound", "removing", "childless"}]
  /\ \A ch \in Channels : bound'[ch] \in {"bound", "removing", "childless"} =>
       bound[ch] \in {"bound", "removing", "childless"}

Kinds ==
  \/ \E d \in Eptdevs, f \in Files : CreateEptdev(d, f)
  \/ \E d \in Ctrls, ch \in Channels : Probe(d, ch)
  \/ \E d \in Devs : StepOf(d) \/ Unwind(d) \/ ReleaseCdev(d) \/ DeviceAdd(d) \/ DeviceAddFails(d)
  \/ \E d \in Eptdevs : Destroys(d)
  \/ \E f \in Files, m \in Minors : Open(f, m)
  \/ \E f \in Files : Close(f)
  \/ \E ch \in Channels : RemoveCtrl(ch)
  \/ Passes

LEMMA StepKinds ==
  ASSUME UseInv, [Next]_vars
  PROVE  Kinds
<1>1. ASSUME NEW d \in Devs, NEW f \in Files, CreateEptdev(d, f)
      PROVE  Kinds
  BY <1>1 DEF CreateEptdev, Kinds
<1>2. ASSUME NEW d \in Devs, NEW ch \in Channels, Probe(d, ch) \/ RemoveChild(ch, d)
      PROVE  Kinds
  BY <1>2 DEF Probe, RemoveChild, Children, Destroys, Kinds
<1>3. ASSUME NEW d \in Devs,
             GetMinor(d) \/ GetId(d) \/ CdevAdd(d) \/ Unwind(d) \/ DeviceAdd(d)
               \/ DeviceAddFails(d) \/ ReleaseId(d) \/ ReleaseMinor(d) \/ ReleaseCdev(d)
      PROVE  Kinds
  BY <1>3 DEF StepOf, Kinds
<1>4. ASSUME NEW f \in Files, (\E m \in Minors : Open(f, m)) \/ Close(f) \/ IoctlDestroy(f)
      PROVE  Kinds
  BY <1>4 DEF IoctlDestroy, Destroys, Kinds
<1>5. ASSUME NEW ch \in Channels, RemoveStart(ch) \/ RemoveLoopEnds(ch)
      PROVE  Kinds
  <2>1. Passes
    BY <1>5 DEF RemoveStart, RemoveLoopEnds, Passes, UseInv, TypeOK
  <2> QED
    BY <2>1 DEF Kinds
<1>6. ASSUME NEW ch \in Channels, RemoveCtrl(ch)
      PROVE  Kinds
  BY <1>6 DEF Kinds
<1>7. CASE UNCHANGED vars
  <2>1. Passes
    BY <1>7 DEF vars, Passes, UseInv, TypeOK
  <2> QED
    BY <2>1 DEF Kinds
<1> QED
  BY <1>1, <1>2, <1>3, <1>4, <1>5, <1>6, <1>7 DEF Next

\* A creation that fails, or a release that is done, leaves no device.
LEMMA GoneEffect ==
  ASSUME UseInv, NEW d \in Devs, Unwind(d) \/ ReleaseCdev(d)
  PROVE  /\ Exists(d) /\ ~HasCdev(d) /\ dev'[d] = None
         /\ dev[d].phase \in {"alloc", "minor", "id", "rel_cdev"}
         /\ \A x \in Devs \ {d} : dev'[x] = dev[x]
         /\ dev' \in [Devs -> Device \cup {None}]
         /\ bound' \in [Channels -> {"unbound", "probing", "bound", "removing", "childless"}]
         /\ \A ch \in Channels : bound'[ch] \in {"unbound", bound[ch]}
         /\ file' = file
<1>1. dev' = [dev EXCEPT ![d] = None] /\ Exists(d) /\ file' = file
      /\ dev[d].phase \in {"alloc", "minor", "id", "rel_cdev"}
  BY DEF Unwind, ReleaseCdev
<1>2. bound' \in [Channels -> {"unbound", "probing", "bound", "removing", "childless"}]
      /\ \A ch \in Channels : bound'[ch] \in {"unbound", bound[ch]}
  BY DEF Unwind, ProbeEnds, ReleaseCdev, UseInv, TypeOK
<1> QED
  BY <1>1, <1>2 DEF UseInv, TypeOK, HasCdev

\* Entries are added to and taken out of the map of character devices.
LEMMA CdevsTypes ==
  ASSUME UseInv, NEW d \in Devs
  PROVE  /\ CdevAdd(d) => cdevs' \in Seq([minor : Minors, dev : Devs])
         /\ ReleaseCdev(d) => cdevs' \in Seq([minor : Minors, dev : Devs])
<1> DEFINE S == [minor : Minors, dev : Devs]
<1>1. cdevs \in Seq(S)
  BY DEF UseInv, TypeOK
<1>2. ASSUME CdevAdd(d) PROVE cdevs' \in Seq(S)
  <2>1. dev[d] \in Device /\ dev[d].minor # None
    BY <1>2, DeviceHas DEF CdevAdd, UseInv, HasByPhase, ByPhase
  <2>2. [minor |-> dev[d].minor, dev |-> d] \in S
    BY <2>1 DEF Device
  <2>3. cdevs' = <<[minor |-> dev[d].minor, dev |-> d]>> \o cdevs
    BY <1>2 DEF CdevAdd
  <2> HIDE DEF S
  <2> QED
    BY <1>1, <2>2, <2>3
<1>3. ASSUME ReleaseCdev(d) PROVE cdevs' \in Seq(S)
  <2>1. CASE cdevs' = cdevs
    BY <1>1, <2>1
  <2>2. ASSUME NEW i \in Newest(dev[d].minor), cdevs' = RemoveAt(cdevs, i)
        PROVE  cdevs' \in Seq(S)
    <3>1. i \in DOMAIN cdevs /\ cdevs' = SubSeq(cdevs, 1, i - 1) \o SubSeq(cdevs, i + 1, Len(cdevs))
      BY <2>2 DEF Newest, RemoveAt
    <3> HIDE DEF S
    <3>2. i \in 1 .. Len(cdevs) /\ Len(cdevs) \in Nat
      BY <1>1, <3>1
    <3>3. SubSeq(cdevs, 1, i - 1) \in Seq(S) /\ SubSeq(cdevs, i + 1, Len(cdevs)) \in Seq(S)
      BY <1>1, <3>2
    <3> QED
      BY <3>1, <3>3
  <2> QED
    BY <1>3, <2>1, <2>2 DEF ReleaseCdev, Unmap
<1> QED
  BY <1>2, <1>3

LEMMA TypeStep ==
  ASSUME UseInv, [Next]_vars
  PROVE  TypeOK'
<1>0. TypeOK /\ HasByPhase
  BY DEF UseInv
<1>1. ASSUME NEW d \in Eptdevs, NEW f \in Files, CreateEptdev(d, f)
      PROVE  TypeOK'
  <2>1. d \in Devs /\ Alloc(d, file[f], f) /\ file[f] \in Ctrls
    BY <1>1 DEF CreateEptdev, Devs
  <2> QED
    BY <1>0, <1>1, <2>1, AllocEffect DEF CreateEptdev, TypeOK
<1>2. ASSUME NEW d \in Ctrls, NEW ch \in Channels, Probe(d, ch)
      PROVE  TypeOK'
  <2>1. d \in Devs /\ Alloc(d, ch, None)
    BY <1>2 DEF Probe, Devs
  <2> QED
    BY <1>0, <1>2, <2>1, AllocEffect DEF Probe, TypeOK
<1>3. ASSUME NEW d \in Devs, StepOf(d)
      PROVE  TypeOK'
  <2>1. cdevs' \in Seq([minor : Minors, dev : Devs])
    BY <1>0, <1>3, CdevsTypes DEF StepOf, GetMinor, GetId, ReleaseId, ReleaseMinor, TypeOK
  <2>2. minors' \subseteq Minors
    BY <1>0, <1>3, StepEffect DEF TypeOK
  <2>3. ids' \in [{"ctrl", "ept"} -> SUBSET Nat]
    BY <1>0, <1>3, StepEffect DEF TypeOK, Kind
  <2> QED
    BY <1>0, <1>3, <2>1, <2>2, <2>3, StepEffect DEF TypeOK
<1>4. ASSUME NEW d \in Devs, Unwind(d) \/ ReleaseCdev(d)
      PROVE  TypeOK'
  <2>1. cdevs' \in Seq([minor : Minors, dev : Devs])
    BY <1>0, <1>4, CdevsTypes DEF Unwind, TypeOK
  <2>2. minors' \subseteq Minors /\ ids' \in [{"ctrl", "ept"} -> SUBSET Nat]
    BY <1>0, <1>4 DEF Unwind, ReleaseCdev, TypeOK, Kind
  <2> QED
    BY <1>0, <1>4, <2>1, <2>2, GoneEffect DEF TypeOK
<1>5. ASSUME NEW d \in Devs, DeviceAdd(d)
      PROVE  TypeOK'
  <2>1. UNCHANGED <<minors, ids, cdevs, file>>
        /\ bound' \in [Channels -> {"unbound", "probing", "bound", "removing", "childless"}]
    BY <1>0, <1>5 DEF DeviceAdd, ProbeEnds, TypeOK
  <2> QED
    BY <1>0, <1>5, <2>1, DeviceAddEffect DEF TypeOK
<1>6. ASSUME NEW d \in Devs, DeviceAddFails(d)
      PROVE  TypeOK'
  <2>1. UNCHANGED <<minors, ids, cdevs, file>>
        /\ bound' \in [Channels -> {"unbound", "probing", "bound", "removing", "childless"}]
    BY <1>0, <1>6 DEF DeviceAddFails, ProbeEnds, TypeOK
  <2> QED
    BY <1>0, <1>6, <2>1, AddFailsEffect DEF TypeOK
<1>7. ASSUME NEW d \in Eptdevs, Destroys(d)
      PROVE  TypeOK'
  BY <1>0, <1>7, DestroyEffect DEF Destroys, TypeOK
<1>8. ASSUME NEW f \in Files, NEW m \in Minors, Open(f, m)
      PROVE  TypeOK'
  <2>1. PICK d \in Devs : file' = [file EXCEPT ![f] = d] /\ dev' \in [Devs -> Device \cup {None}]
    BY <1>8, OpenEffect
  <2>2. file' \in [Files -> Devs \cup {None}]
    BY <1>0, <2>1 DEF TypeOK
  <2>3. UNCHANGED <<minors, ids, cdevs, bound>>
    BY <1>8 DEF Open
  <2> QED
    BY <1>0, <2>1, <2>2, <2>3 DEF TypeOK
<1>9. ASSUME NEW f \in Files, Close(f)
      PROVE  TypeOK'
  BY <1>0, <1>9, CloseEffect DEF Close, TypeOK
<1>10. ASSUME NEW ch \in Channels, RemoveCtrl(ch)
       PROVE  TypeOK'
  BY <1>0, <1>10, RemoveCtrlEffect DEF RemoveCtrl, TypeOK
<1>11. CASE Passes
  BY <1>0, <1>11 DEF Passes, TypeOK
<1> QED
  BY <1>1, <1>2, <1>3, <1>4, <1>5, <1>6, <1>7, <1>8, <1>9, <1>10, <1>11, StepKinds DEF Kinds

-----------------------------------------------------------------------------
(***************************************************************************)
(* The users of a device and its references.  A device is released only    *)
(* when it has no user, so whoever uses one finds it usable.               *)
(***************************************************************************)
Kids(d)  == IF d \in Ctrls THEN Children(d) ELSE {}
Users(d) == Cardinality(OpenOn(d)) + Cardinality(Kids(d))
Own(d)   == IF dev[d].phase = "deleted" THEN 0 ELSE 1

Inv == UseInv /\ RefsExact

LEMMA RefsOfUsers == RefsExact <=> \A d \in Devs : Alive(d) => dev[d].refs = Users(d) + Own(d)
BY DEF RefsExact, Users, Own, Kids

LEMMA SetCounts ==
  ASSUME NEW S, IsFiniteSet(S), NEW x
  PROVE  /\ Cardinality(S) \in Nat /\ (Cardinality(S) = 0 <=> S = {})
         /\ x \notin S => Cardinality(S \cup {x}) = Cardinality(S) + 1
         /\ x \in S => Cardinality(S \ {x}) = Cardinality(S) - 1
BY FS_CardinalityType, FS_EmptySet, FS_AddElement, FS_RemoveElement

\* The users of a device are finitely many, now and after a step.
LEMMA UsersFinite ==
  ASSUME NEW d
  PROVE  /\ IsFiniteSet(OpenOn(d)) /\ IsFiniteSet(Kids(d))
         /\ IsFiniteSet(OpenOn(d)') /\ IsFiniteSet(Kids(d)')
<1>1. OpenOn(d) \subseteq Files /\ OpenOn(d)' \subseteq Files
  BY DEF OpenOn
<1>2. Kids(d) \subseteq Eptdevs /\ Kids(d)' \subseteq Eptdevs
  BY DEF Kids, Children
<1> QED
  BY <1>1, <1>2, FS_Subset

\* A device without users is not open and has no children.
LEMMA UsersNone ==
  ASSUME NEW d
  PROVE  /\ Users(d) \in Nat /\ Users(d)' \in Nat
         /\ Users(d) = 0 <=> OpenOn(d) = {} /\ Kids(d) = {}
         /\ Users(d)' = 0 <=> OpenOn(d)' = {} /\ Kids(d)' = {}
<1>1. /\ Cardinality(OpenOn(d)) \in Nat /\ (Cardinality(OpenOn(d)) = 0 <=> OpenOn(d) = {})
      /\ Cardinality(Kids(d)) \in Nat /\ (Cardinality(Kids(d)) = 0 <=> Kids(d) = {})
  BY UsersFinite, SetCounts
<1>2. /\ Cardinality(OpenOn(d)') \in Nat /\ (Cardinality(OpenOn(d)') = 0 <=> OpenOn(d)' = {})
      /\ Cardinality(Kids(d)') \in Nat /\ (Cardinality(Kids(d)') = 0 <=> Kids(d)' = {})
  BY UsersFinite, SetCounts
<1> QED
  BY <1>1, <1>2 DEF Users

\* Memory that is no usable device has no users.
LEMMA UnusableUnused ==
  ASSUME UseInv, NEW d \in Devs, ~HasCdev(d)
  PROVE  Users(d) = 0
<1>1. OpenOn(d) = {}
  BY DEF UseInv, OpenUsable, OpenOn, Devs
<1>2. Kids(d) = {}
  BY DEF UseInv, LiveUnderParent, Kids, Children
<1> QED
  BY <1>1, <1>2, UsersNone

\* A step of one device that is not registered before or after it, when it is
\* an endpoint device, keeps the users of all devices.
LEMMA QuietStep ==
  ASSUME Inv, TypeOK', NEW d \in Devs, \A x \in Devs \ {d} : dev'[x] = dev[x], file' = file,
         d \in Eptdevs => ~IsLive(d) /\ ~IsLive(d)',
         Exists(d)' => ByPhase(d)',
         d \in Eptdevs /\ Exists(d)' /\ dev'[d].by # None => file[dev'[d].by] = dev'[d].parent,
         HasCdev(d) => IF HasCdev(d)' THEN dev[d].phase = "cdev" \/ dev'[d].phase # "cdev"
                                      ELSE Users(d) = 0,
         Alive(d)' => dev'[d].refs = Users(d) + Own(d)',
         BoundHasCtrl'
  PROVE  Inv'
<1>0. /\ UseInv /\ TypeOK /\ HasByPhase /\ OpenUsable /\ CreatedThroughFile /\ LiveUnderParent
      /\ \A x \in Devs : Alive(x) => dev[x].refs = Users(x) + Own(x)
  BY RefsOfUsers DEF Inv, UseInv
<1>1. \A x \in Devs : OpenOn(x)' = OpenOn(x) /\ Kids(x)' = Kids(x)
  <2> SUFFICES ASSUME NEW x \in Devs PROVE OpenOn(x)' = OpenOn(x) /\ Kids(x)' = Kids(x)
    OBVIOUS
  <2>1. OpenOn(x)' = OpenOn(x)
    BY DEF OpenOn
  <2>2. \A e \in Eptdevs : e \in Children(x)' <=> e \in Children(x)
    BY DEF Children, IsLive, Exists, Devs
  <2> QED
    BY <2>1, <2>2 DEF Kids, Children
<1>2. \A x \in Devs : Users(x)' = Users(x)
  BY <1>1 DEF Users
<1>3. HasByPhase'
  BY <1>0 DEF HasByPhase, ByPhase, Exists, Alive
<1>4. OpenUsable'
  <2> SUFFICES ASSUME NEW f \in Files, file[f] # None PROVE HasCdev(file[f])'
    BY DEF OpenUsable, HasCdev, Exists
  <2>1. file[f] \in Devs /\ HasCdev(file[f]) /\ f \in OpenOn(file[f])
    BY <1>0 DEF OpenUsable, OpenOn, TypeOK
  <2>2. CASE file[f] = d
    <3>1. Users(d) # 0
      BY <2>1, <2>2, UsersNone
    <3> QED
      BY <2>1, <2>2, <3>1 DEF HasCdev, Exists
  <2>3. CASE file[f] # d
    BY <2>1, <2>3 DEF HasCdev, Exists
  <2> QED
    BY <2>2, <2>3
<1>5. CreatedThroughFile'
  BY <1>0 DEF CreatedThroughFile, Exists, Devs
<1>6. LiveUnderParent'
  <2> SUFFICES ASSUME NEW e \in Eptdevs, IsLive(e)'
               PROVE  dev'[dev'[e].parent] # None
                      /\ dev'[dev'[e].parent].phase \in {"live", "deleted"}
    BY DEF LiveUnderParent, HasCdev, Exists
  <2>1. e # d /\ dev'[e] = dev[e] /\ IsLive(e) /\ e \in Devs
    BY DEF IsLive, Exists, Devs
  <2> DEFINE p == dev[e].parent
  <2>2. p \in Ctrls /\ p \in Devs /\ HasCdev(p) /\ dev[p].phase # "cdev" /\ e \in Kids(p)
    BY <1>0, <2>1 DEF HasByPhase, ByPhase, LiveUnderParent, Kids, Children, IsLive, Devs
  <2>3. CASE p = d
    <3>1. Users(d) # 0
      BY <2>2, <2>3, UsersNone
    <3> QED
      BY <2>1, <2>2, <2>3, <3>1 DEF HasCdev, Exists
  <2>4. CASE p # d
    BY <2>1, <2>2, <2>4 DEF HasCdev, Exists
  <2> QED
    BY <2>3, <2>4
<1>7. RefsExact'
  <2>1. ASSUME NEW x \in Devs, Alive(x)' PROVE dev'[x].refs = Users(x)' + Own(x)'
    BY <1>0, <1>2, <2>1 DEF Alive, Exists, Own
  <2> QED
    BY <2>1 DEF RefsExact, Users, Own, Kids
<1> QED
  BY <1>3, <1>4, <1>5, <1>6, <1>7 DEF Inv, UseInv

\* A channel stays bound to its control device as long as that is registered.
LEMMA BoundStep ==
  ASSUME UseInv, NEW d \in Devs, \A x \in Devs \ {d} : dev'[x] = dev[x],
         \A ch \in Channels : \/ bound'[ch] \notin {"bound", "removing", "childless"}
                              \/ bound'[ch] = bound[ch] /\ (IsLive(d) => dev[d].parent # ch)
  PROVE  BoundHasCtrl'
<1> SUFFICES ASSUME NEW ch \in Channels, bound'[ch] \in {"bound", "removing", "childless"}
             PROVE  \E c \in Ctrls : IsLive(c)' /\ dev'[c].parent = ch
  BY DEF BoundHasCtrl
<1>1. PICK c \in Ctrls : IsLive(c) /\ dev[c].parent = ch
  BY DEF UseInv, BoundHasCtrl
<1>2. c # d /\ c \in Devs
  BY <1>1 DEF Devs
<1> QED
  BY <1>1, <1>2 DEF IsLive, Exists

LEMMA CreateStep ==
  ASSUME Inv, TypeOK', NEW d \in Eptdevs, NEW f \in Files, CreateEptdev(d, f)
  PROVE  Inv'
<1>1. UseInv /\ TypeOK /\ d \in Devs /\ d \notin Ctrls /\ file[f] \in Ctrls /\ Alloc(d, file[f], f)
      /\ file' = file /\ bound' = bound
  BY DEF Inv, UseInv, CreateEptdev, Devs
<1>2. /\ ~Exists(d) /\ dev'[d] \in Device
      /\ dev'[d].phase = "alloc" /\ dev'[d].refs = 1 /\ dev'[d].minor = None
      /\ dev'[d].id = None /\ dev'[d].parent = file[f] /\ dev'[d].by = f
      /\ \A x \in Devs \ {d} : dev'[x] = dev[x]
  BY <1>1, AllocEffect
<1>3. ~IsLive(d) /\ ~HasCdev(d) /\ ~IsLive(d)' /\ Own(d)' = 1
  BY <1>2 DEF IsLive, HasCdev, Own
<1>4. ByPhase(d)'
  BY <1>1, <1>2 DEF ByPhase, Alive, Creating
<1>5. BoundHasCtrl'
  BY <1>1, <1>2, <1>3, BoundStep
<1>6. Users(d) = 0
  BY <1>1, <1>3, UnusableUnused
<1> QED
  BY <1>1, <1>2, <1>3, <1>4, <1>5, <1>6, QuietStep

LEMMA ProbeStep ==
  ASSUME Inv, TypeOK', NEW d \in Ctrls, NEW ch \in Channels, Probe(d, ch)
  PROVE  Inv'
<1>1. UseInv /\ TypeOK /\ d \in Devs /\ d \notin Eptdevs /\ Alloc(d, ch, None) /\ file' = file
      /\ bound' = [bound EXCEPT ![ch] = "probing"]
  BY DEF Inv, UseInv, Probe, Devs
<1>2. /\ ~Exists(d) /\ dev'[d] \in Device
      /\ dev'[d].phase = "alloc" /\ dev'[d].refs = 1 /\ dev'[d].minor = None
      /\ dev'[d].id = None /\ dev'[d].parent = ch /\ dev'[d].by = None
      /\ \A x \in Devs \ {d} : dev'[x] = dev[x]
  BY <1>1, AllocEffect
<1>3. ~IsLive(d) /\ ~HasCdev(d) /\ ~IsLive(d)' /\ Own(d)' = 1
  BY <1>2 DEF IsLive, HasCdev, Own
<1>4. ByPhase(d)'
  BY <1>1, <1>2 DEF ByPhase, Alive, Creating
<1>5. BoundHasCtrl'
  BY <1>1, <1>2, <1>3, BoundStep DEF TypeOK
<1>6. Users(d) = 0
  BY <1>1, <1>3, UnusableUnused
<1> QED
  BY <1>1, <1>2, <1>3, <1>4, <1>5, <1>6, QuietStep

LEMMA StepOfStep ==
  ASSUME Inv, TypeOK', NEW d \in Devs, StepOf(d)
  PROVE  Inv'
<1>1. /\ UseInv /\ TypeOK /\ HasByPhase /\ CreatedThroughFile
      /\ \A x \in Devs : Alive(x) => dev[x].refs = Users(x) + Own(x)
  BY RefsOfUsers DEF Inv, UseInv
<1>2. /\ dev[d] \in Device /\ dev'[d] \in Device
      /\ dev'[d].refs = dev[d].refs /\ dev'[d].parent = dev[d].parent /\ dev'[d].by = dev[d].by
      /\ \A x \in Devs \ {d} : dev'[x] = dev[x]
      /\ UNCHANGED <<bound, file>>
  BY <1>1, StepEffect
<1>3. \/ dev[d].phase = "alloc" /\ dev'[d].phase = "minor" /\ dev'[d].id = dev[d].id
         /\ dev'[d].minor \in Minors
      \/ dev[d].phase = "minor" /\ dev'[d].phase = "id" /\ dev'[d].minor = dev[d].minor
         /\ dev'[d].id \in Nat
      \/ dev[d].phase = "id" /\ dev'[d].phase = "cdev" /\ dev'[d].minor = dev[d].minor
         /\ dev'[d].id = dev[d].id
      \/ dev[d].phase = "rel_id" /\ dev'[d].phase = "rel_minor"
         /\ dev'[d].minor = dev[d].minor /\ dev'[d].id = None
      \/ dev[d].phase = "rel_minor" /\ dev'[d].phase = "rel_cdev"
         /\ dev'[d].minor = dev[d].minor /\ dev'[d].id = dev[d].id
  BY <1>1, StepEffect
<1>4. Exists(d) /\ Exists(d)' /\ ByPhase(d)
  BY <1>1, <1>2 DEF HasByPhase, Exists
<1>5. ~IsLive(d) /\ ~IsLive(d)' /\ ~HasCdev(d) /\ Own(d) = 1 /\ Own(d)' = 1
      /\ (Alive(d)' <=> Alive(d))
  BY <1>3, <1>4 DEF IsLive, HasCdev, Own, Alive, Releasing
<1>6. ByPhase(d)'
  BY <1>2, <1>3, <1>4, <1>5 DEF ByPhase, Creating, Minors
<1>7. BoundHasCtrl'
  BY <1>1, <1>2, <1>5, BoundStep
<1>8. d \in Eptdevs /\ Exists(d)' /\ dev'[d].by # None => file[dev'[d].by] = dev'[d].parent
  BY <1>1, <1>2, <1>4 DEF CreatedThroughFile
<1> QED
  BY <1>1, <1>2, <1>4, <1>5, <1>6, <1>7, <1>8, QuietStep

LEMMA GoneStep ==
  ASSUME Inv, TypeOK', NEW d \in Devs, Unwind(d) \/ ReleaseCdev(d)
  PROVE  Inv'
<1>1. UseInv /\ ~HasCdev(d) /\ dev'[d] = None /\ (\A x \in Devs \ {d} : dev'[x] = dev[x])
      /\ (\A ch \in Channels : bound'[ch] \in {"unbound", bound[ch]}) /\ file' = file
  BY GoneEffect DEF Inv
<1>2. ~IsLive(d) /\ ~IsLive(d)' /\ ~Exists(d)' /\ ~Alive(d)'
  BY <1>1 DEF IsLive, HasCdev, Exists, Alive
<1>3. BoundHasCtrl'
  BY <1>1, <1>2, BoundStep
<1> QED
  BY <1>1, <1>2, <1>3, QuietStep

LEMMA AddFailsStep ==
  ASSUME Inv, TypeOK', NEW d \in Devs, DeviceAddFails(d)
  PROVE  Inv'
<1>1. /\ UseInv /\ TypeOK /\ HasByPhase
      /\ \A x \in Devs : Alive(x) => dev[x].refs = Users(x) + Own(x)
  BY RefsOfUsers DEF Inv, UseInv
<1>2. /\ dev[d] \in Device /\ dev[d].phase = "cdev" /\ dev[d].refs # 0
      /\ dev'[d] \in Device /\ dev'[d].minor = dev[d].minor /\ dev'[d].id = dev[d].id
      /\ dev'[d].parent = dev[d].parent /\ dev'[d].by = None
      /\ \A x \in Devs \ {d} : dev'[x] = dev[x]
  BY <1>1, AddFailsEffect
<1>3. \/ dev[d].refs = 1 /\ dev'[d].phase = "rel_id"
      \/ dev[d].refs # 1 /\ dev'[d].phase = "deleted" /\ dev'[d].refs = dev[d].refs - 1
         /\ dev'[d].refs # 0
  BY <1>1, AddFailsEffect
<1>4. file' = file /\ \A ch \in Channels : bound'[ch] \in {"unbound", bound[ch]}
  BY <1>1 DEF DeviceAddFails, ProbeEnds, TypeOK
<1>5. Exists(d) /\ Exists(d)' /\ ByPhase(d) /\ ~IsLive(d) /\ ~IsLive(d)'
  BY <1>1, <1>2, <1>3 DEF HasByPhase, Exists, IsLive
<1>6. ByPhase(d)'
  BY <1>2, <1>3, <1>5 DEF ByPhase, Alive, Releasing, Creating
<1>7. dev[d].refs = Users(d) + 1 /\ Users(d) \in Nat
  BY <1>1, <1>2, <1>5, UsersNone DEF Alive, Own, Releasing
<1>8. HasCdev(d) => IF HasCdev(d)' THEN dev[d].phase = "cdev" \/ dev'[d].phase # "cdev"
                                   ELSE Users(d) = 0
  BY <1>2, <1>3, <1>5, <1>7 DEF HasCdev
<1>9. Alive(d)' => dev'[d].refs = Users(d) + Own(d)'
  BY <1>3, <1>7 DEF Alive, Own, Releasing
<1>10. BoundHasCtrl'
  BY <1>1, <1>2, <1>4, <1>5, BoundStep
<1> QED
  BY <1>1, <1>2, <1>4, <1>5, <1>6, <1>8, <1>9, <1>10, QuietStep

LEMMA AddCtrlStep ==
  ASSUME Inv, TypeOK', NEW d \in Ctrls, DeviceAdd(d)
  PROVE  Inv'
<1>1. /\ UseInv /\ TypeOK /\ HasByPhase /\ d \in Devs /\ d \notin Eptdevs
      /\ \A x \in Devs : Alive(x) => dev[x].refs = Users(x) + Own(x)
  BY RefsOfUsers DEF Inv, UseInv, Devs
<1>2. /\ dev[d] \in Device /\ dev[d].phase = "cdev" /\ dev'[d] \in Device
      /\ dev'[d].phase = "live" /\ dev'[d].by = None /\ dev'[d].refs = dev[d].refs
      /\ dev'[d].minor = dev[d].minor /\ dev'[d].id = dev[d].id
      /\ dev'[d].parent = dev[d].parent
      /\ \A x \in Devs \ {d} : dev'[x] = dev[x]
  BY <1>1, DeviceAddEffect
<1>3. Exists(d) /\ Exists(d)' /\ ByPhase(d) /\ dev[d].parent \in Channels
  BY <1>1, <1>2 DEF HasByPhase, ByPhase, Exists
<1>4. file' = file /\ bound' = [bound EXCEPT ![dev[d].parent] = "bound"]
  BY DEF DeviceAdd, ProbeEnds
<1>5. ByPhase(d)' /\ dev'[d].refs = Users(d) + Own(d)' /\ HasCdev(d)'
  BY <1>1, <1>2, <1>3 DEF ByPhase, Alive, Releasing, Creating, Own, HasCdev
<1>6. BoundHasCtrl'
  <2> SUFFICES ASSUME NEW ch \in Channels, bound'[ch] \in {"bound", "removing", "childless"}
               PROVE  \E c \in Ctrls : IsLive(c)' /\ dev'[c].parent = ch
    BY DEF BoundHasCtrl
  <2>1. CASE ch = dev[d].parent
    BY <1>2, <1>3, <2>1 DEF IsLive
  <2>2. CASE ch # dev[d].parent
    <3>1. bound[ch] = bound'[ch]
      BY <1>1, <1>4, <2>2 DEF TypeOK
    <3>2. PICK c \in Ctrls : IsLive(c) /\ dev[c].parent = ch
      BY <1>1, <3>1 DEF UseInv, BoundHasCtrl
    <3> QED
      BY <1>1, <1>2, <3>2 DEF IsLive, Exists, Devs
  <2> QED
    BY <2>1, <2>2
<1> QED
  BY <1>1, <1>2, <1>3, <1>4, <1>5, <1>6, QuietStep

LEMMA RemoveStep ==
  ASSUME Inv, TypeOK', NEW ch \in Channels, RemoveCtrl(ch)
  PROVE  Inv'
<1>0. CtrlOf(ch) \in Ctrls
  BY RemoveCtrlEffect DEF Inv
<1> PICK c \in Ctrls : c = CtrlOf(ch)
  BY <1>0
<1> DEFINE r == [dev[c] EXCEPT !.phase = "deleted"]
<1>1. /\ UseInv /\ TypeOK /\ HasByPhase
      /\ \A x \in Devs : Alive(x) => dev[x].refs = Users(x) + Own(x)
  BY RefsOfUsers DEF Inv, UseInv
<1>2. /\ c \in Ctrls /\ c \in Devs /\ IsLive(c) /\ dev[c].parent = ch
      /\ dev[c] \in Device /\ dev[c].refs # 0
      /\ r \in Device /\ r.phase = "deleted" /\ r.refs = dev[c].refs
      /\ r.minor = dev[c].minor /\ r.id = dev[c].id /\ r.parent = dev[c].parent
      /\ r.by = dev[c].by
      /\ dev'[c] = Put(r) /\ \A x \in Devs \ {c} : dev'[x] = dev[x]
  BY <1>1, RemoveCtrlEffect
<1>3. file' = file /\ bound' = [bound EXCEPT ![ch] = "unbound"]
  BY DEF RemoveCtrl
<1> HIDE DEF r
<1>4. /\ dev'[c] \in Device /\ dev'[c].minor = dev[c].minor /\ dev'[c].id = dev[c].id
      /\ dev'[c].parent = dev[c].parent /\ dev'[c].by = dev[c].by
      /\ \/ dev[c].refs = 1 /\ dev'[c].phase = "rel_id"
         \/ dev[c].refs # 1 /\ dev'[c].phase = "deleted" /\ dev'[c].refs = dev[c].refs - 1
            /\ dev'[c].refs # 0
  BY <1>2, PutEffect DEF Openable
<1>5. Exists(c) /\ Exists(c)' /\ ByPhase(c) /\ dev[c].phase = "live" /\ c \notin Eptdevs
  BY <1>1, <1>2, <1>4 DEF HasByPhase, Exists, IsLive
<1>6. ByPhase(c)'
  BY <1>4, <1>5 DEF ByPhase, Alive, Releasing, Creating
<1>7. dev[c].refs = Users(c) + 1 /\ Users(c) \in Nat
  BY <1>1, <1>2, <1>5, UsersNone DEF Alive, Own, Releasing
<1>8. HasCdev(c) => IF HasCdev(c)' THEN dev[c].phase = "cdev" \/ dev'[c].phase # "cdev"
                                   ELSE Users(c) = 0
  BY <1>4, <1>5, <1>7 DEF HasCdev
<1>9. Alive(c)' => dev'[c].refs = Users(c) + Own(c)'
  BY <1>4, <1>7 DEF Alive, Own, Releasing
<1>10. BoundHasCtrl'
  BY <1>1, <1>2, <1>3, BoundStep DEF TypeOK
<1> QED
  BY <1>2, <1>3, <1>5, <1>6, <1>8, <1>9, <1>10, QuietStep

LEMMA PassStep ==
  ASSUME Inv, TypeOK', Passes
  PROVE  Inv'
<1>1. dev' = dev /\ file' = file
  BY DEF Passes
<1>2. HasByPhase' /\ OpenUsable' /\ CreatedThroughFile' /\ LiveUnderParent'
  BY <1>1 DEF Inv, UseInv, HasByPhase, ByPhase, OpenUsable, CreatedThroughFile, LiveUnderParent,
              Exists, Alive, IsLive, HasCdev
<1>3. BoundHasCtrl'
  BY <1>1 DEF Inv, UseInv, BoundHasCtrl, Passes, IsLive, Exists
<1>4. RefsExact'
  BY <1>1 DEF Inv, RefsExact, Alive, Exists, OpenOn, Children, IsLive
<1> QED
  BY <1>2, <1>3, <1>4 DEF Inv, UseInv

\* Devices with users are usable, and those with children are registered ...
LEMMA UsedUsable ==
  ASSUME UseInv, NEW d \in Devs
  PROVE  /\ Users(d) # 0 => HasCdev(d)
         /\ Exists(d) /\ dev[d].phase = "cdev" => Kids(d) = {}
<1>1. Users(d) # 0 => HasCdev(d)
  BY UnusableUnused
<1>2. Exists(d) /\ dev[d].phase = "cdev" => Kids(d) = {}
  BY DEF UseInv, LiveUnderParent, Kids, Children
<1> QED
  BY <1>1, <1>2

\* ... and it is enough to show that.
LEMMA UsableStep ==
  ASSUME TypeOK', HasByPhase',
         \A d \in Devs : /\ Users(d)' # 0 => HasCdev(d)'
                         /\ Exists(d)' /\ dev'[d].phase = "cdev" => Kids(d)' = {}
  PROVE  OpenUsable' /\ LiveUnderParent'
<1>1. OpenUsable'
  <2> SUFFICES ASSUME NEW f \in Files, file'[f] # None
               PROVE  dev'[file'[f]] # None /\ dev'[file'[f]].phase \in {"cdev", "live", "deleted"}
    BY DEF OpenUsable, HasCdev, Exists
  <2> PICK d \in Devs : d = file'[f]
    BY DEF TypeOK
  <2>1. f \in OpenOn(d)'
    BY DEF OpenOn
  <2>2. HasCdev(d)'
    BY <2>1, UsersNone
  <2> QED
    BY <2>2 DEF HasCdev, Exists
<1>2. LiveUnderParent'
  <2> SUFFICES ASSUME NEW e \in Eptdevs, IsLive(e)'
               PROVE  dev'[dev'[e].parent] # None
                      /\ dev'[dev'[e].parent].phase \in {"live", "deleted"}
    BY DEF LiveUnderParent, HasCdev, Exists
  <2>1. e \in Devs /\ e \notin Ctrls /\ Exists(e)'
    BY DEF IsLive, Devs
  <2> PICK p \in Ctrls : p = dev'[e].parent
    BY <2>1 DEF HasByPhase, ByPhase
  <2>2. p \in Devs /\ e \in Kids(p)'
    BY DEF Kids, Children, Devs
  <2>3. HasCdev(p)' /\ dev'[p].phase # "cdev"
    BY <2>2, UsersNone DEF HasCdev
  <2> QED
    BY <2>3 DEF HasCdev, Exists
<1> QED
  BY <1>1, <1>2

LEMMA OpenStep ==
  ASSUME Inv, TypeOK', NEW f \in Files, NEW m \in Minors, Open(f, m)
  PROVE  Inv'
<1>1. /\ UseInv /\ TypeOK /\ HasByPhase /\ CreatedThroughFile /\ BoundHasCtrl /\ bound' = bound
      /\ \A x \in Devs : Alive(x) => dev[x].refs = Users(x) + Own(x)
  BY RefsOfUsers DEF Inv, UseInv, Open
<1> PICK d \in Devs :
           /\ file[f] = None /\ file' = [file EXCEPT ![f] = d] /\ HasCdev(d)
           /\ dev[d] \in Device /\ dev'[d] \in Device /\ dev'[d].refs = dev[d].refs + 1
           /\ dev'[d].phase = dev[d].phase /\ dev'[d].minor = dev[d].minor
           /\ dev'[d].id = dev[d].id /\ dev'[d].parent = dev[d].parent
           /\ dev'[d].by = dev[d].by
           /\ \A x \in Devs \ {d} : dev'[x] = dev[x]
           /\ dev' \in [Devs -> Device \cup {None}]
  BY <1>1, OpenEffect
<1>2. \A x \in Devs : /\ (Exists(x)' <=> Exists(x)) /\ (Alive(x)' <=> Alive(x))
                      /\ (HasCdev(x)' <=> HasCdev(x)) /\ (IsLive(x)' <=> IsLive(x))
                      /\ Exists(x) => /\ dev'[x].phase = dev[x].phase
                                      /\ dev'[x].minor = dev[x].minor /\ dev'[x].id = dev[x].id
                                      /\ dev'[x].parent = dev[x].parent /\ dev'[x].by = dev[x].by
  BY DEF Exists, Alive, HasCdev, IsLive
<1>3. dev[d].refs \in Nat /\ f \notin OpenOn(d) /\ Alive(d)
  BY DEF Device, OpenOn, Devs, HasCdev, Alive, Releasing
<1>4. \A x \in Devs : Kids(x)' = Kids(x)
  <2> SUFFICES ASSUME NEW x \in Devs PROVE Kids(x)' = Kids(x)
    OBVIOUS
  <2>1. \A e \in Eptdevs : e \in Children(x)' <=> e \in Children(x)
    BY <1>2 DEF Children, IsLive, Devs
  <2> QED
    BY <2>1 DEF Kids, Children
<1>5. \A x \in Devs \ {d} : OpenOn(x)' = OpenOn(x)
  BY <1>1 DEF OpenOn, TypeOK, Devs
<1>6. OpenOn(d)' = OpenOn(d) \cup {f}
  BY <1>1 DEF OpenOn, TypeOK
<1>7. \A x \in Devs : Users(x)' = IF x = d THEN Users(x) + 1 ELSE Users(x)
  <2>1. Cardinality(OpenOn(d)') = Cardinality(OpenOn(d)) + 1
    BY <1>3, <1>6, UsersFinite, SetCounts
  <2>2. Cardinality(OpenOn(d)) \in Nat /\ Cardinality(Kids(d)) \in Nat
    BY UsersFinite, SetCounts
  <2> QED
    BY <1>4, <1>5, <2>1, <2>2 DEF Users
<1>8. \A x \in Devs : Users(x) \in Nat
  BY UsersNone
<1>9. HasByPhase'
  BY <1>1, <1>2, <1>3 DEF HasByPhase, ByPhase
<1>10. RefsExact'
  <2>1. ASSUME NEW x \in Devs, Alive(x)' PROVE dev'[x].refs = Users(x)' + Own(x)'
    <3>1. Alive(x) /\ Exists(x) /\ dev[x].refs = Users(x) + Own(x) /\ Own(x)' = Own(x)
      BY <1>1, <1>2, <2>1 DEF Own, Alive
    <3> QED
      BY <1>7, <1>8, <3>1 DEF Own
  <2> QED
    BY <2>1 DEF RefsExact, Users, Own, Kids
<1>11. OpenUsable' /\ LiveUnderParent'
  <2>1. \A x \in Devs : /\ Users(x)' # 0 => HasCdev(x)'
                        /\ Exists(x)' /\ dev'[x].phase = "cdev" => Kids(x)' = {}
    BY <1>1, <1>2, <1>4, <1>7, UsedUsable
  <2> QED
    BY <1>9, <2>1, UsableStep
<1>12. CreatedThroughFile'
  <2> SUFFICES ASSUME NEW e \in Eptdevs, Exists(e)', dev'[e].by # None
               PROVE  file'[dev'[e].by] = dev'[e].parent
    BY DEF CreatedThroughFile
  <2>1. e \in Devs /\ Exists(e) /\ dev[e].by # None /\ dev'[e].by = dev[e].by
        /\ dev'[e].parent = dev[e].parent
    BY <1>2 DEF Devs
  <2>2. file[dev[e].by] = dev[e].parent /\ dev[e].parent \in Ctrls /\ dev[e].by \in Files
    BY <1>1, <2>1, DeviceHas DEF CreatedThroughFile, HasByPhase, ByPhase, Device
  <2>3. dev[e].by # f
    BY <2>2
  <2> QED
    BY <1>1, <2>1, <2>2, <2>3 DEF TypeOK
<1>13. BoundHasCtrl'
  BY <1>1, <1>2 DEF BoundHasCtrl, IsLive, Devs
<1> QED
  BY <1>9, <1>10, <1>11, <1>12, <1>13 DEF Inv, UseInv

LEMMA CloseStep ==
  ASSUME Inv, TypeOK', NEW f \in Files, Close(f)
  PROVE  Inv'
<1>1. /\ UseInv /\ TypeOK /\ HasByPhase /\ CreatedThroughFile /\ BoundHasCtrl /\ bound' = bound
      /\ \A e \in Eptdevs : Exists(e) => dev[e].by # f
      /\ \A x \in Devs : Alive(x) => dev[x].refs = Users(x) + Own(x)
  BY RefsOfUsers DEF Inv, UseInv, Close
<1>0. file[f] \in Devs
  BY <1>1, CloseEffect
<1> PICK d \in Devs : d = file[f]
  BY <1>0
<1>2. /\ file' = [file EXCEPT ![f] = None]
      /\ dev[d] \in Device /\ dev[d].phase \in Openable /\ dev[d].refs # 0
      /\ dev'[d] = Put(dev[d]) /\ \A x \in Devs \ {d} : dev'[x] = dev[x]
  BY <1>1, CloseEffect
<1>3. /\ dev'[d] \in Device /\ dev'[d].minor = dev[d].minor /\ dev'[d].id = dev[d].id
      /\ dev'[d].parent = dev[d].parent /\ dev'[d].by = dev[d].by
      /\ \/ dev[d].refs = 1 /\ dev'[d].phase = "rel_id"
         \/ dev[d].refs # 1 /\ dev'[d].phase = dev[d].phase /\ dev'[d].refs = dev[d].refs - 1
            /\ dev'[d].refs # 0
  BY <1>2, PutEffect
<1>4. f \in OpenOn(d) /\ Exists(d) /\ Exists(d)' /\ ByPhase(d) /\ Users(d) # 0 /\ Users(d) \in Nat
      /\ dev[d].refs = Users(d) + Own(d)
  <2>1. f \in OpenOn(d) /\ Exists(d) /\ Exists(d)'
    BY <1>2, <1>3 DEF OpenOn, Exists
  <2>2. Alive(d)
    BY <1>2, <2>1 DEF Alive, Openable, Releasing
  <2> QED
    BY <1>1, <2>1, <2>2, UsersNone DEF HasByPhase
<1>5. dev[d].refs = 1 => dev[d].phase = "deleted" /\ Users(d) = 1
  BY <1>4 DEF Own
<1>6. \A x \in Devs : IsLive(x)' <=> IsLive(x)
  BY <1>2, <1>3, <1>5 DEF IsLive, Exists
<1>7. \A x \in Devs : Kids(x)' = Kids(x)
  <2> SUFFICES ASSUME NEW x \in Devs PROVE Kids(x)' = Kids(x)
    OBVIOUS
  <2>1. \A e \in Eptdevs : e \in Children(x)' <=> e \in Children(x)
    BY <1>2, <1>3, <1>6 DEF Children, Devs
  <2> QED
    BY <2>1 DEF Kids, Children
<1>8. OpenOn(d)' = OpenOn(d) \ {f} /\ \A x \in Devs \ {d} : OpenOn(x)' = OpenOn(x)
  BY <1>1, <1>2 DEF OpenOn, TypeOK, Devs
<1>9. \A x \in Devs : Users(x)' = IF x = d THEN Users(x) - 1 ELSE Users(x)
  <2>1. Cardinality(OpenOn(d)') = Cardinality(OpenOn(d)) - 1
    BY <1>4, <1>8, UsersFinite, SetCounts
  <2>2. Cardinality(OpenOn(d)) \in Nat /\ Cardinality(Kids(d)) \in Nat
    BY UsersFinite, SetCounts
  <2>3. Users(d)' = Users(d) - 1
    BY <1>7, <2>1, <2>2 DEF Users
  <2>4. ASSUME NEW x \in Devs \ {d} PROVE Users(x)' = Users(x)
    BY <1>7, <1>8, <2>4 DEF Users
  <2> QED
    BY <2>3, <2>4
<1>10. HasByPhase'
  <2>1. ByPhase(d)'
    BY <1>2, <1>3, <1>4, <1>5 DEF ByPhase, Alive, Releasing, Creating, Openable
  <2> QED
    BY <1>1, <1>2, <2>1 DEF HasByPhase, ByPhase, Exists, Alive
<1>11. RefsExact'
  <2>1. ASSUME NEW x \in Devs, Alive(x)' PROVE dev'[x].refs = Users(x)' + Own(x)'
    <3>1. CASE x = d
      BY <1>3, <1>4, <1>9, <2>1, <3>1 DEF Alive, Releasing, Own
    <3>2. CASE x # d
      BY <1>1, <1>2, <1>9, <2>1, <3>2 DEF Alive, Exists, Own
    <3> QED
      BY <3>1, <3>2
  <2> QED
    BY <2>1 DEF RefsExact, Users, Own, Kids
<1>12. OpenUsable' /\ LiveUnderParent'
  <2>1. ASSUME NEW x \in Devs
        PROVE  /\ Users(x)' # 0 => HasCdev(x)'
               /\ Exists(x)' /\ dev'[x].phase = "cdev" => Kids(x)' = {}
    <3>1. CASE x = d
      BY <1>1, <1>2, <1>3, <1>4, <1>5, <1>7, <1>9, <3>1, UsedUsable DEF HasCdev, Openable
    <3>2. CASE x # d
      BY <1>1, <1>2, <1>7, <1>9, <3>2, UsedUsable DEF HasCdev, Exists
    <3> QED
      BY <3>1, <3>2
  <2> QED
    BY <1>10, <2>1, UsableStep
<1>13. CreatedThroughFile'
  <2> SUFFICES ASSUME NEW e \in Eptdevs, Exists(e)', dev'[e].by # None
               PROVE  file'[dev'[e].by] = dev'[e].parent
    BY DEF CreatedThroughFile
  <2>1. e \in Devs /\ Exists(e) /\ dev'[e].by = dev[e].by /\ dev'[e].parent = dev[e].parent
    BY <1>2, <1>3, <1>4 DEF Devs, Exists
  <2>2. file[dev[e].by] = dev[e].parent /\ dev[e].by \in Files /\ dev[e].by # f
    BY <1>1, <2>1, DeviceHas DEF CreatedThroughFile, Device
  <2> QED
    BY <1>1, <1>2, <2>1, <2>2 DEF TypeOK
<1>14. BoundHasCtrl'
  BY <1>1, <1>2, <1>3, <1>6 DEF BoundHasCtrl, Devs
<1> QED
  BY <1>10, <1>11, <1>12, <1>13, <1>14 DEF Inv, UseInv

LEMMA AddEptStep ==
  ASSUME Inv, TypeOK', NEW d \in Eptdevs, DeviceAdd(d)
  PROVE  Inv'
<1>1. /\ UseInv /\ TypeOK /\ HasByPhase /\ CreatedThroughFile /\ BoundHasCtrl
      /\ d \in Devs /\ d \notin Ctrls
      /\ \A x \in Devs : Alive(x) => dev[x].refs = Users(x) + Own(x)
  BY RefsOfUsers DEF Inv, UseInv, Devs
<1>0. file' = file /\ bound' = bound
  BY <1>1 DEF DeviceAdd, ProbeEnds
<1> PICK p \in Ctrls : p = dev[d].parent
  BY <1>1, DeviceAddEffect
<1>2. /\ dev[d] \in Device /\ dev[d].phase = "cdev" /\ dev'[d] \in Device
      /\ dev'[d].phase = "live" /\ dev'[d].by = None /\ dev'[d].refs = dev[d].refs
      /\ dev'[d].minor = dev[d].minor /\ dev'[d].id = dev[d].id /\ dev'[d].parent = p
  BY <1>1, DeviceAddEffect
<1>3. /\ p # d /\ dev[p] \in Device /\ dev[p].phase = "live"
      /\ dev'[p] \in Device /\ dev'[p].refs = dev[p].refs + 1
      /\ dev'[p].phase = "live" /\ dev'[p].by = dev[p].by
      /\ dev'[p].minor = dev[p].minor /\ dev'[p].id = dev[p].id
      /\ dev'[p].parent = dev[p].parent
      /\ \A x \in Devs \ {d, p} : dev'[x] = dev[x]
  BY <1>1, DeviceAddEffect
<1>4. /\ p \in Devs /\ Exists(d) /\ Exists(d)' /\ Exists(p) /\ Exists(p)' /\ ByPhase(d) /\ ByPhase(p)
      /\ ~IsLive(d) /\ IsLive(d)' /\ IsLive(p) /\ IsLive(p)'
  BY <1>1, <1>2, <1>3 DEF Devs, Exists, IsLive, HasByPhase
<1>5. /\ dev[d].refs = Users(d) + 1 /\ dev[p].refs = Users(p) + 1
      /\ \A x \in Devs : Users(x) \in Nat
  BY <1>1, <1>2, <1>3, <1>4, UsersNone DEF Alive, Releasing, Own
<1>6. \A x \in Devs : OpenOn(x)' = OpenOn(x)
  BY <1>0 DEF OpenOn
<1>7. Kids(p)' = Kids(p) \cup {d} /\ d \notin Kids(p) /\ \A x \in Devs \ {p} : Kids(x)' = Kids(x)
  <2>1. \A x \in Devs, e \in Eptdevs :
          e \in Children(x)' <=> e \in Children(x) \/ (e = d /\ x = p)
    BY <1>2, <1>3, <1>4 DEF Children, IsLive, Exists, Devs
  <2>2. Children(p)' = Children(p) \cup {d} /\ \A x \in Devs \ {p} : Children(x)' = Children(x)
    BY <1>4, <2>1 DEF Children
  <2> QED
    BY <1>4, <2>2 DEF Kids, Children
<1>8. \A x \in Devs : Users(x)' = IF x = p THEN Users(x) + 1 ELSE Users(x)
  <2>1. Cardinality(Kids(p)') = Cardinality(Kids(p)) + 1
    BY <1>7, UsersFinite, SetCounts
  <2>2. Cardinality(OpenOn(p)) \in Nat /\ Cardinality(Kids(p)) \in Nat
    BY UsersFinite, SetCounts
  <2>3. Users(p)' = Users(p) + 1
    BY <1>4, <1>6, <2>1, <2>2 DEF Users
  <2>4. ASSUME NEW x \in Devs \ {p} PROVE Users(x)' = Users(x)
    BY <1>6, <1>7, <2>4 DEF Users
  <2> QED
    BY <2>3, <2>4
<1>9. HasByPhase'
  <2>1. ByPhase(d)'
    BY <1>1, <1>2, <1>4 DEF ByPhase, Alive, Releasing, Creating
  <2>2. ByPhase(p)'
    BY <1>2, <1>3, <1>4, <1>5 DEF ByPhase, Alive, Releasing, Creating
  <2> QED
    BY <1>1, <1>3, <2>1, <2>2 DEF HasByPhase, ByPhase, Exists, Alive
<1>10. RefsExact'
  <2>1. ASSUME NEW x \in Devs, Alive(x)' PROVE dev'[x].refs = Users(x)' + Own(x)'
    <3>1. CASE x = d
      BY <1>2, <1>3, <1>5, <1>8, <3>1 DEF Own
    <3>2. CASE x = p
      BY <1>3, <1>5, <1>8, <3>2 DEF Own
    <3>3. CASE x # d /\ x # p
      BY <1>1, <1>3, <1>8, <2>1, <3>3 DEF Alive, Exists, Own
    <3> QED
      BY <3>1, <3>2, <3>3
  <2> QED
    BY <2>1 DEF RefsExact, Users, Own, Kids
<1>11. OpenUsable' /\ LiveUnderParent'
  <2>1. ASSUME NEW x \in Devs
        PROVE  /\ Users(x)' # 0 => HasCdev(x)'
               /\ Exists(x)' /\ dev'[x].phase = "cdev" => Kids(x)' = {}
    <3>1. CASE x = d \/ x = p
      BY <1>2, <1>3, <1>4, <3>1 DEF HasCdev
    <3>2. CASE x # d /\ x # p
      BY <1>1, <1>3, <1>7, <1>8, <3>2, UsedUsable DEF HasCdev, Exists
    <3> QED
      BY <3>1, <3>2
  <2> QED
    BY <1>9, <2>1, UsableStep
<1>12. CreatedThroughFile'
  BY <1>0, <1>1, <1>2, <1>3, <1>4 DEF CreatedThroughFile, Exists, Devs
<1>13. BoundHasCtrl'
  <2>1. \A c \in Ctrls : IsLive(c) => IsLive(c)' /\ dev'[c].parent = dev[c].parent
    BY <1>1, <1>3, <1>4 DEF IsLive, Exists, Devs
  <2> QED
    BY <1>0, <1>1, <2>1 DEF BoundHasCtrl
<1> QED
  BY <1>9, <1>10, <1>11, <1>12, <1>13 DEF Inv, UseInv

LEMMA DestroyStep ==
  ASSUME Inv, TypeOK', NEW d \in Eptdevs, Destroys(d)
  PROVE  Inv'
<1>1. /\ UseInv /\ TypeOK /\ HasByPhase /\ CreatedThroughFile /\ BoundHasCtrl
      /\ IsLive(d) /\ DestroyEptdev(d) /\ d \in Devs /\ d \notin Ctrls
      /\ file' = file /\ bound' = bound
      /\ \A x \in Devs : Alive(x) => dev[x].refs = Users(x) + Own(x)
  BY RefsOfUsers DEF Inv, UseInv, Destroys, Devs
<1> DEFINE r == [dev[d] EXCEPT !.phase = "deleted"]
<1>0. dev[d].parent \in Ctrls
  BY <1>1, DestroyEffect
<1> PICK p \in Ctrls : p = dev[d].parent
  BY <1>0
<1>2. /\ p \in Devs /\ p # d
      /\ r \in Device /\ r.refs # 0 /\ r.phase = "deleted"
      /\ r.minor = dev[d].minor /\ r.id = dev[d].id /\ r.refs = dev[d].refs
      /\ r.parent = dev[d].parent /\ r.by = dev[d].by
      /\ dev[p] \in Device /\ dev[p].refs # 0 /\ dev[p].phase \in {"live", "deleted"}
      /\ dev'[d] = Put(r) /\ dev'[p] = Put(dev[p])
      /\ \A x \in Devs \ {d, p} : dev'[x] = dev[x]
  BY <1>1, DestroyEffect
<1> HIDE DEF r
<1>3. /\ dev'[d] \in Device /\ dev'[d].minor = dev[d].minor /\ dev'[d].id = dev[d].id
      /\ dev'[d].parent = p /\ dev'[d].by = dev[d].by
      /\ \/ dev[d].refs = 1 /\ dev'[d].phase = "rel_id"
         \/ dev[d].refs # 1 /\ dev'[d].phase = "deleted" /\ dev'[d].refs = dev[d].refs - 1
            /\ dev'[d].refs # 0
  BY <1>2, PutEffect DEF Openable
<1>4. /\ dev'[p] \in Device /\ dev'[p].minor = dev[p].minor /\ dev'[p].id = dev[p].id
      /\ dev'[p].parent = dev[p].parent /\ dev'[p].by = dev[p].by
      /\ \/ dev[p].refs = 1 /\ dev'[p].phase = "rel_id"
         \/ dev[p].refs # 1 /\ dev'[p].phase = dev[p].phase /\ dev'[p].refs = dev[p].refs - 1
            /\ dev'[p].refs # 0
  BY <1>2, PutEffect DEF Openable
<1>5. /\ Exists(d) /\ Exists(d)' /\ Exists(p) /\ Exists(p)' /\ ByPhase(d) /\ ByPhase(p)
      /\ dev[d].phase = "live" /\ ~IsLive(d)' /\ d \in Kids(p)
  BY <1>1, <1>2, <1>3, <1>4 DEF Exists, IsLive, HasByPhase, Kids, Children
<1>6. /\ dev[d].refs = Users(d) + 1 /\ dev[p].refs = Users(p) + Own(p) /\ Users(p) # 0
      /\ \A x \in Devs : Users(x) \in Nat
  BY <1>1, <1>2, <1>5, UsersNone DEF Alive, Releasing, Own
<1>7. dev[p].refs = 1 => dev[p].phase = "deleted" /\ Users(p) = 1
  BY <1>2, <1>6 DEF Own
<1>8. \A x \in Devs \ {d} : IsLive(x)' <=> IsLive(x)
  BY <1>2, <1>4, <1>7 DEF IsLive, Exists
<1>9. \A x \in Devs : OpenOn(x)' = OpenOn(x)
  BY <1>1 DEF OpenOn
<1>10. Kids(p)' = Kids(p) \ {d} /\ \A x \in Devs \ {p} : Kids(x)' = Kids(x)
  <2>1. \A x \in Devs, e \in Eptdevs : e \in Children(x)' <=> e \in Children(x) /\ e # d
    BY <1>2, <1>3, <1>4, <1>5, <1>8 DEF Children, Devs
  <2>2. \A x \in Devs \ {p} : d \notin Children(x)
    BY DEF Children
  <2>3. Children(p)' = Children(p) \ {d} /\ \A x \in Devs \ {p} : Children(x)' = Children(x)
    BY <1>2, <2>1, <2>2 DEF Children
  <2> QED
    BY <2>3 DEF Kids
<1>11. \A x \in Devs : Users(x)' = IF x = p THEN Users(x) - 1 ELSE Users(x)
  <2>1. Cardinality(Kids(p)') = Cardinality(Kids(p)) - 1
    BY <1>5, <1>10, UsersFinite, SetCounts
  <2>2. Cardinality(OpenOn(p)) \in Nat /\ Cardinality(Kids(p)) \in Nat
    BY UsersFinite, SetCounts
  <2>3. Users(p)' = Users(p) - 1
    BY <1>2, <1>9, <2>1, <2>2 DEF Users
  <2>4. ASSUME NEW x \in Devs \ {p} PROVE Users(x)' = Users(x)
    BY <1>9, <1>10, <2>4 DEF Users
  <2> QED
    BY <2>3, <2>4
<1>12. HasByPhase'
  <2>1. ByPhase(d)'
    BY <1>1, <1>3, <1>5 DEF ByPhase, Alive, Releasing, Creating
  <2>2. ByPhase(p)'
    BY <1>2, <1>4, <1>5 DEF ByPhase, Alive, Releasing, Creating
  <2> QED
    BY <1>1, <1>2, <2>1, <2>2 DEF HasByPhase, ByPhase, Exists, Alive
<1>13. RefsExact'
  <2>1. ASSUME NEW x \in Devs, Alive(x)' PROVE dev'[x].refs = Users(x)' + Own(x)'
    <3>1. CASE x = d
      BY <1>2, <1>3, <1>6, <1>11, <2>1, <3>1 DEF Own, Alive, Releasing
    <3>2. CASE x = p
      BY <1>4, <1>6, <1>11, <2>1, <3>2 DEF Own, Alive, Releasing
    <3>3. CASE x # d /\ x # p
      BY <1>1, <1>2, <1>11, <2>1, <3>3 DEF Alive, Exists, Own
    <3> QED
      BY <3>1, <3>2, <3>3
  <2> QED
    BY <2>1 DEF RefsExact, Users, Own, Kids
<1>14. OpenUsable' /\ LiveUnderParent'
  <2>1. ASSUME NEW x \in Devs
        PROVE  /\ Users(x)' # 0 => HasCdev(x)'
               /\ Exists(x)' /\ dev'[x].phase = "cdev" => Kids(x)' = {}
    <3>1. CASE x = d
      BY <1>2, <1>3, <1>5, <1>6, <1>11, <3>1 DEF HasCdev
    <3>2. CASE x = p
      BY <1>2, <1>4, <1>5, <1>6, <1>7, <1>11, <3>2 DEF HasCdev
    <3>3. CASE x # d /\ x # p
      BY <1>1, <1>2, <1>10, <1>11, <3>3, UsedUsable DEF HasCdev, Exists
    <3> QED
      BY <3>1, <3>2, <3>3
  <2> QED
    BY <1>12, <2>1, UsableStep
<1>15. CreatedThroughFile'
  BY <1>1, <1>2, <1>3, <1>5 DEF CreatedThroughFile, Exists, Devs, ByPhase, Creating
<1>16. BoundHasCtrl'
  <2>1. \A c \in Ctrls : IsLive(c) => IsLive(c)' /\ dev'[c].parent = dev[c].parent
    BY <1>1, <1>2, <1>4, <1>8 DEF Devs
  <2> QED
    BY <1>1, <2>1 DEF BoundHasCtrl
<1> QED
  BY <1>12, <1>13, <1>14, <1>15, <1>16 DEF Inv, UseInv

LEMMA InvInit == Init => Inv
<1> SUFFICES ASSUME Init PROVE Inv
  OBVIOUS
<1>1. RefsExact
  BY DEF Init, RefsExact, Alive, Exists
<1> QED
  BY <1>1, UseInit DEF Inv

LEMMA InvStep ==
  ASSUME Inv, [Next]_vars
  PROVE  Inv'
<1>1. UseInv
  BY DEF Inv
<1>2. TypeOK' /\ Kinds
  BY <1>1, TypeStep, StepKinds
<1>3. ASSUME NEW d \in Devs, DeviceAdd(d) PROVE Inv'
  BY <1>2, <1>3, AddCtrlStep, AddEptStep DEF Devs
<1> QED
  BY <1>2, <1>3, CreateStep, ProbeStep, StepOfStep, GoneStep, AddFailsStep, DestroyStep,
     OpenStep, CloseStep, RemoveStep, PassStep DEF Kinds

\* Files, children and the creator hold exactly the references that a device
\* has (put_device in rpmsg_eptdev_destroy, the error paths and release).
THEOREM RefsCorrect == Spec => []RefsExact
<1>1. Inv => RefsExact
  BY DEF Inv
<1> QED
  BY <1>1, InvInit, InvStep, PTL DEF Spec

LEMMA InvUnused == Inv => ReleasedUnused
<1> SUFFICES ASSUME Inv PROVE ReleasedUnused
  OBVIOUS
<1>1. UseInv /\ TypeOK /\ HasByPhase /\ OpenUsable /\ CreatedThroughFile /\ LiveUnderParent
  BY DEF Inv, UseInv
<1>2. ASSUME NEW f \in Files, file[f] # None PROVE Alive(file[f])
  BY <1>1, <1>2 DEF OpenUsable, HasCdev, Alive, Releasing
<1>3. ASSUME NEW d \in Eptdevs, Exists(d), dev[d].phase \in Creating \cup {"live"}
      PROVE  Alive(dev[d].parent)
  <2>1. d \in Devs /\ ByPhase(d) /\ dev[d] \in Device
    BY <1>1, <1>3, DeviceHas DEF HasByPhase, Devs
  <2>2. CASE dev[d].phase = "live"
    BY <1>1, <1>3, <2>2 DEF LiveUnderParent, IsLive, HasCdev, Alive, Releasing
  <2>3. CASE dev[d].phase \in Creating
    <3>1. dev[d].by \in Files /\ file[dev[d].by] = dev[d].parent
      BY <1>1, <1>3, <2>1, <2>3 DEF CreatedThroughFile, ByPhase, Device
    <3>2. dev[d].parent # None
      BY <2>1 DEF Device
    <3> QED
      BY <1>2, <3>1, <3>2
  <2> QED
    BY <1>3, <2>2, <2>3
<1> QED
  BY <1>2, <1>3 DEF ReleasedUnused

\* No file, no creation and no child is left with a device that its release
\* function takes apart, in whatever order files are closed and channels removed.
THEOREM ReleasedUnusedCorrect == Spec => []ReleasedUnused
BY InvUnused, InvInit, InvStep, PTL DEF Spec

-----------------------------------------------------------------------------
(***************************************************************************)
(* The minors and ids, as functions from devices to what they have taken.  *)
(***************************************************************************)
MinorMap == [d \in Devs |-> IF Exists(d) /\ dev[d].phase # "rel_cdev" THEN dev[d].minor ELSE None]
IdMap(k) == [d \in Devs |-> IF Exists(d) /\ Kind(d) = k THEN dev[d].id ELSE None]

\* What is taken is what the devices have, and no two have the same.
Exact(taken, F) ==
  /\ \A n : n \in taken <=> n # None /\ \E d \in Devs : F[d] = n
  /\ \A d, e \in Devs : F[d] # None /\ F[d] = F[e] => d = e

LEMMA NumbersMaps ==
  NumbersExact <=> /\ TypeOK /\ Exact(minors, MinorMap)
                   /\ \A k \in {"ctrl", "ept"} : Exact(ids[k], IdMap(k))
<1>1. HasMinor = {d \in Devs : MinorMap[d] # None} /\ \A d \in HasMinor : MinorMap[d] = dev[d].minor
  BY DEF HasMinor, MinorMap
<1>2. \A k : HasId(k) = {d \in Devs : IdMap(k)[d] # None}
             /\ \A d \in HasId(k) : IdMap(k)[d] = dev[d].id
  BY DEF HasId, IdMap
<1>3. Exact(minors, MinorMap) <=> /\ minors = {dev[d].minor : d \in HasMinor}
                                  /\ \A d, e \in HasMinor : d # e => dev[d].minor # dev[e].minor
  <2>1. Exact(minors, MinorMap) <=> /\ minors = {MinorMap[d] : d \in HasMinor}
                                    /\ \A d, e \in HasMinor : d # e => MinorMap[d] # MinorMap[e]
    BY <1>1 DEF Exact
  <2>2. {MinorMap[d] : d \in HasMinor} = {dev[d].minor : d \in HasMinor}
    BY <1>1
  <2> QED
    BY <1>1, <2>1, <2>2
<1>4. ASSUME NEW k
      PROVE  Exact(ids[k], IdMap(k)) <=> /\ ids[k] = {dev[d].id : d \in HasId(k)}
                                         /\ \A d, e \in HasId(k) : d # e => dev[d].id # dev[e].id
  <2>1. Exact(ids[k], IdMap(k)) <=> /\ ids[k] = {IdMap(k)[d] : d \in HasId(k)}
                                    /\ \A d, e \in HasId(k) : d # e => IdMap(k)[d] # IdMap(k)[e]
    BY <1>2 DEF Exact
  <2>2. {IdMap(k)[d] : d \in HasId(k)} = {dev[d].id : d \in HasId(k)}
    BY <1>2
  <2> QED
    BY <1>2, <2>1, <2>2
<1> QED
  BY <1>3, <1>4 DEF NumbersExact

LEMMA TakeNumber ==
  ASSUME NEW T, NEW F, NEW G, NEW d \in Devs, NEW n, Exact(T, F),
         F[d] = None, n \notin T, n # None, G[d] = n, \A x \in Devs \ {d} : G[x] = F[x]
  PROVE  Exact(T \cup {n}, G)
BY DEF Exact

LEMMA FreeNumber ==
  ASSUME NEW T, NEW F, NEW G, NEW d \in Devs, NEW n, Exact(T, F),
         F[d] = n, G[d] = None, \A x \in Devs \ {d} : G[x] = F[x]
  PROVE  Exact(T \ {n}, G)
BY DEF Exact

LEMMA KeepNumber ==
  ASSUME NEW T, NEW F, NEW G, Exact(T, F), \A x \in Devs : G[x] = F[x]
  PROVE  Exact(T, G)
BY DEF Exact

\* Most steps leave the numbers with the devices that have them.
Keeps(d) ==
  \/ dev'[d] = dev[d]
  \/ dev[d] = None /\ dev'[d].minor = None /\ dev'[d].id = None
  \/ dev[d] # None /\ dev[d].phase = "rel_cdev" /\ dev[d].id = None /\ dev'[d] = None
  \/ /\ dev[d] # None /\ dev'[d] # None
     /\ dev'[d].minor = dev[d].minor /\ dev'[d].id = dev[d].id
     /\ dev'[d].phase # "rel_cdev" /\ dev[d].phase # "rel_cdev"

LEMMA KeepStep ==
  ASSUME NumbersExact, TypeOK', UNCHANGED <<minors, ids>>, \A d \in Devs : Keeps(d)
  PROVE  NumbersExact'
<1>1. TypeOK /\ Exact(minors, MinorMap) /\ \A k \in {"ctrl", "ept"} : Exact(ids[k], IdMap(k))
  BY NumbersMaps
<1>2. \A d \in Devs : MinorMap'[d] = MinorMap[d]
  BY DEF Keeps, MinorMap, Exists
<1>3. \A k, d \in Devs : IdMap(k)'[d] = IdMap(k)[d]
  BY DEF Keeps, IdMap, Exists
<1>4. Exact(minors', MinorMap')
  BY <1>1, <1>2, KeepNumber
<1>5. ASSUME NEW k \in {"ctrl", "ept"} PROVE Exact(ids'[k], IdMap(k)')
  <2>1. Exact(ids[k], IdMap(k)) /\ ids' = ids /\ \A d \in Devs : IdMap(k)'[d] = IdMap(k)[d]
    BY <1>1, <1>3 DEF IdMap, Keeps, Exists
  <2> QED
    BY <2>1, KeepNumber
<1>6. (NumbersExact <=> /\ TypeOK /\ Exact(minors, MinorMap)
                        /\ \A k \in {"ctrl", "ept"} : Exact(ids[k], IdMap(k)))'
  BY NumbersMaps, PTL
<1> QED
  BY <1>4, <1>5, <1>6

LEMMA KeepSteps ==
  ASSUME Inv, Kinds
  PROVE  \/ UNCHANGED <<minors, ids>> /\ \A d \in Devs : Keeps(d)
         \/ \E d \in Devs : StepOf(d) \/ Unwind(d)
<1>1. UseInv /\ TypeOK /\ HasByPhase
  BY DEF Inv, UseInv
<1> DEFINE Kept == UNCHANGED <<minors, ids>> /\ \A d \in Devs : Keeps(d)
<1>2. ASSUME NEW d \in Eptdevs, NEW f \in Files, CreateEptdev(d, f) PROVE Kept
  <2>1. d \in Devs /\ file[f] \in Ctrls /\ Alloc(d, file[f], f) /\ dev[d] = None
    BY <1>2 DEF CreateEptdev, Alloc, Devs
  <2> QED
    BY <1>1, <1>2, <2>1, AllocEffect DEF CreateEptdev, Keeps
<1>3. ASSUME NEW d \in Ctrls, NEW ch \in Channels, Probe(d, ch) PROVE Kept
  <2>1. d \in Devs /\ Alloc(d, ch, None) /\ dev[d] = None
    BY <1>3 DEF Probe, Alloc, Devs
  <2> QED
    BY <1>1, <1>3, <2>1, AllocEffect DEF Probe, Keeps
<1>4. ASSUME NEW d \in Devs, ReleaseCdev(d) PROVE Kept
  <2>1. dev[d] # None /\ dev[d].phase = "rel_cdev" /\ dev[d].id = None /\ dev'[d] = None
        /\ \A x \in Devs \ {d} : dev'[x] = dev[x]
    BY <1>1, <1>4, GoneEffect DEF ReleaseCdev, Exists, HasByPhase, ByPhase
  <2> QED
    BY <1>4, <2>1 DEF Keeps, ReleaseCdev
<1>5. ASSUME NEW d \in Devs, DeviceAdd(d) PROVE Kept
  <2>1. UNCHANGED <<minors, ids>>
    BY <1>5 DEF DeviceAdd
  <2>2. CASE d \in Ctrls
    BY <1>1, <1>5, <2>1, <2>2, DeviceAddEffect DEF Keeps
  <2>3. CASE d \notin Ctrls
    <3>1. PICK p \in Ctrls : p = dev[d].parent
      BY <1>1, <1>5, <2>3, DeviceAddEffect
    <3>2. Keeps(d) /\ Keeps(p) /\ \A x \in Devs \ {d, p} : dev'[x] = dev[x]
      BY <1>1, <1>5, <2>3, <3>1, DeviceAddEffect DEF Keeps
    <3> QED
      BY <2>1, <3>2 DEF Keeps
  <2> QED
    BY <2>2, <2>3
<1>6. ASSUME NEW d \in Devs, DeviceAddFails(d) PROVE Kept
  <2>1. Keeps(d) /\ \A x \in Devs \ {d} : dev'[x] = dev[x]
    BY <1>1, <1>6, AddFailsEffect DEF Keeps
  <2> QED
    BY <1>6, <2>1 DEF DeviceAddFails, Keeps
<1>7. ASSUME NEW d \in Eptdevs, Destroys(d) PROVE Kept
  <2> DEFINE r == [dev[d] EXCEPT !.phase = "deleted"]
  <2>1. PICK p \in Ctrls : p = dev[d].parent
    BY <1>1, <1>7, DestroyEffect DEF Destroys
  <2>2. /\ r \in Device /\ r.refs # 0 /\ r.phase = "deleted"
        /\ r.minor = dev[d].minor /\ r.id = dev[d].id
        /\ dev[p] \in Device /\ dev[p].refs # 0 /\ dev[p].phase \in {"live", "deleted"}
        /\ dev'[d] = Put(r) /\ dev'[p] = Put(dev[p])
        /\ \A x \in Devs \ {d, p} : dev'[x] = dev[x]
    BY <1>1, <1>7, <2>1, DestroyEffect DEF Destroys
  <2> HIDE DEF r
  <2>3. Keeps(d) /\ Keeps(p)
    BY <1>7, <2>2, PutEffect DEF Keeps, Openable, Destroys, IsLive, Exists
  <2> QED
    BY <1>7, <2>2, <2>3 DEF Destroys, Keeps
<1>8. ASSUME NEW f \in Files, NEW m \in Minors, Open(f, m) PROVE Kept
  <2>1. PICK d \in Devs : /\ HasCdev(d) /\ dev[d] \in Device /\ dev'[d] \in Device
                          /\ dev'[d].phase = dev[d].phase /\ dev'[d].minor = dev[d].minor
                          /\ dev'[d].id = dev[d].id /\ \A x \in Devs \ {d} : dev'[x] = dev[x]
    BY <1>1, <1>8, OpenEffect
  <2>2. Keeps(d)
    BY <2>1 DEF Keeps, HasCdev
  <2> QED
    BY <1>8, <2>1, <2>2 DEF Open, Keeps
<1>9. ASSUME NEW f \in Files, Close(f) PROVE Kept
  <2>1. PICK d \in Devs : /\ dev[d] \in Device /\ dev[d].phase \in Openable /\ dev[d].refs # 0
                          /\ dev'[d] = Put(dev[d]) /\ \A x \in Devs \ {d} : dev'[x] = dev[x]
    BY <1>1, <1>9, CloseEffect
  <2>2. Keeps(d)
    BY <2>1, PutEffect DEF Keeps, Openable
  <2> QED
    BY <1>9, <2>1, <2>2 DEF Close, Keeps
<1>10. ASSUME NEW ch \in Channels, RemoveCtrl(ch) PROVE Kept
  <2>1. PICK c \in Ctrls : c = CtrlOf(ch)
    BY <1>1, <1>10, RemoveCtrlEffect
  <2> DEFINE r == [dev[c] EXCEPT !.phase = "deleted"]
  <2>2. /\ IsLive(c) /\ dev[c] \in Device /\ dev[c].refs # 0
        /\ r \in Device /\ r.phase = "deleted" /\ r.refs = dev[c].refs
        /\ r.minor = dev[c].minor /\ r.id = dev[c].id
        /\ dev'[c] = Put(r) /\ \A x \in Devs \ {c} : dev'[x] = dev[x]
    BY <1>1, <1>10, <2>1, RemoveCtrlEffect
  <2> HIDE DEF r
  <2>3. Keeps(c)
    BY <2>2, PutEffect DEF Keeps, Openable, IsLive, Exists
  <2> QED
    BY <1>10, <2>2, <2>3 DEF RemoveCtrl, Keeps
<1>11. CASE Passes
  BY <1>11 DEF Passes, Keeps
<1> QED
  BY <1>2, <1>3, <1>4, <1>5, <1>6, <1>7, <1>8, <1>9, <1>10, <1>11 DEF Kinds

\* A step of a creation takes a number, one of a release function frees it.
LEMMA StepOfNumbers ==
  ASSUME Inv, NumbersExact, TypeOK', NEW d \in Devs, StepOf(d)
  PROVE  NumbersExact'
<1>1. TypeOK /\ HasByPhase /\ Exact(minors, MinorMap)
      /\ \A k \in {"ctrl", "ept"} : Exact(ids[k], IdMap(k))
  BY NumbersMaps DEF Inv, UseInv
<1>2. /\ dev[d] \in Device /\ dev'[d] \in Device /\ \A x \in Devs \ {d} : dev'[x] = dev[x]
      /\ dev[d] # None /\ dev'[d] # None
  BY <1>1, StepEffect
<1>3. /\ dev[d].minor # None <=> dev[d].phase # "alloc"
      /\ dev[d].id # None <=> dev[d].phase \notin {"alloc", "minor", "rel_minor", "rel_cdev"}
  BY <1>1, <1>2 DEF HasByPhase, ByPhase, Exists
<1>4. \A x \in Devs \ {d} : MinorMap'[x] = MinorMap[x]
  BY <1>2 DEF MinorMap, Exists
<1>5. MinorMap[d] = (IF dev[d].phase # "rel_cdev" THEN dev[d].minor ELSE None)
      /\ MinorMap'[d] = (IF dev'[d].phase # "rel_cdev" THEN dev'[d].minor ELSE None)
  BY <1>2 DEF MinorMap, Exists
<1>6. Exact(minors', MinorMap')
  <2>1. CASE dev[d].phase = "alloc"
    <3>1. /\ dev'[d].phase = "minor" /\ dev'[d].minor \in Minors \ minors
          /\ minors' = minors \cup {dev'[d].minor}
      BY <1>1, <2>1, StepEffect
    <3>2. MinorMap[d] = None /\ MinorMap'[d] = dev'[d].minor /\ dev'[d].minor # None
      BY <1>3, <1>5, <2>1, <3>1 DEF Minors
    <3> QED
      BY <1>1, <1>4, <3>1, <3>2, TakeNumber
  <2>2. CASE dev[d].phase = "rel_minor"
    <3>1. dev'[d].phase = "rel_cdev" /\ minors' = minors \ {dev[d].minor}
      BY <1>1, <2>2, StepEffect
    <3>2. MinorMap[d] = dev[d].minor /\ MinorMap'[d] = None
      BY <1>5, <2>2, <3>1
    <3> QED
      BY <1>1, <1>4, <3>1, <3>2, FreeNumber
  <2>3. CASE dev[d].phase \notin {"alloc", "rel_minor"}
    <3>1. minors' = minors /\ dev'[d].minor = dev[d].minor /\ dev'[d].phase # "rel_cdev"
          /\ dev[d].phase # "rel_cdev"
      BY <1>1, <2>3, StepEffect
    <3>2. \A x \in Devs : MinorMap'[x] = MinorMap[x]
      BY <1>4, <1>5, <3>1
    <3> QED
      BY <1>1, <3>1, <3>2, KeepNumber
  <2> QED
    BY <2>1, <2>2, <2>3
<1>7. ASSUME NEW k \in {"ctrl", "ept"} PROVE Exact(ids'[k], IdMap(k)')
  <2>0. Exact(ids[k], IdMap(k)) /\ \A x \in Devs \ {d} : IdMap(k)'[x] = IdMap(k)[x]
    BY <1>1, <1>2 DEF IdMap, Exists
  <2>1. IdMap(k)[d] = (IF Kind(d) = k THEN dev[d].id ELSE None)
        /\ IdMap(k)'[d] = (IF Kind(d) = k THEN dev'[d].id ELSE None)
    BY <1>2 DEF IdMap, Exists
  <2>2. CASE dev[d].phase = "minor" /\ Kind(d) = k
    <3>1. dev'[d].id \in Nat \ ids[k] /\ ids'[k] = ids[k] \cup {dev'[d].id}
      BY <1>1, <2>2, StepEffect DEF TypeOK
    <3>2. IdMap(k)[d] = None /\ IdMap(k)'[d] = dev'[d].id /\ dev'[d].id # None
      BY <1>3, <2>1, <2>2, <3>1
    <3> QED
      BY <2>0, <3>1, <3>2, TakeNumber
  <2>3. CASE dev[d].phase = "rel_id" /\ Kind(d) = k
    <3>1. dev'[d].id = None /\ ids'[k] = ids[k] \ {dev[d].id}
      BY <1>1, <2>3, StepEffect DEF TypeOK
    <3>2. IdMap(k)[d] = dev[d].id /\ IdMap(k)'[d] = None
      BY <2>1, <2>3, <3>1
    <3> QED
      BY <2>0, <3>1, <3>2, FreeNumber
  <2>4. CASE ~(dev[d].phase \in {"minor", "rel_id"} /\ Kind(d) = k)
    <3>1. ids'[k] = ids[k] /\ (Kind(d) = k => dev'[d].id = dev[d].id)
      BY <1>1, <2>4, StepEffect DEF TypeOK
    <3>2. \A x \in Devs : IdMap(k)'[x] = IdMap(k)[x]
      BY <2>0, <2>1, <3>1
    <3> QED
      BY <2>0, <3>1, <3>2, KeepNumber
  <2> QED
    BY <2>2, <2>3, <2>4
<1>8. (NumbersExact <=> /\ TypeOK /\ Exact(minors, MinorMap)
                        /\ \A k \in {"ctrl", "ept"} : Exact(ids[k], IdMap(k)))'
  BY NumbersMaps, PTL
<1> QED
  BY <1>6, <1>7, <1>8

\* A creation that fails gives back what it has, and nothing else.
LEMMA UnwindNumbers ==
  ASSUME Inv, NumbersExact, TypeOK', NEW d \in Devs, Unwind(d)
  PROVE  NumbersExact'
<1>1. TypeOK /\ Exact(minors, MinorMap) /\ \A k \in {"ctrl", "ept"} : Exact(ids[k], IdMap(k))
  BY NumbersMaps
<1>2. /\ Exists(d) /\ dev[d].phase # "rel_cdev" /\ dev'[d] = None
      /\ \A x \in Devs \ {d} : dev'[x] = dev[x]
      /\ minors' = minors \ {dev[d].minor} /\ ids' = [ids EXCEPT ![Kind(d)] = @ \ {dev[d].id}]
  BY <1>1 DEF Unwind, TypeOK
<1>3. MinorMap[d] = dev[d].minor /\ MinorMap'[d] = None
      /\ \A x \in Devs \ {d} : MinorMap'[x] = MinorMap[x]
  BY <1>2 DEF MinorMap, Exists
<1>4. Exact(minors', MinorMap')
  BY <1>1, <1>2, <1>3, FreeNumber
<1>5. ASSUME NEW k \in {"ctrl", "ept"} PROVE Exact(ids'[k], IdMap(k)')
  <2>1. Exact(ids[k], IdMap(k)) /\ IdMap(k)'[d] = None
        /\ \A x \in Devs \ {d} : IdMap(k)'[x] = IdMap(k)[x]
    BY <1>1, <1>2 DEF IdMap, Exists
  <2>2. CASE Kind(d) = k
    <3>1. IdMap(k)[d] = dev[d].id /\ ids'[k] = ids[k] \ {dev[d].id}
      BY <1>1, <1>2, <2>2 DEF IdMap, TypeOK
    <3> QED
      BY <2>1, <3>1, FreeNumber
  <2>3. CASE Kind(d) # k
    <3>1. ids'[k] = ids[k] /\ \A x \in Devs : IdMap(k)'[x] = IdMap(k)[x]
      BY <1>1, <1>2, <2>1, <2>3 DEF IdMap, TypeOK
    <3> QED
      BY <2>1, <3>1, KeepNumber
  <2> QED
    BY <2>2, <2>3
<1>6. (NumbersExact <=> /\ TypeOK /\ Exact(minors, MinorMap)
                        /\ \A k \in {"ctrl", "ept"} : Exact(ids[k], IdMap(k)))'
  BY NumbersMaps, PTL
<1> QED
  BY <1>4, <1>5, <1>6

LEMMA NumbersInit == Init => NumbersExact
<1> SUFFICES ASSUME Init PROVE NumbersExact
  OBVIOUS
<1>1. TypeOK
  BY UseInit DEF UseInv
<1>2. HasMinor = {} /\ \A k : HasId(k) = {}
  BY DEF Init, HasMinor, HasId, Exists
<1> QED
  BY <1>1, <1>2 DEF Init, NumbersExact

LEMMA NumbersStep ==
  ASSUME Inv, NumbersExact, [Next]_vars
  PROVE  NumbersExact'
<1>1. TypeOK' /\ Kinds
  BY TypeStep, StepKinds DEF Inv
<1> QED
  BY <1>1, KeepSteps, KeepStep, StepOfNumbers, UnwindNumbers

\* The minors and ids in the ida maps are exactly those of the devices, one
\* each, through every failure of rpmsg_eptdev_create and every release.
THEOREM NumbersCorrect == Spec => []NumbersExact
<1>1. Init => Inv /\ NumbersExact
  BY InvInit, NumbersInit
<1>2. Inv /\ NumbersExact /\ [Next]_vars => Inv' /\ NumbersExact'
  BY InvStep, NumbersStep
<1> QED
  BY <1>1, <1>2, PTL DEF Spec

\* Every variable has the type that the code gives it.
THEOREM TypeCorrect == Spec => []TypeOK
<1>1. Inv => TypeOK
  BY DEF Inv, UseInv
<1> QED
  BY <1>1, InvInit, InvStep, PTL DEF Spec

================================================================================
