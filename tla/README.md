# Verification of driver_module_test

This directory holds TLA+ models of the Linux kernel modules in `src/`, TLC
configurations that check them on small instances, and theorems about them that
TLAPS proves for every value of the constants.  Line numbers below refer to
`src/`; `bus.c`, `core.c` and `char.c` stand for
`src/virtio_rpmsg_test/virtio_rpmsg_bus.c`, `rpmsg_core.c` and `rpmsg_char.c`.

## 1. Inventory

The repository is a collection of kernel modules without README, docs or
automated tests.  Four parts have logic of their own; the rest are exercises in
registering devices, whose logic is the order in which things are taken and given
back.

| Component | State | Operations | Modelled in |
|---|---|---|---|
| transmit path, bus.c 473-733, 830-845 | `last_sbuf`, `sleepers`, `svq`, `sendq` | the six send functions, `get_a_tx_buf`, `rpmsg_xmit_done` | `RpmsgTx` |
| endpoints and receive path, bus.c 244-356, 735-901 | `endpoints` idr, per endpoint `refcount`, `cb`, `cb_lock`; `rvq` | create, destroy, `rpmsg_recv_done`, `rpmsg_recv_single` | `RpmsgRx` |
| probe, remove, init and fini, bus.c 903-1095 | `virtproc_info`, buffers, virtqueues, the ns endpoint | `rpmsg_probe`, `rpmsg_remove`, `rpmsg_init`, `rpmsg_fini` | `RpmsgProbe` |
| bus core and name service, core.c, bus.c 420-471, 847-901, 1025-1055 | channels, drivers, `rpdev->ept`, `rpdev->src`, `driver_override` | match, probe, remove, register, unregister, `rpmsg_ns_cb` | `RpmsgChannel` |
| endpoint device `/dev/rpmsgN`, char.c 81-281 | `eptdev->ept`, `ept_lock`, `queue`, `readq` | open, release, read, write, poll, ioctl, callback, destroy | `RpmsgChar` |
| control device `/dev/rpmsg_ctrlN`, char.c 330-582 | three idas, cdevs, device references; the class and the numbers | create, probe, remove, open, release, ioctl, release functions; init, exit | `RpmsgCtrl`; `ModuleLife` |
| `HELLO_MODULE`, moduleUbuntuTest/moduleTest/moduleTest.c | `enable_read`, two buffers, `iOpenCount` | open, release, read, write | `HelloDev` |
| `/dev/mem_map`, mem_map/mem_map.c | `f_pos`, mappings | lseek, read, write, mmap | `MemMap` |
| `libmem`, mem_map/test_mem_map/libmem.c | one mapped window | read and write, through the file and through a mapping | `LibMem` |
| demo modules (char devices, device numbers, LEDS, IRQ, misc, platform) and the loading of `HELLO_MODULE`, `mem_map` and `rpmsg_char` | what they have registered | init, exit, probe, remove | `ModuleLife` |
| user-space test programs | none | open, a few calls, close | not modelled |

How they interact.  A virtio device announces services to `rpmsg_ns_cb`, which
runs on the receive thread as the callback of the name service endpoint and
creates and unregisters channels; the bus core binds these to drivers, one of
which, `rpmsg_chrdev`, offers control and endpoint devices to user space.  Reads
of an endpoint device take what the endpoint's callback has queued; writes go
down the transmit path and may sleep there, holding `ept_lock`.  `rpmsg_remove`
takes everything away from below while user space is at work on top.
`HELLO_MODULE` and `mem_map` stand alone, with `libmem` on top of the latter.  The demo
modules meet in the kernel's registries: they ask for the same device numbers, and
several register the same class, driver or misc device name.

What is hard, and what makes each part correct:

- *Transmit.*  Several senders, an interrupt handler and a remote processor share
  a ring.  Senders enable interrupts before they sleep and disable them after.
  Correct if no buffer has two owners or none, nobody sleeps through a returned
  buffer, a message in the ring does not change, and a call ends.
- *Receive.*  The receive thread uses an endpoint outside `endpoints_lock` while
  its owner destroys it, and may itself destroy another one.  Correct if nothing
  is used after its last `kref_put`, nothing is leaked, no callback runs after a
  destroy, and a destroy does not deadlock.
- *Probe and remove.*  Memory is shown to a remote processor.  Correct if it is
  there as long as the remote processor, or the callback, may use it, and gone
  afterwards whatever failed.
- *Channels.*  `rpdev->ept` and `rpdev->src` survive unbinding.  Correct if a
  remove destroys its own endpoint, a failed probe leaves none, and the channels
  are the announced services.
- *Character devices.*  One lock covers some accesses to `eptdev->ept`, not all.
  Correct if a device is freed after its last user and a blocked call ends.
- *`HELLO_MODULE`.*  No lock at all.  *`mem_map`.*  Arithmetic at page boundaries
  and at the end of the address space; `libmem` relies on it without looking at all
  results.
- *Demo modules.*  Each step of an init may fail, and exit does not know which did.
  Correct if nothing the kernel can call outlives its code, no module takes away what
  another has, and an undisturbed module leaves nothing behind.

`PROJECT.json` lists every hazard with the line where it bites and the properties
that would catch it.

## 2. The modules

**`RpmsgTx`** is `rpmsg_send_offchannel_raw` and what it calls.  Each section
under `tx_lock` is one action (`FirstGet`, `Upref`, `Add`, ...); the expansion of
`wait_event_interruptible_timeout` is `Cond`, `Prepare`, `Recheck`, `TimerExpire`
and `Unpark`, with the order of its checks kept: the condition is evaluated once
more after the timer has expired, and a signal ends the wait only when the
condition is false.  `RemoteTake`, `RemotePut`, `BreakQueue` and the interrupt
flags model the virtqueue as far as the driver relies on it, with and without
`VIRTIO_RING_F_EVENT_IDX`.  A message is named by its sender.

**`RpmsgTxAbs`** is what a send promises: the message goes to the end of a bounded
queue, once, and the call returns "ok", or it returns an error and the remote
never sees it.  `RpmsgTx` implements it with `wire` the contents of the ring's
available buffers (`ImplementsAbs`).

**`RpmsgRx`** has the owners of endpoints (`CreateEpt`, then `StartDestroy`,
`IdrRemove`, `ClearCb`, `PutEpt` for `__rpmsg_destroy_ept`) and the receive thread
(`RecvDone`, `Lookup`, `LockCb`, `CallbackReturns`, `UnlockCb`, `PutRef`,
`AddInbuf`, `Oversized`).  Sections under `endpoints_lock` contain no blocking
call and are single actions; `cb_lock` is held across the callback and is a
variable.  `NsDestroy` is the callback of the name service endpoint making another
user destroy its endpoint and waiting for it.

**`RpmsgProbe`** has one action per acquisition of `rpmsg_probe`, one per failure,
one per label of its error path, and one per step of `rpmsg_remove`.  The remote
processor writes into posted buffers from `virtio_device_ready` to reset; an
interrupt raised before the reset is still delivered, and `del_vqs` waits for it.

**`RpmsgChannel`** has probes in two steps (`ProbeStart`, then `ProbeOk` or
`ProbeFail`), `Unbind`, `LoadDriver`, `UnloadDriver`, `SetOverride`, the name
service callback (`NsReceive`, `NsCreate`, `NsAttached`, `NsFind`, `NsUnregister`),
and `rpmsg_remove` walking the channels (`Reset`, `RemoveChild`, `LoopEnds`,
`FreeVrp`).  `ept` and `src` of a channel are kept exactly where the code keeps
them.  Endpoints that drivers create themselves compete for addresses
(`OwnCreateEpt`).

**`RpmsgChar`** is one endpoint device with any number of threads and files.
`ept_lock` is a variable, as it is held across a send and across the wait for the
callback; sections under `queue_lock` are single actions.  The two accesses of
`rpmsg_eptdev_poll` to `eptdev->ept`, and the check and the store of an open, are
separate.

**`RpmsgCtrl`** is the lifecycle of control and endpoint devices: creation step by
step with every failure and its unwinding (`Unwind`), references, minors and ids,
the kernel's map of character devices (newest first, as `kobj_map` finds them), and
`rpmsg_chrdev_remove` between `device_for_each_child` and `device_del`.

**`HelloDev`** makes every access to `struct myDev` that another thread can see a
step of its own, down to the load and the store of `iOpenCount++` and two halves of
each copied buffer.

**`MemMap`** has addresses of `W` bits, so that sums wrap as they do in C; reads and
writes go one page per step, and any page or any byte of the caller's buffer may
turn out to be inaccessible.

**`LibMem`** extends `MemMap` with the four functions of `libmem.c`.  A call works on a
file of its own and is one step; what `read`, `write` and `mmap` do for it is
`MemMap`'s.  Results the library does not look at (`lseek`, `mmap` compared with NULL)
are not looked at in the model either; `SIGSEGV` stands for the death of the program.

**`ModuleLife`** is a small machine and a table.  The table has one row per kernel
module: the steps of its init with the reaction of the code to the failure of each, the
steps of its exit, and what its file operations use.  The machine runs any of them at
the same time, one kernel call per step, against registries of device numbers, cdevs
and names; `Unregister` removes an entry whoever made it, as the kernel's does.
`rpmsg_char` is the only one whose init backs out of a failure step by step (reaction
`back`), and `NothingRegistered` asks it to leave nothing after a failed load either.

**`RpmsgTxProofs`**, **`RpmsgRxProofs`**, **`RpmsgProbeProofs`**,
**`RpmsgChannelProofs`**, **`RpmsgCtrlProofs`**, **`RpmsgCharProofs`**,
**`MemMapProofs`** and **`DemoProofs`** hold the theorems.  `DemoProofs` is about two
models, `ModuleLife` and `HelloDev`; that it can extend both is why the definitions of
`HelloDev` that every model has are called `HelloInit`, `HelloNext`, `HelloSpec`,
`HelloTypeOK` and `helloVars`.  The `MC` modules add
symmetry sets (and, for `RpmsgChannel` and `ModuleLife`, functions that a configuration
cannot write down); no run with a liveness property uses symmetry.

## 3. The runs

| Run | Instance | What it shows |
|---|---|---|
| `RpmsgTx` | 2 senders, 1 buffer, event index | ownership, wake-ups, refinement and termination of sends |
| `RpmsgTxSignal` | 1 sender | finding 1 |
| `RpmsgRx` | 3 users, 2 endpoint objects, 2 addresses, 2 buffers | lifetimes, no callback after a destroy, no deadlock, messages are digested |
| `RpmsgProbe` | 2 devices, rings of 1, 2 and 3 entries for at most 4 buffers | memory in use, nothing left, buffers fit |
| `RpmsgChannel` | 1 device, 2 remote services, 2 drivers, 3 endpoints | endpoints, addresses and channels stay paired |
| `RpmsgChannelStale` | a client driver, `rpmsg_chrdev` and `driver_override` | finding 2 |
| `RpmsgChar` | 2 threads, 1 file, the parent, at most 2 queued messages, one destroy | lifetime, sends on live endpoints, no stale message, no lost reader, destroys complete |
| `RpmsgCharTwoOpens` | 2 threads, 2 files | finding 3 |
| `RpmsgCtrl` | 2 control devices in succession, 2 endpoint devices, 2 files, 3 minors | numbers and references exact, nothing released in use |
| `HelloDev` | 1 reader, 2 writers with 2 writes, 1 opener | no data overlooked, reads return |
| `MemMap` | 4-bit addresses, 4-byte pages, 2 threads, calls of at most 5 bytes, library sizes 1 to 4 | partial writes, mmap at the edges, the library on top |
| `ModuleLife` | 16 modules, 2 loads of any, 1 failing call, majors given or not, two modules with a minor given or not | what is left, who is served, whose numbers are taken |

*Why the bounds are enough.*  One transmit buffer for two senders makes both wait
at once, be woken together, and lose the buffer to each other; three senders with
symmetry (`SenderSymmetry`), and two senders with two buffers and no event index,
have been checked for safety by hand, and the theorems cover all.
Endpoint objects are memory: two are enough for one to be freed and handed out
again while the receive thread still has it in mind, and for the name service to
destroy the other.  In `RpmsgProbe` the rings are smaller than, as large as, and
larger than half of the buffers.  Two remote services and three endpoints let one
channel's address be taken by another owner.  In `RpmsgCtrl` three minors for four
devices make `ida_simple_get` fail.  With 4 bits `MemMap` runs through every offset
and size, the wrap around included; a page of 4 bytes can hold or cut each size that
`libmem` takes.  In `ModuleLife` two loads are all pairs of modules and each module
loaded twice; what goes wrong between three of them goes wrong between two.  `Span` is
4 instead of 256, which is still more than any region of the demo modules.

*Fairness.*  A thread that can run does run, and a raised interrupt is handled
(weak fairness of the steps of one call).  A timer is strongly fair, because a
thread that is woken early goes back to sleep for the remaining time only.  In
`RpmsgChar` the steps that take `ept_lock` or `cb_lock` are strongly fair, as a
waiting mutex is granted in the end.  Nothing is assumed of the remote processor,
and no user is required to open, send, read or destroy; `RpmsgChannel`, `RpmsgCtrl`,
`RpmsgProbe`, `MemMap` and `ModuleLife` state safety only and assume no fairness.

Deadlock is checked everywhere but in the runs of `RpmsgChar`, where nothing happens
any more once the device is destroyed and its file is closed, and of `ModuleLife`, where
nothing does after the last load.

*Bounds in the guards.*  `MaxWrites` writes (`HelloDev`), `MaxQueue` messages waiting
to be read (`RpmsgChar`), `MaxCdevs` character devices added (`RpmsgCtrl`),
`MaxCount` bytes a call (`MemMap`), `MaxLoads` insmods and `MaxFaults` allocations that
fail (`ModuleLife`).

## 4. Findings

1. `SendAlwaysReturns` (bus.c 642).  The send loop leaves only when the wait returns
   a buffer or 0.  With a pending signal the wait returns `-ERESTARTSYS` at once and
   the loop starts over; with a remote processor that returns no buffer it never
   ends, although the comment promises 15 seconds at most.
2. `OwnEndpoint` (core.c 505).  `rpdev->ept` is never cleared.  A channel bound to a
   driver with a callback, unbound, and then bound through `driver_override` to
   `rpmsg_chrdev` has its first endpoint destroyed a second time.
3. `NoOrphanEndpoint` (char.c 139).  Two opens create two endpoints and remember one.

Further disagreements, stated as definitions in the modules and found by TLC when
named as the only property of a configuration with the constants given:

| Definition | Constants | What happens |
|---|---|---|
| `AnnouncedHasChannel` (`RpmsgChannel`) | `Vdevs = {v1, v2}`, one service | the device name no longer contains its parent (core.c 526-527), so the same service of a second device gets no channel |
| `SeamlessEndpoint` (`RpmsgChannel`) | one device, one driver, two services | a channel whose old address was taken meanwhile cannot be probed again (core.c 463) |
| `UnregistersExisting` (`RpmsgChannel`) | one device, one service | a destroy announcement and `rpmsg_remove` unregister one channel twice (core.c 555) |
| `NoStaleMessage` (`RpmsgChar`) | two files, two threads | an open creates its endpoint before it stores it, and its messages are queued for the readers of another open (char.c 132) |
| `NoLostReader` (`RpmsgChar`) | two files, two threads | closing one file takes the endpoint from a reader asleep on the other, without a wake-up (char.c 154) |
| `ReadGetsDataOrReason` (`RpmsgChar`) | one file, two threads | the second of two readers of one message gets `-EFAULT` (char.c 202) |
| `AllEndpointsDestroyed` (`RpmsgChar`) | one file, one thread | an open half-way through stores its endpoint after the destroy (char.c 139) |
| `PollHasEndpoint` (`RpmsgChar`) | one file, one thread | a poll passes NULL to `rpmsg_poll`, which warns (char.c 267) |
| `NotFreedInUse` (`RpmsgChar`) | `OneDestroy = FALSE` | a second `RPMSG_DESTROY_EPT_IOCTL` drops a reference too many (char.c 96) |
| `CdevsExist` (`RpmsgCtrl`) | one control, two endpoint devices, `DevMax = 2` | the minor is given back before `cdev_del` (char.c 335) |
| `NoEptdevAfterRemove` (`RpmsgCtrl`) | one control, one endpoint device, `DevMax = 2` | a device created during `rpmsg_chrdev_remove` survives it (char.c 532) |
| `OpenCountExact` (`HelloDev`) | two openers | two opens count as one (moduleTest.c 159) |
| `WriteWakesReaders` (`HelloDev`) | one reader, one writer | the wake-up precedes the condition, and the reader it is for goes back to sleep (moduleTest.c 80) |

What the model of the demo modules shows when the exceptions that its properties name
are taken away:

| Property | Exception | What happens |
|---|---|---|
| `HandlersServed` | `DriverRegist` | it never unregisters its driver (moduleDriverRegist.c 60) |
| `HandlersServed` | `IrqRegist` | a failed `gpio_request` ends init with an error and leaves the cdevs of code that is unloaded (moduleIrqRegist.c 249) |
| `HandlersServed` | `MemMapDev` | a failed `class_create` or `device_create` leaves the character device, and exit does not know of it (mem_map.c 325) |
| `HandlersServed` | `clean` | init functions that go on after a failed `kmalloc` leave devices whose operations use what is not there (moduleTest.c 183) |
| `OwnNumbers` | a minor other than 0 | `cdev_add` is given `MKDEV(numdev_major, index)`, outside the region (moduleCharDriver.c 134) |
| `OwnNumbers`, `RegionsKept` | `robbed` | an exit after a failed registration unregisters the numbers of the module that has them (moduleSCdevNum.c 110, moduleDCdevNum.c 112) |
| `OwnNumbers` | major 0 | `HELLO_MODULE` adds its cdev although `alloc_chrdev_region` failed |
| `OwnNumbers` | `IrqRegist` not in `clean` | the cdevs that a failed `gpio_request` leaves (moduleIrqRegist.c 249) keep their numbers when the module is loaded again with another `numdev_minor` |
| `NothingRegistered` | GPIOs | nobody frees them (moduleDriverLEDS.c 88), so a second load fails |

`dead` is a stage of its own there because it is reached: a second module with the class
name `myDCdev` gets no class, and its `rmmod` hands an error pointer to
`device_destroy`.  `LibExact` leaves out two more: a refused `lseek` makes the library
access the first bytes of memory and report success, and `write_dram_map_raw`, which
maps for reading, dies on every valid call.

## 5. What is proved

`RpmsgTxProofs`, for any finite set of senders, any number of buffers and ring
entries, with and without event index:

- `TypeCorrect`.  `TypeOK` is not inductive: what `virtqueue_add_outbuf` puts in the
  ring is a buffer only because the sender owns one.  `BufferPhase` says so, and
  `TypeInv` is the two together.
- `SleepersCorrect`.  `sleepers` is the number of senders in the waiting loop, and
  callbacks are enabled exactly while there is one.  `SleepersStep` has one case per
  action that enters or leaves the loop.
- `WakeupCorrect`.  No sender sleeps through a returned buffer.  Needed besides
  `SleepersCount` is `NextIsArmed`: with callbacks enabled and an empty used ring (or
  no event index) the next buffer returned raises an interrupt.
- `OwnershipCorrect`, `NothingForgottenCorrect`, `MessageStableCorrect` and
  `RingNeverFullCorrect` from `OwnInv`:
  every buffer handed out (`HandedOut`) is with exactly one sender, in one part of
  the ring, or dropped.  That the ring is never full is a counting argument over the
  cardinality of the buffers it contains.
- `Implements`.  Every step is a step of `RpmsgTxAbs` or a stutter.  `Filled` (what a
  sender adds is its own message) and `RoomToSend` (there is room in the abstract
  queue when a concrete add succeeds) are the two lemmas it rests on.

`RpmsgProbeProofs`, for any devices, ring sizes and even `MAX_RPMSG_NUM_BUFS`:
`TypeCorrect`, `MemoryCorrect`, `NothingLeftCorrect` and `FillCorrect`, all from
`PlaceInv`: the place where the probe or remove of a device is determines what it
has (`HeldByPlace`), whether the remote processor is let at the rings
(`OnlineByPlace`), whether the callback may run (`QuietByPlace`), and how many
receive buffers there are (`CountByPlace`).  None of the four properties is
inductive without it.  `FillCorrect` rests on `HalfFits`, a fact about the choice of
`num_bufs`; for the symmetric rings the probe expects it also discharges the
premise `RingSize >= NTx` of `RingNeverFull`.

`RpmsgRxProofs`, for any users, endpoint objects, addresses and finite set of receive
buffers: `NoUseAfterFreeCorrect`, `RefcountCorrect`, `AddressesCorrect` and
`NoCallbackCorrect` from `EptInv`, and `BuffersCorrect` from `BufferInv`.  `EptInv`
explains every field of an endpoint by who has it: it is allocated exactly while it has
an owner or is the rx thread's `ept`, and these are what `refcount` counts
(`RefsByUse`); `cb` is there exactly while the owner has not cleared it (`CbByOwner`);
an address leads to it exactly while the owner has not removed it (`Bindings`);
`cb_lock` is held in one stretch of the rx thread (`ThreadByPlace`).  `refcount` being
a natural number needs all of this, so `TypeOK` is part of it.  `BufferInv` puts each
buffer in one place; `GetBufMoves` says what `virtqueue_get_buf` takes, and the count
in `RxBufferConserved` follows from the places by cardinalities of disjoint sets.

`RpmsgChannelProofs`, for any devices, services, drivers, channels and addresses:

- `TypeCorrect`, `NoOrphanCorrect` from `OrphanInv`, and `NoEndpointLeakCorrect` from
  `Owned`, without further assumption.  `StepKinds` sorts the steps by what they do to
  channels and endpoints: nothing, a channel leaves with its endpoint, a probe binds one,
  or an endpoint that is no channel's comes or goes.
- `OwnEndpointUnlessRebound`: the endpoint that `rpmsg_dev_remove` destroys is alive and
  its channel's own, in every behaviour where no channel that has had a driver with an rx
  callback goes to one without (`NotRebound`).  So finding 2 is the only way to break
  `OwnEndpoint`.  `OwnEndpointCorrect`, for drivers that all have a callback
  (`NoCallback = {}`), is a corollary.
- `AnnouncedUnlessClash`: with any number of devices, the channels of a device are the
  services announced and not withdrawn, in every behaviour where no device announces a
  service that is a channel of another one (`NoClash`).  So the first row of the table
  above is the only way to lose a channel.  `AnnouncedCorrect`, for one device, is a
  corollary.  `AnnouncedInv` follows the message that `rpmsg_ns_cb` is at work on through
  its steps (`Pending`); that it acts on a channel of its own device (`ActsOnOwn`) needs
  that names are taken once on the whole bus (`Distinct`).

`RpmsgCtrlProofs`, for any channels, finite sets of endpoint devices and files, and any
`RPMSG_DEV_MAX`:

- `RefsCorrect` and `ReleasedUnusedCorrect` from `Inv`.  `RefsExact` is not inductive: a
  `put_device` of the last reference starts the release function, and that nobody uses
  the device then follows from the count being exact *and* from who may be counted: what
  a file has open is usable (`OpenUsable`), a live endpoint device has a registered parent
  (`LiveUnderParent`), a creation under way keeps its control file open
  (`CreatedThroughFile`), and the phase of a device tells what it has (`HasByPhase`).
  `QuietStep` covers the steps that change one device and nobody's users; the four
  that change the users (`OpenStep`, `CloseStep`, `AddEptStep`, `DestroyStep`) add or remove
  one element of a finite set.
- `NumbersCorrect`: the minors and ids are functions from devices (`MinorMap`, `IdMap`), and
  a step takes one number, frees one, or keeps all (`TakeNumber`, `FreeNumber`,
  `KeepNumber`).  That a release frees what it has, once, is `HasByPhase` again.

`RpmsgCharProofs`, for any number of threads and endpoints and any queue length:

- `NotFreedCorrect`, `NoStaleMessageCorrect` and `NoLostReaderCorrect`, if there is one
  open file at a time and one destroy (`OneFile`; finding 3 and the table above show what
  happens otherwise).  `Inv` says who has what: a call that opens or closes has the file
  for itself (`PlaceInv`), the two possible references are those of the device's
  registration and of its file (`RefInv`), the one endpoint is stored or about to be
  (`EptInv`), and the queue has messages of it only (`QueueInv`).  `NoLostReader` is
  inductive on top of it.
- What remains of `NotFreedInUse` with more files.  `SendsOnLiveCorrect`: a send has a
  live endpoint, with any files and any number of destroys, from `PointersInv`: every
  pointer to an endpoint leads to one that is alive, and only the holder of `ept_lock`
  destroys one.  `DeviceKeptCorrect`: the device is not freed under a file or a call, with
  finitely many files and one destroy, from `CountInv` (each file has one reference from
  open to the end of release; `UsedStep`).  `NotFreedUnlessOrphan`: the whole of
  `NotFreedInUse`, in every behaviour where no open overwrites the endpoint of another
  (`NoOrphanEndpoint`), so finding 3 is the only way to it.

`DemoProofs`, on `ModuleLife`, for any majors of the kernel, any command lines, any
number of loads and of failing calls: `HandlersServedCorrect`, `OwnNumbersCorrect`,
`NothingRegisteredCorrect`, `RegionsKeptCorrect` and `CleanNeverDies`.

- `Table` collects what the argument needs to know of the table of a module: that every
  registered thing is given back, in the right order, that an init which returns an
  error has made no device by then, that numbers are registered once and first.  It is
  proved of each of the sixteen tables (`Tables`), and nothing after that looks into
  them again, so a change of a module is a change of one short proof.  Where a module
  is excepted by name, it is because its table fails one of these facts.
- `IInv` says of every thing that a module has taken at which step of its init it did,
  and that the rest of its exit still comes to it (`AtPlace`, in `CdevPlace`,
  `HeldPlace` and `RegionPlace`; `FilesPlace` for who has its device open).  That gives
  the half of `HandlersServed` about unloaded code, and `NothingRegistered`.
- `CleanHas` is the converse for modules without failures: what a step of init has
  taken, and no step of exit has given back, is there.  That gives the other half of
  `HandlersServed`, and that no such module dies.
- `OwnRegion` says that a module that nobody has robbed, and that is not one of the two
  whose init passes over a failed registration, has the numbers its variables name.
  `unregister_chrdev_region` takes whatever has these numbers, so with `Apart` (no number
  is registered twice) it takes nobody else's: that is `RegionsKept`, and with `CdevPlace`
  it is `OwnNumbers`.

TLC checked `IInv` on the run before it was proved.  The last exception of
`OwnNumbers` came out of the proof: the invariant did not survive a second load of
moduleIrqRegist after a failed one, and the run had not given that module a minor
number.  It does now.

`DemoProofs`, on `HelloDev`, for any threads and any number of writes (a thread may even
read, write and open): `NothingOverlookedCorrect`.  The threads share buffers and flag
without a lock, so the invariant (`Accounted`) says for each half of the buffer who
still owes it its reading: `enable_read` if it is set, a write that will set it, or a
read that has cleared it and has not come to that half yet.  That hello_read clears
the flag *before* it takes the data, and hello_write sets it *after*, is what each step
of the proof uses.

`MemMapProofs`, for any width of addresses, page size and threads: `WriteExactCorrect`,
`MmapExactCorrect` and `LibExactCorrect`, of `LibSpec` (which every behaviour of `MemMap`
satisfies).  A call has transferred the bytes just before its position (`Contiguous`);
a piece lies in its page (`PieceInPage`), so all of it is transferred (`TransferExact`).
`RefusedExact` shows the two checks of `mem_map_mmap` to be right by cases of the page
number; `AlignedInPage` is why the library's mapped read is safe at aligned addresses.

Assumptions are the named `ASSUME`s of the modules, which only say that sizes are
natural numbers, that senders, receive buffers, files and endpoint devices are finitely
many, that NULL is none of the objects, that the number of buffers is even, and that a
page is a positive number of 4-byte words that divides the memory (`PowersAssumption`:
arithmetic of powers of two, which the prover does not have), that only the six modules
with the parameters `numdev_major` and `numdev_minor` are given any, natural numbers
(`ParamAssumption`); and those named above for some theorems: `NoCallback = {}`, one
device, `OneFile`, `OneDestroy` and finitely many files, and the conditions on behaviours
`NotRebound`, `NoClash` and `NoOrphanEndpoint`.

Only model-checked: the liveness properties (`SendReturns`, `DestroyReturns`,
`MessagesDigested`, `DestroyCompletes`, `ReadReturns`), as the prover does not handle
fairness and `ENABLED`.  Every invariant and every action property of a passing run is
proved.  No module declares a RECURSIVE operator.

## 6. What is not modelled

- The contents and lengths of messages, but for the oversized one; `sg` lists,
  address translation and DMA mappings; formatting, sysfs `show` functions, uevents,
  logging.
- Power domains (core.c 457, 503), which are calls into the kernel core, and the
  announce functions (bus.c 358-404): `rpmsg_create_channel` leaves `announce` FALSE
  for every channel that `rpmsg_ns_cb` creates.
- `virtqueue_kick` and `virtqueue_notify`, which tell the remote processor to look at
  the ring, as nothing is assumed of when it does.
- `create_rpmsg_chrdev` (bus.c 1101-1131), built only when `TEST` is defined.
- What the driver relies on is modelled from its use and marked external in
  `PROJECT.json`: virtqueues, the remote processor, `ida`, references, `kobj_map`.
- The user-space test programs, which make a few calls in sequence and check nothing.
- In the demo modules, the file operations themselves: those of moduleCharDriver and
  moduleIrqRegist copy to and from a buffer of 1024 bytes without synchronisation, the
  others print or set a pin.
- Device nodes (`ModuleLife` keeps classes, not nodes), and the interrupts of
  moduleIrqRegist, which only code that is commented out requests.

## 7. Plan

Modelled first was the rpmsg bus, as every other part that has concurrency stands on
it; then the modules on their own.  What is left, in this order:

1. *Compositions.*  An endpoint device over the life of its channel: an open that
   uses `eptdev->rpdev` after the channel is gone (char.c 132), senders asleep in
   `sendq` when `rpmsg_remove` frees the `virtproc_info`.  `RpmsgChannel` and
   `RpmsgProbe` together, for what `rpmsg_remove` still leaves to the callback.
2. *An abstract specification of the endpoint device*: a queue per open, read in
   order, and `RpmsgChar` shown to implement it while there is one file.
3. *`driver_override`* strings with their lifetime (core.c 329-364).

## 8. Running

    tlc -workers 2 -config RpmsgTx.cfg MCRpmsgTx
    tlapm RpmsgTxProofs.tla

Each run takes at most a few minutes; each module of proofs takes several.
