------------------------------ MODULE ModuleLife ------------------------------
(***************************************************************************)
(* insmod and rmmod of the demonstration modules and of rpmsg_char,        *)
(* several at a time: what their init functions and probes take from the   *)
(* kernel, in which order, what they do when a step fails, and what their  *)
(* exit functions and removes give back.                                   *)
(*                                                                         *)
(* A module is a table: the steps of its init, each with the reaction to   *)
(* its failure, the steps of its exit, and what its file operations use.   *)
(* Steps of different modules interleave; each is one call of the kernel.  *)
(* Reactions:                                                              *)
(*   ignore   the next step is taken all the same                          *)
(*   stop     the rest is skipped and init returns 0                       *)
(*   forget   the same, and exit will find nothing to give back            *)
(*   abort    init returns an error, and what it has taken stays           *)
(*   unwind   the same, after unregister_chrdev_region                     *)
(*   back     init gives back what it has taken, last first, as exit does  *)
(*   die      the missing memory is written to: an oops                    *)
(*                                                                         *)
(* Device nodes are not kept: without its class device_create makes none,  *)
(* and device_destroy dereferences the error pointer instead of the class. *)
(***************************************************************************)
EXTENDS Integers, Sequences, FiniteSets

CONSTANTS
  DynMajors,   \* majors the kernel hands out
  GivenMajors, \* GivenMajors[m]: values of numdev_major on m's command line, 0 if none
  GivenMinors, \* GivenMinors[m]: values of numdev_minor on it, 0 if none
  Span,        \* minors that register_chrdev takes, 256 in the kernel
  MaxLoads,    \* bound on the number of insmods
  MaxFaults    \* bound on the number of calls that fail for want of memory

ASSUME ModuleLifeAssumption ==
  /\ DynMajors \subseteq Nat \ {0}
  /\ Span \in Nat \ {0} /\ MaxLoads \in Nat /\ MaxFaults \in Nat

Get(op, arg, fail) == [op |-> op, arg |-> arg, fail |-> fail]
Put(op, arg)       == [op |-> op, arg |-> arg]

-----------------------------------------------------------------------------
(* The modules.                                                             *)

\* The loop over the minors, with reg_init_cdev.
CdevLoop ==
  <<Get("mem", "data0", "die"), Get("cdev", 0, "ignore"),
    Get("mem", "data1", "die"), Get("cdev", 1, "ignore")>>

CharInit_RegionIgnored ==
  <<Get("region", 2, "ignore"), Get("class", "myDCdev", "ignore"),
    Get("mem", "my_devices", "unwind")>> \o CdevLoop

CharInit_RegionUnwound ==
  <<Get("region", 2, "unwind"), Get("class", "myDCdev", "ignore"),
    Get("mem", "my_devices", "unwind")>> \o CdevLoop

CharInit ==
  <<Get("region", 2, "abort"), Get("class", "myDCdev", "ignore"),
    Get("mem", "my_devices", "unwind")>> \o CdevLoop

NodesGone == <<Put("cdev", 0), Put("node", "myDCdev"),
               Put("cdev", 1), Put("node", "myDCdev")>>

CharExit_ClassKept == NodesGone \o <<Put("mem", "my_devices"), Put("region", 2)>>

CharExit ==
  NodesGone \o <<Put("class", "myDCdev"), Put("mem", "my_devices"), Put("region", 2)>>

\* Its read and write are the only ones to use the data of the device.
CharDriver == [init |-> CharInit, exit |-> CharExit, uses |-> {"my_devices", "data0"}]

CreateCharNode == [init |-> CharInit, exit |-> CharExit, uses |-> {}]

\* No class, and my_devices is not freed.
RegistCdev ==
  [init |-> <<Get("region", 2, "abort"), Get("mem", "my_devices", "unwind")>> \o CdevLoop,
   exit |-> <<Put("cdev", 0), Put("cdev", 1), Put("region", 2)>>,
   uses |-> {}]

\* The GPIOs are not freed; the interrupts that exit frees are requested only
\* by code that is commented out.
IrqRegist ==
  [init |-> CharInit \o <<Get("gpio", "GPX1(1)", "abort"), Get("gpio", "GPX1(2)", "abort")>>,
   exit |-> CharExit,
   uses |-> {"my_devices", "data0"}]

DCdevNum == [init |-> <<Get("region", 2, "ignore")>>, exit |-> <<Put("region", 2)>>,
             uses |-> {}]

\* Without numdev_major it registers nothing.
SCdevNum == [init |-> <<Get("static", 2, "ignore")>>, exit |-> <<Put("region", 2)>>,
             uses |-> {}]

DriverLEDS_MiscFirst ==
  [init |-> <<Get("driver", "hello_ctl", "stop"), Get("misc", "hello_misc_device", "ignore"),
              Get("gpio", "GPL2(0)", "stop")>>,
   exit |-> <<Put("misc", "hello_misc_device"), Put("driver", "hello_ctl")>>,
   uses |-> {"GPL2(0)"}]

\* platform_driver_register probes the board's device, and unregistering the
\* driver removes it; a failed probe leaves the driver registered.
DriverLEDS ==
  [init |-> <<Get("driver", "hello_ctl", "stop"), Get("gpio", "GPL2(0)", "stop"),
              Get("misc", "hello_misc_device", "ignore")>>,
   exit |-> <<Put("misc", "hello_misc_device"), Put("driver", "hello_ctl")>>,
   uses |-> {"GPL2(0)"}]

MiscDriverRegist ==
  [init |-> <<Get("driver", "hello_ctl", "stop"),
              Get("misc", "hello_misc_device", "ignore")>>,
   exit |-> <<Put("misc", "hello_misc_device"), Put("driver", "hello_ctl")>>,
   uses |-> {}]

DriverRegist == [init |-> <<Get("driver", "hello_ctl", "stop")>>, exit |-> <<>>, uses |-> {}]

OnlyMiscDriverRegist ==
  [init |-> <<Get("misc", "hello_only_misc_device", "ignore")>>,
   exit |-> <<Put("misc", "hello_only_misc_device")>>, uses |-> {}]

Param ==
  [init |-> <<Get("misc", "hello_only_misc_device", "ignore")>>,
   exit |-> <<Put("misc", "hello_only_misc_device")>>, uses |-> {}]

\* InitMyDev, hello_init and hello_exit.  pOutputData, pInputData and what is
\* initialised after them are "buffers"; hello_init goes on without them.
Hello ==
  [init |-> <<Get("mem", "myDev", "die"), Get("mem", "buffers", "ignore"),
              Get("region", 1, "ignore"), Get("class", "HELLO_MODULE", "ignore"),
              Get("cdev", 0, "abort")>>,
   exit |-> <<Put("cdev", 0), Put("node", "HELLO_MODULE"), Put("class", "HELLO_MODULE"),
              Put("region", 1), Put("mem", "buffers"), Put("mem", "myDev")>>,
   uses |-> {"myDev", "buffers"}]

\* mem_map_init ignores what chr_dev_init returns, and mem_map_dev, which
\* release_mem_map_resource goes by, is only filled in at its end.
MemMapDev ==
  [init |-> <<Get("chrdev", Span, "forget"), Get("class", "mem_map", "forget"),
              Get("node", "mem_map", "forget")>>,
   exit |-> <<Put("node", "mem_map"), Put("class", "mem_map"), Put("chrdev", Span)>>,
   uses |-> {}]

PlatformDev == [init |-> <<Get("pdev", "platform_test", "stop")>>,
                exit |-> <<Put("pdev", "platform_test")>>, uses |-> {}]

PlatformDrv == [init |-> <<Get("driver", "platform_test", "stop")>>,
                exit |-> <<Put("driver", "platform_test")>>, uses |-> {}]

\* All the minors of a major.
RPMSG_DEV_MAX == 2 * Span

\* rpmsg_char_init and rpmsg_chrdev_exit; the cdevs come with the devices that
\* are probed (RpmsgCtrl).
RpmsgCharDrv ==
  [init |-> <<Get("region", RPMSG_DEV_MAX, "abort"), Get("class", "rpmsg", "back"),
              Get("driver", "rpmsg_chrdev", "back")>>,
   exit |-> <<Put("driver", "rpmsg_chrdev"), Put("class", "rpmsg"),
              Put("region", RPMSG_DEV_MAX)>>,
   uses |-> {}]

Code == [CharDriver |-> CharDriver, CreateCharNode |-> CreateCharNode,
         RegistCdev |-> RegistCdev, IrqRegist |-> IrqRegist, DCdevNum |-> DCdevNum,
         SCdevNum |-> SCdevNum, DriverLEDS |-> DriverLEDS,
         MiscDriverRegist |-> MiscDriverRegist, DriverRegist |-> DriverRegist,
         OnlyMiscDriverRegist |-> OnlyMiscDriverRegist, Param |-> Param,
         Hello |-> Hello, MemMapDev |-> MemMapDev,
         PlatformDev |-> PlatformDev, PlatformDrv |-> PlatformDrv,
         RpmsgCharDrv |-> RpmsgCharDrv]

Modules == DOMAIN Code

\* The modules with the parameters numdev_major and numdev_minor.
Parameterised ==
  {"CharDriver", "CreateCharNode", "RegistCdev", "IrqRegist", "DCdevNum", "SCdevNum"}

ASSUME ParamAssumption ==
  /\ GivenMajors \in [Modules -> SUBSET Nat] /\ GivenMinors \in [Modules -> SUBSET Nat]
  /\ \A m \in Modules \ Parameterised : GivenMajors[m] = {0} /\ GivenMinors[m] = {0}

-----------------------------------------------------------------------------
VARIABLES
  stage,   \* of each module; "forgot" is live with an exit that does nothing
  step,    \* the next step of a module's init or exit
  clean,   \* modules whose inits have met no failure yet
  numdev,  \* numdev_major (HELLO_MODULE and mem_map: the number they got) and minor
  held,    \* names registered, and memory that the module still has a pointer to
  regions, \* device numbers registered, with the module that did
  cdevs,   \* device numbers with the cdev that serves them
  files,   \* modules whose device somebody has open
  robbed,  \* modules that lost device numbers to another module's exit
  loads, faults

vars == <<stage, step, clean, numdev, held, regions, cdevs, files, robbed, loads, faults>>

Init ==
  /\ stage = [m \in Modules |-> "out"] /\ step = [m \in Modules |-> 1]
  /\ clean = Modules /\ files = {} /\ robbed = {} /\ regions = {} /\ cdevs = {}
  /\ numdev = [m \in Modules |-> [major |-> 0, minor |-> 0]]
  /\ held = [m \in Modules |-> {}]
  /\ loads = 0 /\ faults = 0

-----------------------------------------------------------------------------
(* The kernel's registries.                                                 *)

Numbers(m, major, base, n) == [mod |-> m, major |-> major, base |-> base, n |-> n]

Overlap(r, s) ==
  r.major = s.major /\ r.base < s.base + s.n /\ s.base < r.base + r.n

Named == {"class", "misc", "driver", "gpio", "pdev"}

Taken(s) == \E m \in Modules : <<s.op, s.arg>> \in held[m]

\* What register_chrdev_region registers for a given major, and
\* alloc_chrdev_region, on a major without any numbers, for none.
Free(m, n) ==
  LET majors == IF numdev[m].major # 0 THEN {numdev[m].major}
                ELSE {d \in DynMajors : \A r \in regions : r.major # d}
  IN {r \in {Numbers(m, d, numdev[m].minor, n) : d \in majors} :
        \A q \in regions : ~Overlap(q, r)}

\* unregister_chrdev_region takes the entry with exactly these numbers,
\* whoever registered it.
Unregister(m, n) ==
  LET gone == {r \in regions : [r EXCEPT !.mod = m]
                                 = Numbers(m, numdev[m].major, numdev[m].minor, n)}
  IN /\ regions' = regions \ gone
     /\ robbed' = robbed \cup ({r.mod : r \in gone} \ {m})

-----------------------------------------------------------------------------
(* insmod                                                                   *)

\* The module's static variables get their values from the command line.
Insmod(m, major, minor) ==
  /\ stage[m] = "out" /\ loads < MaxLoads
  /\ stage' = [stage EXCEPT ![m] = "init"]
  /\ step' = [step EXCEPT ![m] = 1]
  /\ numdev' = [numdev EXCEPT ![m] = [major |-> major, minor |-> minor]]
  /\ loads' = loads + 1
  /\ UNCHANGED <<clean, held, regions, cdevs, files, robbed, faults>>

\* On to the next step; after the last one the module is in another stage.
Advance(m, script, end) ==
  IF step[m] = Len(script)
    THEN stage' = [stage EXCEPT ![m] = end] /\ step' = [step EXCEPT ![m] = 1]
    ELSE step' = [step EXCEPT ![m] = @ + 1] /\ UNCHANGED stage

Register(m, s) ==
  /\ s.op \in {"region", "chrdev"} \/ (s.op = "static" /\ numdev[m].major # 0)
  /\ \E r \in Free(m, s.arg) :
       /\ regions' = regions \cup {r}
       /\ numdev' = [numdev EXCEPT ![m].major = r.major]
       /\ cdevs' = IF s.op = "chrdev" THEN cdevs \cup {r} ELSE cdevs
  /\ UNCHANGED held

\* cdev_add takes any number.
AddCdev(m, s) ==
  /\ s.op = "cdev"
  /\ cdevs' = cdevs \cup {Numbers(m, numdev[m].major, s.arg, 1)}
  /\ UNCHANGED <<numdev, held, regions>>

\* Memory, or a name that nobody has registered.
Hold(m, s) ==
  /\ s.op = "mem" \/ (s.op \in Named /\ ~Taken(s))
  /\ held' = [held EXCEPT ![m] = @ \cup {<<s.op, s.arg>>}]
  /\ UNCHANGED <<numdev, regions, cdevs>>

NothingToDo(m, s) ==
  /\ s.op = "node" \/ (s.op = "static" /\ numdev[m].major = 0)
  /\ UNCHANGED <<numdev, held, regions, cdevs>>

InitStep(m) ==
  /\ stage[m] = "init"
  /\ LET s == Code[m].init[step[m]] IN
       Register(m, s) \/ AddCdev(m, s) \/ Hold(m, s) \/ NothingToDo(m, s)
  /\ Advance(m, Code[m].init, "live")
  /\ UNCHANGED <<clean, files, robbed, loads, faults>>

Refused(m, s) ==
  \/ s.op \in Named /\ Taken(s)
  \/ s.op \in {"region", "static", "chrdev"} /\ Free(m, s.arg) = {}

\* numdev_major is set from num_dev even if alloc_chrdev_region has failed and
\* not written to it.
MajorAfterFailure(m, s) ==
  IF s.op = "region" /\ numdev[m].major = 0
       /\ m \notin {"Hello", "RpmsgCharDrv"}
    THEN {0} \cup DynMajors \cup UNION {GivenMajors[k] : k \in Modules}
    ELSE {numdev[m].major}

After == [stop |-> "live", forget |-> "forgot", die |-> "dead", back |-> "exit",
          abort |-> "out", unwind |-> "out"]

\* When the code is gone, so is every pointer to memory it had.
DropPointers(m) == [held EXCEPT ![m] = {h \in @ : h[1] \in Named}]

InitFails(m) ==
  /\ stage[m] = "init"
  /\ LET s == Code[m].init[step[m]] IN
     /\ s.op = "static" => numdev[m].major # 0
     /\ Refused(m, s) \/ faults < MaxFaults
     /\ faults' = IF Refused(m, s) THEN faults ELSE faults + 1
     /\ \E major \in MajorAfterFailure(m, s) :
          numdev' = [numdev EXCEPT ![m].major = major]
     /\ IF s.fail = "ignore" THEN Advance(m, Code[m].init, "live")
        ELSE /\ stage' = [stage EXCEPT ![m] = After[s.fail]]
             /\ step' = [step EXCEPT ![m] =
                            IF s.fail = "back" THEN Len(Code[m].exit) + 2 - @ ELSE 1]
     /\ IF s.fail = "unwind" THEN Unregister(m, 2) ELSE UNCHANGED <<regions, robbed>>
     /\ held' = IF s.fail \in {"abort", "unwind"} THEN DropPointers(m) ELSE held
  /\ clean' = clean \ {m}
  /\ UNCHANGED <<cdevs, files, loads>>

-----------------------------------------------------------------------------
(* rmmod                                                                    *)

\* Refused while a file of the module is open, as its operations have an owner.
Rmmod(m) ==
  /\ stage[m] \in {"live", "forgot"} /\ m \notin files
  /\ IF stage[m] = "forgot" \/ Code[m].exit = <<>>
       THEN stage' = [stage EXCEPT ![m] = "out"] /\ held' = DropPointers(m)
       ELSE stage' = [stage EXCEPT ![m] = "exit"] /\ UNCHANGED held
  /\ UNCHANGED <<step, clean, numdev, regions, cdevs, files, robbed, loads, faults>>

\* One step of the exit function; a name that is not held is not given back.
ExitStep(m) ==
  /\ stage[m] = "exit"
  /\ LET s == Code[m].exit[step[m]]
         oops == \/ s.op = "node" /\ <<"class", s.arg>> \notin held[m]
                 \/ s.op = "pdev" /\ <<"pdev", s.arg>> \notin held[m]
         last == step[m] = Len(Code[m].exit)
     IN
     /\ IF oops THEN stage' = [stage EXCEPT ![m] = "dead"] /\ UNCHANGED step
                ELSE Advance(m, Code[m].exit, "out")
     /\ IF s.op \in {"region", "chrdev"} THEN Unregister(m, s.arg)
                                         ELSE UNCHANGED <<regions, robbed>>
     /\ cdevs' = IF s.op \in {"cdev", "chrdev"}
                   THEN {c \in cdevs : c.mod # m \/ c.major # numdev[m].major
                                         \/ (s.op = "cdev" /\ c.base # s.arg)}
                   ELSE cdevs
     /\ held' = [held EXCEPT ![m] = (IF last THEN DropPointers(m)[m] ELSE @)
                                      \ {<<s.op, s.arg>>}]
  /\ UNCHANGED <<clean, numdev, files, loads, faults>>

-----------------------------------------------------------------------------
(* Users of the devices.                                                    *)

\* The modules the kernel reaches through a device: a cdev or a misc device.
Reachable == {c.mod : c \in cdevs}
             \cup {m \in Modules : \E h \in held[m] : h[1] = "misc"}

\* The kernel takes a reference on the module, unless it is on its way out.
OpenFile(m) ==
  /\ m \in Reachable \ files /\ stage[m] \in {"init", "live", "forgot"}
  /\ files' = files \cup {m}
  /\ UNCHANGED <<stage, step, clean, numdev, held, regions, cdevs, robbed, loads, faults>>

CloseFile(m) ==
  /\ m \in files /\ stage[m] # "out"
  /\ files' = files \ {m}
  /\ UNCHANGED <<stage, step, clean, numdev, held, regions, cdevs, robbed, loads, faults>>

-----------------------------------------------------------------------------
Next ==
  \E m \in Modules :
     \/ \E major \in GivenMajors[m], minor \in GivenMinors[m] : Insmod(m, major, minor)
     \/ InitStep(m) \/ InitFails(m) \/ Rmmod(m) \/ ExitStep(m)
     \/ OpenFile(m) \/ CloseFile(m)

Spec == Init /\ [][Next]_vars

-----------------------------------------------------------------------------
(* Correctness.                                                             *)

TypeOK ==
  /\ stage \in [Modules -> {"out", "init", "live", "forgot", "exit", "dead"}]
  /\ \A m \in Modules :
       /\ stage[m] = "init" => step[m] \in 1 .. Len(Code[m].init)
       /\ stage[m] = "exit" => step[m] \in 1 .. Len(Code[m].exit)
       /\ stage[m] = "out" => \A h \in held[m] : h[1] \in Named
  /\ clean \subseteq Modules /\ files \subseteq Modules /\ robbed \subseteq Modules
  /\ loads \in 0 .. MaxLoads /\ faults \in 0 .. MaxFaults

\* The modules known to leave handlers behind when their code goes: a platform
\* driver never unregistered, cdevs after a failed gpio_request, the device of
\* mem_map after a failed class_create or device_create.
LeaveHandlers == {"DriverRegist", "IrqRegist", "MemMapDev"}

\* What the kernel can call belongs to code that is in memory, and what the
\* operations of a device use is there as long as the device can be reached
\* and no init of the module has met a failure.
HandlersServed ==
  /\ TypeOK
  /\ \A m \in Modules \ LeaveHandlers :
       IF stage[m] = "out"
         THEN m \notin Reachable \cup files /\ \A h \in held[m] : h[1] # "driver"
         ELSE m \in (Reachable \cup files) \cap clean =>
                \A u \in Code[m].uses : \E h \in held[m] : h[2] = u

\* A cdev serves numbers that its own module has registered, so that opening
\* them reaches nobody else.  Four ways to fail are known: a numdev_minor
\* other than 0, which the cdevs do not follow; numbers that another module's
\* exit has unregistered; HELLO_MODULE without a region, on major 0; and the
\* cdevs that moduleIrqRegist left behind when a gpio_request failed, which a
\* later load with another numdev_minor does not know of.
OwnNumbers ==
  \A c \in cdevs :
     \/ \E r \in regions : /\ r.mod = c.mod /\ r.major = c.major
                            /\ r.base <= c.base /\ c.base + c.n <= r.base + r.n
     \/ numdev[c.mod].minor # 0 \/ c.mod \in robbed \/ c.major = 0
     \/ c.mod = "IrqRegist" /\ c.mod \notin clean

\* A module whose loads met no failure has left nothing registered when it is
\* removed, but for the GPIOs and the driver that no exit gives back.  For
\* rpmsg_char the same holds of a load that failed half-way.
NothingRegistered ==
  \A m \in clean \cup {"RpmsgCharDrv"} :
     stage[m] = "out" =>
       /\ \A h \in held[m] : h[1] = "gpio" \/ m = "DriverRegist"
       /\ \A r \in regions \cup cdevs : r.mod # m

\* The step is one of m's init or exit.
Moves(m) == <<stage[m], step[m]>>' # <<stage[m], step[m]>>

\* Numbers that a module has registered are taken away only by its own init or
\* exit, by the two modules whose init returns 0 although it could not register
\* any, or by one that has itself been robbed by them.
RegionsKept ==
  [][\A r \in regions \ regions' :
       \/ Moves(r.mod)
       \/ \E m \in robbed \cup ({"DCdevNum", "SCdevNum"} \ clean) : Moves(m)]_vars
=============================================================================
