------------------------------ MODULE DemoProofs ------------------------------
(***************************************************************************)
(* Proofs about the demonstration modules: about their inits and exits     *)
(* (ModuleLife), for any majors, command lines, number of loads and number *)
(* of failures, and at the end about the device HELLO_MODULE (HelloDev),   *)
(* for any threads and any number of writes.                               *)
(*                                                                         *)
(* The argument about ModuleLife is in two parts.  Table collects what it  *)
(* needs of the sixteen tables, and nothing that follows looks into them   *)
(* again.  IInv says of every thing that a module has taken at which place *)
(* of its init the module took it, and that the rest of its exit still     *)
(* comes to give it back.                                                  *)
(***************************************************************************)
EXTENDS ModuleLife, HelloDev, SequenceTheorems, TLAPS

\* The two scripts of a module.
Ini(m) == Code[m].init
Exi(m) == Code[m].exit

\* The steps of an init that register numbers.
RegionOps == {"region", "static", "chrdev"}

\* What gives back what an init step has taken.
Opposite(op) == IF op = "static" THEN "region" ELSE op

\* m has taken this in its current load, and will come to give it back.
AtPlace(m, op, arg) ==
  /\ stage[m] # "out"
  /\ \E i \in 1 .. Len(Ini(m)) :
       /\ Ini(m)[i].op = op /\ Ini(m)[i].arg = arg
       /\ stage[m] = "init" => i < step[m]
  /\ stage[m] = "exit" =>
       \E k \in step[m] .. Len(Exi(m)) : Exi(m)[k].op = Opposite(op) /\ Exi(m)[k].arg = arg

\* Modules that leave nothing behind; the ones whose cdevs are followed; and the names
\* that are, of each module.
Neat == clean \cup {"RpmsgCharDrv"}

CdevGood == (Modules \ {"IrqRegist", "MemMapDev"}) \cup clean

Tracked(m, op) ==
  /\ m # "DriverRegist"
  /\ \/ m \notin LeaveHandlers /\ op \in {"misc", "driver"}
     \/ m \in Neat /\ op \in {"class", "misc", "driver", "pdev"}

\* Cdevs, names and numbers that are followed are in their place, the numbers being
\* the ones in the module's variables.
CdevPlace ==
  \A c \in cdevs : c.mod \in CdevGood =>
    /\ c.major = numdev[c.mod].major
    /\ \/ AtPlace(c.mod, "cdev", c.base) /\ c.n = 1
       \/ AtPlace(c.mod, "chrdev", c.n)

HeldPlace ==
  \A m \in Modules : \A h \in held[m] : Tracked(m, h[1]) => AtPlace(m, h[1], h[2])

RegionPlace ==
  \A r \in regions : r.mod \in Neat =>
    /\ r.major = numdev[r.mod].major /\ r.base = numdev[r.mod].minor
    /\ \E op \in RegionOps : AtPlace(r.mod, op, r.n)

\* A module with an open file is in, and has come past making its device.
FilesPlace ==
  \A m \in files \ LeaveHandlers :
    /\ stage[m] \notin {"out", "exit"}
    /\ \E i \in 1 .. Len(Ini(m)) :
         /\ Ini(m)[i].op \in {"cdev", "misc"}
         /\ stage[m] = "init" => i < step[m]

\* Step i of m's init is done, and no exit step has undone it.
Standing(m, i) ==
  /\ stage[m] # "out"
  /\ stage[m] = "init" => i < step[m]
  /\ stage[m] = "exit" =>
       \A k \in 1 .. step[m] - 1 :
         ~(Exi(m)[k].op = Ini(m)[i].op /\ Exi(m)[k].arg = Ini(m)[i].arg)

\* A module that met no failure holds what is standing.
CleanHas ==
  \A m \in clean :
    /\ stage[m] \notin {"dead", "forgot"}
    /\ \A i \in 1 .. Len(Ini(m)) :
         Ini(m)[i].op \in Named \cup {"mem"} /\ Standing(m, i) =>
           <<Ini(m)[i].op, Ini(m)[i].arg>> \in held[m]

\* m has come past registering its numbers, and not to unregistering them.
Numbered(m, i) ==
  \/ stage[m] = "init" /\ i < step[m]
  \/ stage[m] = "live"
  \/ stage[m] = "exit" /\ \E k \in step[m] .. Len(Exi(m)) : Exi(m)[k].op \in {"region", "chrdev"}
  \/ stage[m] = "dead" /\ \E c \in cdevs : c.mod = m

\* m may come to unregister numbers that it has not got.
Careless(m) == m \in {"DCdevNum", "SCdevNum"} \ clean

\* A module that nobody has robbed has its own numbers.
OwnRegion ==
  \A m \in Modules \ robbed : ~Careless(m) /\ numdev[m].major # 0 =>
    \A i \in 1 .. Len(Ini(m)) :
      Ini(m)[i].op \in RegionOps /\ Numbered(m, i) =>
        Numbers(m, numdev[m].major, numdev[m].minor, Ini(m)[i].arg) \in regions

\* HELLO_MODULE has no parameter for its major.
HelloZero == stage["Hello"] = "init" /\ step["Hello"] <= 3 => numdev["Hello"].major = 0

\* The cdev of mem_map is made with the numbers, and they go together.
MemMapOwn == \A c \in cdevs : c.mod = "MemMapDev" /\ c.mod \notin robbed => c \in regions

\* No number is registered twice.
Apart ==
  \A r, s \in regions : r # s => ~Overlap(r, s)

\* The one module that forgets.
ForgotOne == \A m \in Modules : stage[m] = "forgot" => m = "MemMapDev"

\* What is in regions and cdevs.
Records == [mod : Modules, major : Nat, base : Nat, n : Nat \ {0}]

Shape ==
  /\ stage \in [Modules -> {"out", "init", "live", "forgot", "exit", "dead"}]
  /\ step \in [Modules -> Nat]
  /\ \A m \in Modules :
       /\ stage[m] = "init" => step[m] \in 1 .. Len(Ini(m))
       /\ stage[m] = "exit" => step[m] \in 1 .. Len(Exi(m))
       /\ stage[m] \in {"live", "forgot"} => step[m] = 1
       /\ \A h \in held[m] : h = <<h[1], h[2]>> /\ h[1] \in Named \cup {"mem"}
       /\ stage[m] = "out" => \A h \in held[m] : h[1] \in Named
  /\ clean \subseteq Modules /\ files \subseteq Modules /\ robbed \subseteq Modules
  /\ numdev \in [Modules -> [major : Nat, minor : Nat]]
  /\ DOMAIN held = Modules
  /\ regions \subseteq Records /\ cdevs \subseteq Records
  /\ loads \in 0 .. MaxLoads /\ faults \in 0 .. MaxFaults
  /\ \A r \in regions : r.major # 0

IInv == /\ Shape /\ Apart /\ ForgotOne /\ CdevPlace /\ HeldPlace /\ RegionPlace /\ FilesPlace
        /\ CleanHas /\ OwnRegion /\ HelloZero /\ MemMapOwn
-----------------------------------------------------------------------------
(* Facts about the tables.                                                  *)

ModuleNames ==
  {"CharDriver", "CreateCharNode", "RegistCdev", "IrqRegist", "DCdevNum", "SCdevNum",
   "DriverLEDS", "MiscDriverRegist", "DriverRegist", "OnlyMiscDriverRegist", "Param",
   "Hello", "MemMapDev", "PlatformDev", "PlatformDrv", "RpmsgCharDrv"}

\* Scripts consist of known steps.
TableShape(init, exit) ==
  /\ Len(init) \in Nat /\ Len(init) > 0 /\ Len(exit) \in Nat
  /\ \A i \in 1 .. Len(init) :
       /\ init[i].op \in RegionOps \cup Named \cup {"mem", "cdev", "node"}
       /\ init[i].fail \in {"ignore", "stop", "forget", "abort", "unwind", "back", "die"}
       /\ init[i].op \in RegionOps => init[i].arg \in Nat \ {0}
       /\ init[i].op = "cdev" => init[i].arg \in Nat
  /\ \A k \in 1 .. Len(exit) :
       /\ exit[k].op \in RegionOps \cup Named \cup {"mem", "cdev", "node"}
       /\ exit[k].op \in RegionOps => exit[k].arg \in Nat \ {0}

\* What is taken by init steps before i, is given back from exit step k0 on.
GivesBack(init, exit, i, k0) ==
  \A j \in 1 .. i - 1 :
     init[j].op \notin {"mem", "node", "gpio"} =>
       \E k \in k0 .. Len(exit) :
          exit[k].op = Opposite(init[j].op) /\ exit[k].arg = init[j].arg

\* What the kernel reaches a module through.
Serving == {"cdev", "chrdev", "misc", "driver"}

\* Failures: an init that returns an error has made no device yet, or gives back all
\* that it has taken; a missing region is not passed over.
TableFail(m, init, exit) ==
  \A i \in 1 .. Len(init) :
    /\ init[i].fail \in {"abort", "unwind", "back"} /\ m \notin LeaveHandlers =>
         \A j \in 1 .. i - 1 : init[j].op \notin Serving
    /\ m = "RpmsgCharDrv" => init[i].fail \in {"abort", "back"}
    /\ init[i].fail = "abort" /\ m = "RpmsgCharDrv" => i = 1
    /\ init[i].fail = "back" =>
         /\ m = "RpmsgCharDrv"
         /\ Len(exit) + 2 - i \in 1 .. Len(exit)
         /\ GivesBack(init, exit, i, Len(exit) + 2 - i)
         /\ \A j \in 1 .. Len(init) : init[j].op \in RegionOps => j < i
    /\ init[i].fail = "forget" => m = "MemMapDev"
    /\ init[i].fail = "stop" => \A j \in 1 .. Len(init) : init[j].op \notin RegionOps
    /\ init[i].fail = "unwind" => m # "MemMapDev"
    /\ init[i].op \in RegionOps =>
         /\ init[i].fail \in {"abort", "ignore", "forget"}
         /\ init[i].fail = "ignore" => m \in {"DCdevNum", "SCdevNum", "Hello"}
    /\ init[i].fail = "unwind" =>
         \E j \in 1 .. i - 1 : init[j].op = "region" /\ init[j].arg = 2
    /\ init[i].fail = "die" =>
         \A j \in 1 .. Len(init) : init[j].op \in RegionOps =>
            j < i \/ (m \notin LeaveHandlers
                       /\ \A l \in 1 .. i - 1 : init[l].op \notin {"cdev", "chrdev"})

\* The steps of an exit that unregister numbers.
Unregisters == {"region", "chrdev"}

\* Numbers: registered once and first, unregistered once and last.
TableRegion(m, init, exit) ==
  /\ \A i, j \in 1 .. Len(init) :
        init[i].op \in RegionOps /\ init[j].op \in RegionOps => i = j
  /\ \A k, l \in 1 .. Len(exit) :
        exit[k].op \in Unregisters /\ exit[l].op \in Unregisters => k = l
  /\ \A k \in 1 .. Len(exit) : exit[k].op \in Unregisters =>
        \E i \in 1 .. Len(init) :
           init[i].op \in RegionOps /\ Opposite(init[i].op) = exit[k].op
             /\ init[i].arg = exit[k].arg
  /\ \A k \in 1 .. Len(exit) : exit[k].op = "region" => m # "MemMapDev"
  /\ \A i \in 1 .. Len(init) :
        /\ init[i].op = "cdev" =>
             \E j \in 1 .. i - 1 : init[j].op = "region" /\ init[i].arg + 1 <= init[j].arg
        /\ init[i].op = "chrdev" => m = "MemMapDev"
        /\ init[i].op = "cdev" => m \notin {"MemMapDev", "DCdevNum", "SCdevNum"}
        /\ init[i].op \in RegionOps /\ m = "Hello" => i = 3
        /\ init[i].op \in RegionOps =>
             \E k \in 1 .. Len(exit) : exit[k].op \in Unregisters
        /\ init[i].op \in RegionOps =>
             \A k \in 1 .. Len(exit) : exit[k].op \in {"cdev", "node", "pdev"} =>
               \E l \in k + 1 .. Len(exit) : exit[l].op \in Unregisters

\* What file operations use is there before the device and goes after it.
TableUses(m, init, exit, uses) ==
  \A u \in uses :
    \E j \in 1 .. Len(init) :
      /\ init[j].op \in Named \cup {"mem"} /\ init[j].arg = u
      /\ \A i \in 1 .. Len(init) : init[i].op \in {"cdev", "misc"} => j < i
      /\ \A k \in 1 .. Len(exit) : exit[k].op \in {"cdev", "misc"} =>
           \A l \in 1 .. k - 1 : ~(exit[l].op = init[j].op /\ exit[l].arg = u)

\* What exit dereferences is made by init and not given back before.
TableOops(init, exit) ==
  \A k \in 1 .. Len(exit) : \A op \in {"class", "pdev"} :
    exit[k].op = (IF op = "class" THEN "node" ELSE op) =>
      \E i \in 1 .. Len(init) :
        /\ init[i].op = op /\ init[i].arg = exit[k].arg
        /\ \A l \in 1 .. k - 1 : ~(exit[l].op = op /\ exit[l].arg = exit[k].arg)

\* exit gives back everything but memory, nodes and GPIOs.
TableExit(m, init, exit) ==
  m # "DriverRegist" => /\ exit # <<>> /\ Len(exit) > 0
                        /\ GivesBack(init, exit, Len(init) + 1, 1)

Table(m, init, exit, uses) ==
  /\ TableShape(init, exit) /\ TableFail(m, init, exit) /\ TableRegion(m, init, exit)
  /\ TableUses(m, init, exit, uses) /\ TableOops(init, exit) /\ TableExit(m, init, exit)

-----------------------------------------------------------------------------
(* The tables.                                                              *)

\* What one sequence after another is, element by element.
LEMMA Joined ==
  ASSUME NEW S, NEW s \in Seq(S), NEW t \in Seq(S), NEW u \in Seq(S),
         Len(u) = Len(s) + Len(t),
         \A i \in 1 .. Len(s) : u[i] = s[i],
         \A i \in 1 .. Len(t) : u[Len(s) + i] = t[i]
  PROVE  s \o t = u
<1>1. /\ s \o t \in Seq(S) /\ Len(s \o t) = Len(s) + Len(t)
      /\ \A i \in 1 .. Len(s) + Len(t) :
           (s \o t)[i] = IF i <= Len(s) THEN s[i] ELSE t[i - Len(s)]
  BY ConcatProperties
<1>2. ASSUME NEW i \in 1 .. Len(u) PROVE (s \o t)[i] = u[i]
  <2>1. Len(s) \in Nat /\ Len(t) \in Nat
    OBVIOUS
  <2>2. CASE i <= Len(s)
    BY <1>1, <2>1, <2>2
  <2>3. CASE ~(i <= Len(s))
    <3>1. i - Len(s) \in 1 .. Len(t) /\ Len(s) + (i - Len(s)) = i
      BY <1>2, <2>1, <2>3
    <3>2. u[i] = t[i - Len(s)]
      BY <3>1
    <3> QED
      BY <1>1, <1>2, <2>1, <2>3, <3>2
  <2> QED
    BY <2>2, <2>3
<1> QED
  BY <1>1, <1>2, SeqEqual

\* The inits and exits that are put together from two parts, written out.
LEMMA CharInitIs ==
  CharInit =
    <<Get("region", 2, "abort"), Get("class", "myDCdev", "ignore"),
      Get("mem", "my_devices", "unwind"), Get("mem", "data0", "die"),
      Get("cdev", 0, "ignore"), Get("mem", "data1", "die"), Get("cdev", 1, "ignore")>>
<1> DEFINE s == <<Get("region", 2, "abort"), Get("class", "myDCdev", "ignore"),
                  Get("mem", "my_devices", "unwind")>>
           u == <<Get("region", 2, "abort"), Get("class", "myDCdev", "ignore"),
                  Get("mem", "my_devices", "unwind"), Get("mem", "data0", "die"),
                  Get("cdev", 0, "ignore"), Get("mem", "data1", "die"),
                  Get("cdev", 1, "ignore")>>
           S == {u[i] : i \in 1 .. 7}
<1>1. /\ s \in Seq(S) /\ CdevLoop \in Seq(S) /\ u \in Seq(S)
      /\ Len(s) = 3 /\ Len(CdevLoop) = 4 /\ Len(u) = 7
  BY DEF CdevLoop
<1>2. /\ \A i \in 1 .. 3 : u[i] = s[i]
      /\ \A i \in 1 .. 4 : u[3 + i] = CdevLoop[i]
  BY DEF CdevLoop
<1>3. CharInit = s \o CdevLoop
  BY DEF CharInit
<1> HIDE DEF s, u, S
<1>4. /\ Len(u) = Len(s) + Len(CdevLoop)
      /\ \A i \in 1 .. Len(s) : u[i] = s[i]
      /\ \A i \in 1 .. Len(CdevLoop) : u[Len(s) + i] = CdevLoop[i]
  BY <1>1, <1>2
<1>5. s \o CdevLoop = u
  BY <1>1, <1>4, Joined, Zenon
<1> QED
  BY <1>3, <1>5 DEF u

LEMMA CharExitIs ==
  CharExit =
    <<Put("cdev", 0), Put("node", "myDCdev"), Put("cdev", 1), Put("node", "myDCdev"),
      Put("class", "myDCdev"), Put("mem", "my_devices"), Put("region", 2)>>
<1> DEFINE s == <<Put("cdev", 0), Put("node", "myDCdev"), Put("cdev", 1),
                  Put("node", "myDCdev")>>
           t == <<Put("class", "myDCdev"), Put("mem", "my_devices"), Put("region", 2)>>
           u == <<Put("cdev", 0), Put("node", "myDCdev"), Put("cdev", 1),
                  Put("node", "myDCdev"), Put("class", "myDCdev"),
                  Put("mem", "my_devices"), Put("region", 2)>>
           S == {u[i] : i \in 1 .. 7}
<1>1. /\ s \in Seq(S) /\ t \in Seq(S) /\ u \in Seq(S)
      /\ Len(s) = 4 /\ Len(t) = 3 /\ Len(u) = 7
  BY DEF NodesGone
<1>2. /\ \A i \in 1 .. 4 : u[i] = s[i]
      /\ \A i \in 1 .. 3 : u[4 + i] = t[i]
  BY DEF NodesGone
<1>3. CharExit = s \o t
  BY DEF CharExit, NodesGone
<1> HIDE DEF s, u, S, t
<1>4. /\ Len(u) = Len(s) + Len(t)
      /\ \A i \in 1 .. Len(s) : u[i] = s[i]
      /\ \A i \in 1 .. Len(t) : u[Len(s) + i] = t[i]
  BY <1>1, <1>2
<1>5. s \o t = u
  BY <1>1, <1>4, Joined, Zenon
<1> QED
  BY <1>3, <1>5 DEF u

LEMMA RegistCdevInitIs ==
  RegistCdev.init =
    <<Get("region", 2, "abort"), Get("mem", "my_devices", "unwind"),
      Get("mem", "data0", "die"), Get("cdev", 0, "ignore"), Get("mem", "data1", "die"),
      Get("cdev", 1, "ignore")>>
<1> DEFINE s == <<Get("region", 2, "abort"), Get("mem", "my_devices", "unwind")>>
           u == <<Get("region", 2, "abort"), Get("mem", "my_devices", "unwind"),
                  Get("mem", "data0", "die"), Get("cdev", 0, "ignore"),
                  Get("mem", "data1", "die"), Get("cdev", 1, "ignore")>>
           S == {u[i] : i \in 1 .. 6}
<1>1. /\ s \in Seq(S) /\ CdevLoop \in Seq(S) /\ u \in Seq(S)
      /\ Len(s) = 2 /\ Len(CdevLoop) = 4 /\ Len(u) = 6
  BY DEF CdevLoop
<1>2. /\ \A i \in 1 .. 2 : u[i] = s[i]
      /\ \A i \in 1 .. 4 : u[2 + i] = CdevLoop[i]
  BY DEF CdevLoop
<1>3. RegistCdev.init = s \o CdevLoop
  BY DEF RegistCdev
<1> HIDE DEF s, u, S
<1>4. /\ Len(u) = Len(s) + Len(CdevLoop)
      /\ \A i \in 1 .. Len(s) : u[i] = s[i]
      /\ \A i \in 1 .. Len(CdevLoop) : u[Len(s) + i] = CdevLoop[i]
  BY <1>1, <1>2
<1>5. s \o CdevLoop = u
  BY <1>1, <1>4, Joined, Zenon
<1> QED
  BY <1>3, <1>5 DEF u

LEMMA IrqRegistInitIs ==
  IrqRegist.init =
    <<Get("region", 2, "abort"), Get("class", "myDCdev", "ignore"),
      Get("mem", "my_devices", "unwind"), Get("mem", "data0", "die"),
      Get("cdev", 0, "ignore"), Get("mem", "data1", "die"), Get("cdev", 1, "ignore"),
      Get("gpio", "GPX1(1)", "abort"), Get("gpio", "GPX1(2)", "abort")>>
<1> DEFINE s == <<Get("region", 2, "abort"), Get("class", "myDCdev", "ignore"),
                  Get("mem", "my_devices", "unwind"), Get("mem", "data0", "die"),
                  Get("cdev", 0, "ignore"), Get("mem", "data1", "die"),
                  Get("cdev", 1, "ignore")>>
           t == <<Get("gpio", "GPX1(1)", "abort"), Get("gpio", "GPX1(2)", "abort")>>
           u == <<Get("region", 2, "abort"), Get("class", "myDCdev", "ignore"),
                  Get("mem", "my_devices", "unwind"), Get("mem", "data0", "die"),
                  Get("cdev", 0, "ignore"), Get("mem", "data1", "die"),
                  Get("cdev", 1, "ignore"), Get("gpio", "GPX1(1)", "abort"),
                  Get("gpio", "GPX1(2)", "abort")>>
           S == {u[i] : i \in 1 .. 9}
<1>1. /\ s \in Seq(S) /\ t \in Seq(S) /\ u \in Seq(S)
      /\ Len(s) = 7 /\ Len(t) = 2 /\ Len(u) = 9
  OBVIOUS
<1>2. /\ \A i \in 1 .. 7 : u[i] = s[i]
      /\ \A i \in 1 .. 2 : u[7 + i] = t[i]
  OBVIOUS
<1>3. IrqRegist.init = s \o t
  BY CharInitIs DEF IrqRegist
<1> HIDE DEF s, u, S, t
<1>4. /\ Len(u) = Len(s) + Len(t)
      /\ \A i \in 1 .. Len(s) : u[i] = s[i]
      /\ \A i \in 1 .. Len(t) : u[Len(s) + i] = t[i]
  BY <1>1, <1>2
<1>5. s \o t = u
  BY <1>1, <1>4, Joined, Zenon
<1> QED
  BY <1>3, <1>5 DEF u

\* What the argument needs of each table.
LEMMA CharDriverTable == Table("CharDriver", CharDriver.init, CharDriver.exit, CharDriver.uses)
<1>1. TableShape(CharDriver.init, CharDriver.exit)
  BY CharInitIs, CharExitIs DEF TableShape, CharDriver, Get, Put, RegionOps, Named
<1>2. TableFail("CharDriver", CharDriver.init, CharDriver.exit)
  BY CharInitIs, CharExitIs DEF TableFail, CharDriver, Get, Put, RegionOps, Serving, LeaveHandlers, GivesBack, Opposite
<1>3. TableRegion("CharDriver", CharDriver.init, CharDriver.exit)
  BY CharInitIs, CharExitIs DEF TableRegion, CharDriver, Get, Put, RegionOps, Unregisters, Opposite
<1>4. TableUses("CharDriver", CharDriver.init, CharDriver.exit, CharDriver.uses)
  BY CharInitIs, CharExitIs DEF TableUses, CharDriver, Get, Put, Named
<1>5. TableOops(CharDriver.init, CharDriver.exit)
  BY CharInitIs, CharExitIs DEF TableOops, CharDriver, Get, Put
<1>6. TableExit("CharDriver", CharDriver.init, CharDriver.exit)
  BY CharInitIs, CharExitIs DEF TableExit, CharDriver, Get, Put, GivesBack, Opposite
<1> QED
  BY <1>1, <1>2, <1>3, <1>4, <1>5, <1>6 DEF Table

LEMMA CreateCharNodeTable == Table("CreateCharNode", CreateCharNode.init, CreateCharNode.exit, CreateCharNode.uses)
<1>1. TableShape(CreateCharNode.init, CreateCharNode.exit)
  BY CharInitIs, CharExitIs DEF TableShape, CreateCharNode, Get, Put, RegionOps, Named
<1>2. TableFail("CreateCharNode", CreateCharNode.init, CreateCharNode.exit)
  BY CharInitIs, CharExitIs DEF TableFail, CreateCharNode, Get, Put, RegionOps, Serving, LeaveHandlers, GivesBack, Opposite
<1>3. TableRegion("CreateCharNode", CreateCharNode.init, CreateCharNode.exit)
  BY CharInitIs, CharExitIs DEF TableRegion, CreateCharNode, Get, Put, RegionOps, Unregisters, Opposite
<1>4. TableUses("CreateCharNode", CreateCharNode.init, CreateCharNode.exit, CreateCharNode.uses)
  BY CharInitIs, CharExitIs DEF TableUses, CreateCharNode, Get, Put, Named
<1>5. TableOops(CreateCharNode.init, CreateCharNode.exit)
  BY CharInitIs, CharExitIs DEF TableOops, CreateCharNode, Get, Put
<1>6. TableExit("CreateCharNode", CreateCharNode.init, CreateCharNode.exit)
  BY CharInitIs, CharExitIs DEF TableExit, CreateCharNode, Get, Put, GivesBack, Opposite
<1> QED
  BY <1>1, <1>2, <1>3, <1>4, <1>5, <1>6 DEF Table

LEMMA RegistCdevTable == Table("RegistCdev", RegistCdev.init, RegistCdev.exit, RegistCdev.uses)
<1>0. RegistCdev.exit = <<Put("cdev", 0), Put("cdev", 1), Put("region", 2)>> /\ RegistCdev.uses = {}
  BY DEF RegistCdev
<1>1. TableShape(RegistCdev.init, RegistCdev.exit)
  BY <1>0, RegistCdevInitIs DEF TableShape, Get, Put, RegionOps, Named
<1>2. TableFail("RegistCdev", RegistCdev.init, RegistCdev.exit)
  BY <1>0, RegistCdevInitIs DEF TableFail, Get, Put, RegionOps, Serving, LeaveHandlers, GivesBack, Opposite
<1>3. TableRegion("RegistCdev", RegistCdev.init, RegistCdev.exit)
  BY <1>0, RegistCdevInitIs DEF TableRegion, Get, Put, RegionOps, Unregisters, Opposite
<1>4. TableUses("RegistCdev", RegistCdev.init, RegistCdev.exit, RegistCdev.uses)
  BY <1>0, RegistCdevInitIs DEF TableUses, Get, Put, Named
<1>5. TableOops(RegistCdev.init, RegistCdev.exit)
  BY <1>0, RegistCdevInitIs DEF TableOops, Get, Put
<1>6. TableExit("RegistCdev", RegistCdev.init, RegistCdev.exit)
  BY <1>0, RegistCdevInitIs DEF TableExit, Get, Put, GivesBack, Opposite
<1> QED
  BY <1>1, <1>2, <1>3, <1>4, <1>5, <1>6 DEF Table

LEMMA IrqRegistTable == Table("IrqRegist", IrqRegist.init, IrqRegist.exit, IrqRegist.uses)
<1>0. IrqRegist.exit = CharExit /\ IrqRegist.uses = {"my_devices", "data0"}
  BY DEF IrqRegist
<1>1. TableShape(IrqRegist.init, IrqRegist.exit)
  BY <1>0, IrqRegistInitIs, CharExitIs DEF TableShape, Get, Put, RegionOps, Named
<1>2. TableFail("IrqRegist", IrqRegist.init, IrqRegist.exit)
  BY <1>0, IrqRegistInitIs, CharExitIs DEF TableFail, Get, Put, RegionOps, Serving, LeaveHandlers, GivesBack, Opposite
<1>3. TableRegion("IrqRegist", IrqRegist.init, IrqRegist.exit)
  BY <1>0, IrqRegistInitIs, CharExitIs DEF TableRegion, Get, Put, RegionOps, Unregisters, Opposite
<1>4. TableUses("IrqRegist", IrqRegist.init, IrqRegist.exit, IrqRegist.uses)
  BY <1>0, IrqRegistInitIs, CharExitIs DEF TableUses, Get, Put, Named
<1>5. TableOops(IrqRegist.init, IrqRegist.exit)
  BY <1>0, IrqRegistInitIs, CharExitIs DEF TableOops, Get, Put
<1>6. TableExit("IrqRegist", IrqRegist.init, IrqRegist.exit)
  BY <1>0, IrqRegistInitIs, CharExitIs DEF TableExit, Get, Put, GivesBack, Opposite
<1> QED
  BY <1>1, <1>2, <1>3, <1>4, <1>5, <1>6 DEF Table

LEMMA DCdevNumTable == Table("DCdevNum", DCdevNum.init, DCdevNum.exit, DCdevNum.uses)
<1>1. TableShape(DCdevNum.init, DCdevNum.exit)
  BY DEF TableShape, DCdevNum, Get, Put, RegionOps, Named
<1>2. TableFail("DCdevNum", DCdevNum.init, DCdevNum.exit)
  BY DEF TableFail, DCdevNum, Get, Put, RegionOps, Serving, LeaveHandlers, GivesBack, Opposite
<1>3. TableRegion("DCdevNum", DCdevNum.init, DCdevNum.exit)
  BY DEF TableRegion, DCdevNum, Get, Put, RegionOps, Unregisters, Opposite
<1>4. TableUses("DCdevNum", DCdevNum.init, DCdevNum.exit, DCdevNum.uses)
  BY DEF TableUses, DCdevNum, Get, Put, Named
<1>5. TableOops(DCdevNum.init, DCdevNum.exit)
  BY DEF TableOops, DCdevNum, Get, Put
<1>6. TableExit("DCdevNum", DCdevNum.init, DCdevNum.exit)
  BY DEF TableExit, DCdevNum, Get, Put, GivesBack, Opposite
<1> QED
  BY <1>1, <1>2, <1>3, <1>4, <1>5, <1>6 DEF Table

LEMMA SCdevNumTable == Table("SCdevNum", SCdevNum.init, SCdevNum.exit, SCdevNum.uses)
<1>1. TableShape(SCdevNum.init, SCdevNum.exit)
  BY DEF TableShape, SCdevNum, Get, Put, RegionOps, Named
<1>2. TableFail("SCdevNum", SCdevNum.init, SCdevNum.exit)
  BY DEF TableFail, SCdevNum, Get, Put, RegionOps, Serving, LeaveHandlers, GivesBack, Opposite
<1>3. TableRegion("SCdevNum", SCdevNum.init, SCdevNum.exit)
  BY DEF TableRegion, SCdevNum, Get, Put, RegionOps, Unregisters, Opposite
<1>4. TableUses("SCdevNum", SCdevNum.init, SCdevNum.exit, SCdevNum.uses)
  BY DEF TableUses, SCdevNum, Get, Put, Named
<1>5. TableOops(SCdevNum.init, SCdevNum.exit)
  BY DEF TableOops, SCdevNum, Get, Put
<1>6. TableExit("SCdevNum", SCdevNum.init, SCdevNum.exit)
  BY DEF TableExit, SCdevNum, Get, Put, GivesBack, Opposite
<1> QED
  BY <1>1, <1>2, <1>3, <1>4, <1>5, <1>6 DEF Table

LEMMA DriverLEDSTable == Table("DriverLEDS", DriverLEDS.init, DriverLEDS.exit, DriverLEDS.uses)
<1>1. TableShape(DriverLEDS.init, DriverLEDS.exit)
  BY DEF TableShape, DriverLEDS, Get, Put, RegionOps, Named
<1>2. TableFail("DriverLEDS", DriverLEDS.init, DriverLEDS.exit)
  BY DEF TableFail, DriverLEDS, Get, Put, RegionOps, Serving, LeaveHandlers, GivesBack, Opposite
<1>3. TableRegion("DriverLEDS", DriverLEDS.init, DriverLEDS.exit)
  BY DEF TableRegion, DriverLEDS, Get, Put, RegionOps, Unregisters, Opposite
<1>4. TableUses("DriverLEDS", DriverLEDS.init, DriverLEDS.exit, DriverLEDS.uses)
  BY DEF TableUses, DriverLEDS, Get, Put, Named
<1>5. TableOops(DriverLEDS.init, DriverLEDS.exit)
  BY DEF TableOops, DriverLEDS, Get, Put
<1>6. TableExit("DriverLEDS", DriverLEDS.init, DriverLEDS.exit)
  BY DEF TableExit, DriverLEDS, Get, Put, GivesBack, Opposite
<1> QED
  BY <1>1, <1>2, <1>3, <1>4, <1>5, <1>6 DEF Table

LEMMA MiscDriverRegistTable == Table("MiscDriverRegist", MiscDriverRegist.init, MiscDriverRegist.exit, MiscDriverRegist.uses)
<1>1. TableShape(MiscDriverRegist.init, MiscDriverRegist.exit)
  BY DEF TableShape, MiscDriverRegist, Get, Put, RegionOps, Named
<1>2. TableFail("MiscDriverRegist", MiscDriverRegist.init, MiscDriverRegist.exit)
  BY DEF TableFail, MiscDriverRegist, Get, Put, RegionOps, Serving, LeaveHandlers, GivesBack, Opposite
<1>3. TableRegion("MiscDriverRegist", MiscDriverRegist.init, MiscDriverRegist.exit)
  BY DEF TableRegion, MiscDriverRegist, Get, Put, RegionOps, Unregisters, Opposite
<1>4. TableUses("MiscDriverRegist", MiscDriverRegist.init, MiscDriverRegist.exit, MiscDriverRegist.uses)
  BY DEF TableUses, MiscDriverRegist, Get, Put, Named
<1>5. TableOops(MiscDriverRegist.init, MiscDriverRegist.exit)
  BY DEF TableOops, MiscDriverRegist, Get, Put
<1>6. TableExit("MiscDriverRegist", MiscDriverRegist.init, MiscDriverRegist.exit)
  BY DEF TableExit, MiscDriverRegist, Get, Put, GivesBack, Opposite
<1> QED
  BY <1>1, <1>2, <1>3, <1>4, <1>5, <1>6 DEF Table

LEMMA DriverRegistTable == Table("DriverRegist", DriverRegist.init, DriverRegist.exit, DriverRegist.uses)
<1>1. TableShape(DriverRegist.init, DriverRegist.exit)
  BY DEF TableShape, DriverRegist, Get, Put, RegionOps, Named
<1>2. TableFail("DriverRegist", DriverRegist.init, DriverRegist.exit)
  BY DEF TableFail, DriverRegist, Get, Put, RegionOps, Serving, LeaveHandlers, GivesBack, Opposite
<1>3. TableRegion("DriverRegist", DriverRegist.init, DriverRegist.exit)
  BY DEF TableRegion, DriverRegist, Get, Put, RegionOps, Unregisters, Opposite
<1>4. TableUses("DriverRegist", DriverRegist.init, DriverRegist.exit, DriverRegist.uses)
  BY DEF TableUses, DriverRegist, Get, Put, Named
<1>5. TableOops(DriverRegist.init, DriverRegist.exit)
  BY DEF TableOops, DriverRegist, Get, Put
<1>6. TableExit("DriverRegist", DriverRegist.init, DriverRegist.exit)
  BY DEF TableExit, DriverRegist, Get, Put, GivesBack, Opposite
<1> QED
  BY <1>1, <1>2, <1>3, <1>4, <1>5, <1>6 DEF Table

LEMMA OnlyMiscDriverRegistTable == Table("OnlyMiscDriverRegist", OnlyMiscDriverRegist.init, OnlyMiscDriverRegist.exit, OnlyMiscDriverRegist.uses)
<1>1. TableShape(OnlyMiscDriverRegist.init, OnlyMiscDriverRegist.exit)
  BY DEF TableShape, OnlyMiscDriverRegist, Get, Put, RegionOps, Named
<1>2. TableFail("OnlyMiscDriverRegist", OnlyMiscDriverRegist.init, OnlyMiscDriverRegist.exit)
  BY DEF TableFail, OnlyMiscDriverRegist, Get, Put, RegionOps, Serving, LeaveHandlers, GivesBack, Opposite
<1>3. TableRegion("OnlyMiscDriverRegist", OnlyMiscDriverRegist.init, OnlyMiscDriverRegist.exit)
  BY DEF TableRegion, OnlyMiscDriverRegist, Get, Put, RegionOps, Unregisters, Opposite
<1>4. TableUses("OnlyMiscDriverRegist", OnlyMiscDriverRegist.init, OnlyMiscDriverRegist.exit, OnlyMiscDriverRegist.uses)
  BY DEF TableUses, OnlyMiscDriverRegist, Get, Put, Named
<1>5. TableOops(OnlyMiscDriverRegist.init, OnlyMiscDriverRegist.exit)
  BY DEF TableOops, OnlyMiscDriverRegist, Get, Put
<1>6. TableExit("OnlyMiscDriverRegist", OnlyMiscDriverRegist.init, OnlyMiscDriverRegist.exit)
  BY DEF TableExit, OnlyMiscDriverRegist, Get, Put, GivesBack, Opposite
<1> QED
  BY <1>1, <1>2, <1>3, <1>4, <1>5, <1>6 DEF Table

LEMMA ParamTable == Table("Param", Param.init, Param.exit, Param.uses)
<1>1. TableShape(Param.init, Param.exit)
  BY DEF TableShape, Param, Get, Put, RegionOps, Named
<1>2. TableFail("Param", Param.init, Param.exit)
  BY DEF TableFail, Param, Get, Put, RegionOps, Serving, LeaveHandlers, GivesBack, Opposite
<1>3. TableRegion("Param", Param.init, Param.exit)
  BY DEF TableRegion, Param, Get, Put, RegionOps, Unregisters, Opposite
<1>4. TableUses("Param", Param.init, Param.exit, Param.uses)
  BY DEF TableUses, Param, Get, Put, Named
<1>5. TableOops(Param.init, Param.exit)
  BY DEF TableOops, Param, Get, Put
<1>6. TableExit("Param", Param.init, Param.exit)
  BY DEF TableExit, Param, Get, Put, GivesBack, Opposite
<1> QED
  BY <1>1, <1>2, <1>3, <1>4, <1>5, <1>6 DEF Table

LEMMA HelloTable == Table("Hello", Hello.init, Hello.exit, Hello.uses)
<1>1. TableShape(Hello.init, Hello.exit)
  BY DEF TableShape, Hello, Get, Put, RegionOps, Named
<1>2. TableFail("Hello", Hello.init, Hello.exit)
  BY DEF TableFail, Hello, Get, Put, RegionOps, Serving, LeaveHandlers, GivesBack, Opposite
<1>3. TableRegion("Hello", Hello.init, Hello.exit)
  BY DEF TableRegion, Hello, Get, Put, RegionOps, Unregisters, Opposite
<1>4. TableUses("Hello", Hello.init, Hello.exit, Hello.uses)
  BY DEF TableUses, Hello, Get, Put, Named
<1>5. TableOops(Hello.init, Hello.exit)
  BY DEF TableOops, Hello, Get, Put
<1>6. TableExit("Hello", Hello.init, Hello.exit)
  BY DEF TableExit, Hello, Get, Put, GivesBack, Opposite
<1> QED
  BY <1>1, <1>2, <1>3, <1>4, <1>5, <1>6 DEF Table

LEMMA MemMapDevTable == Table("MemMapDev", MemMapDev.init, MemMapDev.exit, MemMapDev.uses)
<1>1. TableShape(MemMapDev.init, MemMapDev.exit)
  BY ModuleLifeAssumption DEF TableShape, MemMapDev, Get, Put, RegionOps, Named
<1>2. TableFail("MemMapDev", MemMapDev.init, MemMapDev.exit)
  BY ModuleLifeAssumption DEF TableFail, MemMapDev, Get, Put, RegionOps, Serving, LeaveHandlers, GivesBack, Opposite
<1>3. TableRegion("MemMapDev", MemMapDev.init, MemMapDev.exit)
  BY ModuleLifeAssumption DEF TableRegion, MemMapDev, Get, Put, RegionOps, Unregisters, Opposite
<1>4. TableUses("MemMapDev", MemMapDev.init, MemMapDev.exit, MemMapDev.uses)
  BY ModuleLifeAssumption DEF TableUses, MemMapDev, Get, Put, Named
<1>5. TableOops(MemMapDev.init, MemMapDev.exit)
  BY ModuleLifeAssumption DEF TableOops, MemMapDev, Get, Put
<1>6. TableExit("MemMapDev", MemMapDev.init, MemMapDev.exit)
  BY ModuleLifeAssumption DEF TableExit, MemMapDev, Get, Put, GivesBack, Opposite
<1> QED
  BY <1>1, <1>2, <1>3, <1>4, <1>5, <1>6 DEF Table

LEMMA PlatformDevTable == Table("PlatformDev", PlatformDev.init, PlatformDev.exit, PlatformDev.uses)
<1>1. TableShape(PlatformDev.init, PlatformDev.exit)
  BY DEF TableShape, PlatformDev, Get, Put, RegionOps, Named
<1>2. TableFail("PlatformDev", PlatformDev.init, PlatformDev.exit)
  BY DEF TableFail, PlatformDev, Get, Put, RegionOps, Serving, LeaveHandlers, GivesBack, Opposite
<1>3. TableRegion("PlatformDev", PlatformDev.init, PlatformDev.exit)
  BY DEF TableRegion, PlatformDev, Get, Put, RegionOps, Unregisters, Opposite
<1>4. TableUses("PlatformDev", PlatformDev.init, PlatformDev.exit, PlatformDev.uses)
  BY DEF TableUses, PlatformDev, Get, Put, Named
<1>5. TableOops(PlatformDev.init, PlatformDev.exit)
  BY DEF TableOops, PlatformDev, Get, Put
<1>6. TableExit("PlatformDev", PlatformDev.init, PlatformDev.exit)
  BY DEF TableExit, PlatformDev, Get, Put, GivesBack, Opposite
<1> QED
  BY <1>1, <1>2, <1>3, <1>4, <1>5, <1>6 DEF Table

LEMMA PlatformDrvTable == Table("PlatformDrv", PlatformDrv.init, PlatformDrv.exit, PlatformDrv.uses)
<1>1. TableShape(PlatformDrv.init, PlatformDrv.exit)
  BY DEF TableShape, PlatformDrv, Get, Put, RegionOps, Named
<1>2. TableFail("PlatformDrv", PlatformDrv.init, PlatformDrv.exit)
  BY DEF TableFail, PlatformDrv, Get, Put, RegionOps, Serving, LeaveHandlers, GivesBack, Opposite
<1>3. TableRegion("PlatformDrv", PlatformDrv.init, PlatformDrv.exit)
  BY DEF TableRegion, PlatformDrv, Get, Put, RegionOps, Unregisters, Opposite
<1>4. TableUses("PlatformDrv", PlatformDrv.init, PlatformDrv.exit, PlatformDrv.uses)
  BY DEF TableUses, PlatformDrv, Get, Put, Named
<1>5. TableOops(PlatformDrv.init, PlatformDrv.exit)
  BY DEF TableOops, PlatformDrv, Get, Put
<1>6. TableExit("PlatformDrv", PlatformDrv.init, PlatformDrv.exit)
  BY DEF TableExit, PlatformDrv, Get, Put, GivesBack, Opposite
<1> QED
  BY <1>1, <1>2, <1>3, <1>4, <1>5, <1>6 DEF Table

LEMMA RpmsgCharDrvTable == Table("RpmsgCharDrv", RpmsgCharDrv.init, RpmsgCharDrv.exit, RpmsgCharDrv.uses)
<1>1. TableShape(RpmsgCharDrv.init, RpmsgCharDrv.exit)
  BY ModuleLifeAssumption DEF TableShape, RpmsgCharDrv, RPMSG_DEV_MAX, Get, Put, RegionOps, Named
<1>2. TableFail("RpmsgCharDrv", RpmsgCharDrv.init, RpmsgCharDrv.exit)
  BY ModuleLifeAssumption DEF TableFail, RpmsgCharDrv, RPMSG_DEV_MAX, Get, Put, RegionOps, Serving, LeaveHandlers, GivesBack, Opposite
<1>3. TableRegion("RpmsgCharDrv", RpmsgCharDrv.init, RpmsgCharDrv.exit)
  BY ModuleLifeAssumption DEF TableRegion, RpmsgCharDrv, RPMSG_DEV_MAX, Get, Put, RegionOps, Unregisters, Opposite
<1>4. TableUses("RpmsgCharDrv", RpmsgCharDrv.init, RpmsgCharDrv.exit, RpmsgCharDrv.uses)
  BY ModuleLifeAssumption DEF TableUses, RpmsgCharDrv, RPMSG_DEV_MAX, Get, Put, Named
<1>5. TableOops(RpmsgCharDrv.init, RpmsgCharDrv.exit)
  BY ModuleLifeAssumption DEF TableOops, RpmsgCharDrv, RPMSG_DEV_MAX, Get, Put
<1>6. TableExit("RpmsgCharDrv", RpmsgCharDrv.init, RpmsgCharDrv.exit)
  BY ModuleLifeAssumption DEF TableExit, RpmsgCharDrv, RPMSG_DEV_MAX, Get, Put, GivesBack, Opposite
<1> QED
  BY <1>1, <1>2, <1>3, <1>4, <1>5, <1>6 DEF Table

\* The sixteen modules by name.
LEMMA ModulesAre == Modules = ModuleNames
  BY DEF Modules, Code, ModuleNames

\* What holds of the table of every module.
LEMMA Tables ==
  ASSUME NEW m \in Modules
  PROVE  Table(m, Ini(m), Exi(m), Code[m].uses)
<1>0. m \in ModuleNames
  BY ModulesAre
<1>1. CASE m = "CharDriver"
  BY <1>1, CharDriverTable DEF Ini, Exi, Code
<1>2. CASE m = "CreateCharNode"
  BY <1>2, CreateCharNodeTable DEF Ini, Exi, Code
<1>3. CASE m = "RegistCdev"
  BY <1>3, RegistCdevTable DEF Ini, Exi, Code
<1>4. CASE m = "IrqRegist"
  BY <1>4, IrqRegistTable DEF Ini, Exi, Code
<1>5. CASE m = "DCdevNum"
  BY <1>5, DCdevNumTable DEF Ini, Exi, Code
<1>6. CASE m = "SCdevNum"
  BY <1>6, SCdevNumTable DEF Ini, Exi, Code
<1>7. CASE m = "DriverLEDS"
  BY <1>7, DriverLEDSTable DEF Ini, Exi, Code
<1>8. CASE m = "MiscDriverRegist"
  BY <1>8, MiscDriverRegistTable DEF Ini, Exi, Code
<1>9. CASE m = "DriverRegist"
  BY <1>9, DriverRegistTable DEF Ini, Exi, Code
<1>10. CASE m = "OnlyMiscDriverRegist"
  BY <1>10, OnlyMiscDriverRegistTable DEF Ini, Exi, Code
<1>11. CASE m = "Param"
  BY <1>11, ParamTable DEF Ini, Exi, Code
<1>12. CASE m = "Hello"
  BY <1>12, HelloTable DEF Ini, Exi, Code
<1>13. CASE m = "MemMapDev"
  BY <1>13, MemMapDevTable DEF Ini, Exi, Code
<1>14. CASE m = "PlatformDev"
  BY <1>14, PlatformDevTable DEF Ini, Exi, Code
<1>15. CASE m = "PlatformDrv"
  BY <1>15, PlatformDrvTable DEF Ini, Exi, Code
<1>16. CASE m = "RpmsgCharDrv"
  BY <1>16, RpmsgCharDrvTable DEF Ini, Exi, Code
<1> QED
  BY <1>0, <1>1, <1>2, <1>3, <1>4, <1>5, <1>6, <1>7, <1>8, <1>9, <1>10, <1>11, <1>12, <1>13, <1>14, <1>15, <1>16 DEF ModuleNames

\* Only moduleDriverRegist has no exit.
LEMMA ExitEmpty ==
  ASSUME NEW m \in Modules
  PROVE  /\ Len(Exi(m)) = 0 <=> Exi(m) = <<>>
         /\ Exi(m) = <<>> <=> m = "DriverRegist"
<1>1. Exi("DriverRegist") = <<>>
  BY DEF Exi, Code, DriverRegist
<1>2. m # "DriverRegist" => Exi(m) # <<>> /\ Len(Exi(m)) > 0
  BY Tables DEF Table, TableExit
<1>3. Len(<<>>) = 0
  OBVIOUS
<1> QED
  BY <1>1, <1>2, <1>3

-----------------------------------------------------------------------------
(* What each action does, in terms of the tables.                           *)

\* A step of m changes nothing that belongs to another module.
Others(m) ==
  \A k \in Modules \ {m} :
    /\ stage'[k] = stage[k] /\ step'[k] = step[k] /\ numdev'[k] = numdev[k]
    /\ held'[k] = held[k] /\ (k \in clean' <=> k \in clean)

\* m is at step k of the script and goes on to the next one, or to stage end.
Advanced(m, script, end) ==
  \/ step[m] < Len(script) /\ stage'[m] = stage[m] /\ step'[m] = step[m] + 1
  \/ step[m] = Len(script) /\ stage'[m] = end /\ step'[m] = 1

\* The two outcomes of Advance, module by module.
LEMMA AdvanceDoes ==
  ASSUME Shape, NEW m \in Modules, NEW script, NEW end,
         Len(script) \in Nat, step[m] \in 1 .. Len(script), Advance(m, script, end)
  PROVE  /\ Advanced(m, script, end)
         /\ \A k \in Modules \ {m} : stage'[k] = stage[k] /\ step'[k] = step[k]
         /\ DOMAIN stage' = Modules /\ DOMAIN step' = Modules
<1>1. DOMAIN stage = Modules /\ DOMAIN step = Modules
  BY DEF Shape
<1>2. CASE step[m] = Len(script)
  BY <1>1, <1>2 DEF Advance, Advanced
<1>3. CASE step[m] # Len(script)
  BY <1>1, <1>3 DEF Advance, Advanced
<1> QED
  BY <1>2, <1>3

\* The five actions that move a module, each by what it leaves of the state.
LEMMA InsmodDoes ==
  ASSUME Shape, NEW m \in Modules, NEW major, NEW minor, Insmod(m, major, minor)
  PROVE  /\ Others(m) /\ stage[m] = "out" /\ stage'[m] = "init" /\ step'[m] = 1
         /\ numdev'[m] = [major |-> major, minor |-> minor]
         /\ UNCHANGED <<clean, held, regions, cdevs, files, robbed, faults>>
  BY DEF Shape, Insmod, Others

LEMMA InitStepDoes ==
  ASSUME Shape, NEW m \in Modules, InitStep(m)
  PROVE  /\ Others(m) /\ stage[m] = "init" /\ step[m] \in 1 .. Len(Ini(m))
         /\ Advanced(m, Ini(m), "live")
         /\ LET s == Ini(m)[step[m]] IN
              Register(m, s) \/ AddCdev(m, s) \/ Hold(m, s) \/ NothingToDo(m, s)
         /\ UNCHANGED <<clean, files, robbed, loads, faults>>
<1>1. stage[m] = "init" /\ step[m] \in 1 .. Len(Ini(m))
  BY DEF InitStep, Shape
<1>2. Len(Ini(m)) \in Nat
  BY Tables DEF Table, TableShape
<1>3. Advance(m, Ini(m), "live")
  BY DEF InitStep, Ini
<1>4. /\ Advanced(m, Ini(m), "live")
      /\ \A k \in Modules \ {m} : stage'[k] = stage[k] /\ step'[k] = step[k]
  BY <1>1, <1>2, <1>3, AdvanceDoes
<1> DEFINE s == Ini(m)[step[m]]
<1>5. Register(m, s) \/ AddCdev(m, s) \/ Hold(m, s) \/ NothingToDo(m, s)
  BY DEF InitStep, Ini
<1> HIDE DEF s
<1>6. UNCHANGED <<clean, files, robbed, loads, faults>>
  BY DEF InitStep
<1>7. \A k \in Modules \ {m} : numdev'[k] = numdev[k] /\ held'[k] = held[k]
  BY <1>5 DEF Register, AddCdev, Hold, NothingToDo, Shape
<1> QED
  BY <1>1, <1>4, <1>5, <1>6, <1>7 DEF Others, s

\* Where a failing step of m's init leads.
FailMoves(m, s) ==
  \/ s.fail = "ignore" /\ Advanced(m, Ini(m), "live")
  \/ s.fail = "stop" /\ stage'[m] = "live" /\ step'[m] = 1
  \/ s.fail = "forget" /\ stage'[m] = "forgot" /\ step'[m] = 1
  \/ s.fail = "die" /\ stage'[m] = "dead" /\ step'[m] = 1
  \/ s.fail \in {"abort", "unwind"} /\ stage'[m] = "out" /\ step'[m] = 1
  \/ s.fail = "back" /\ stage'[m] = "exit" /\ step'[m] = Len(Exi(m)) + 2 - step[m]

LEMMA InitFailsDoes ==
  ASSUME Shape, NEW m \in Modules, InitFails(m), NEW s, s = Ini(m)[step[m]]
  PROVE  /\ Others(m) /\ stage[m] = "init" /\ step[m] \in 1 .. Len(Ini(m))
         /\ FailMoves(m, s)
         /\ Refused(m, s) \/ faults < MaxFaults
         /\ faults' = IF Refused(m, s) THEN faults ELSE faults + 1
         /\ \E major \in MajorAfterFailure(m, s) :
              numdev' = [numdev EXCEPT ![m].major = major]
         /\ IF s.fail = "unwind" THEN Unregister(m, 2) ELSE UNCHANGED <<regions, robbed>>
         /\ held' = IF s.fail \in {"abort", "unwind"} THEN DropPointers(m) ELSE held
         /\ clean' = clean \ {m} /\ UNCHANGED <<cdevs, files, loads>>
<1>1. stage[m] = "init" /\ step[m] \in 1 .. Len(Ini(m)) /\ Len(Ini(m)) \in Nat
  BY Tables DEF InitFails, Shape, Table, TableShape
<1>2. /\ Refused(m, s) \/ faults < MaxFaults
      /\ faults' = IF Refused(m, s) THEN faults ELSE faults + 1
      /\ \E major \in MajorAfterFailure(m, s) :
           numdev' = [numdev EXCEPT ![m].major = major]
      /\ IF s.fail = "ignore" THEN Advance(m, Ini(m), "live")
         ELSE /\ stage' = [stage EXCEPT ![m] = After[s.fail]]
              /\ step' = [step EXCEPT ![m] =
                             IF s.fail = "back" THEN Len(Exi(m)) + 2 - @ ELSE 1]
      /\ IF s.fail = "unwind" THEN Unregister(m, 2) ELSE UNCHANGED <<regions, robbed>>
      /\ held' = IF s.fail \in {"abort", "unwind"} THEN DropPointers(m) ELSE held
      /\ clean' = clean \ {m} /\ UNCHANGED <<cdevs, files, loads>>
  BY DEF InitFails, Ini, Exi
<1>3. s.fail \in {"ignore", "stop", "forget", "abort", "unwind", "back", "die"}
  BY <1>1, Tables DEF Table, TableShape
<1>4. /\ FailMoves(m, s)
      /\ \A k \in Modules \ {m} : stage'[k] = stage[k] /\ step'[k] = step[k]
  <2>1. CASE s.fail = "ignore"
    <3>1. Advance(m, Ini(m), "live")
      BY <1>2, <2>1
    <3> QED
      BY <1>1, <3>1, <2>1, AdvanceDoes DEF FailMoves
  <2>2. CASE s.fail # "ignore"
    <3>1. /\ stage' = [stage EXCEPT ![m] = After[s.fail]]
          /\ step' = [step EXCEPT ![m] =
                         IF s.fail = "back" THEN Len(Exi(m)) + 2 - @ ELSE 1]
      BY <1>2, <2>2
    <3>2. /\ DOMAIN stage = Modules /\ DOMAIN step = Modules
      BY DEF Shape
    <3>3. /\ stage'[m] = After[s.fail]
          /\ step'[m] = IF s.fail = "back" THEN Len(Exi(m)) + 2 - step[m] ELSE 1
          /\ \A k \in Modules \ {m} : stage'[k] = stage[k] /\ step'[k] = step[k]
      BY <3>1, <3>2
    <3> QED
      BY <1>3, <2>2, <3>3 DEF FailMoves, After
  <2> QED
    BY <2>1, <2>2
<1>5. \A k \in Modules \ {m} : numdev'[k] = numdev[k] /\ held'[k] = held[k]
  <2>1. \A k \in Modules \ {m} : numdev'[k] = numdev[k]
    BY <1>2 DEF Shape
  <2>2. \A k \in Modules \ {m} : held'[k] = held[k]
    BY <1>2 DEF Shape, DropPointers
  <2> QED
    BY <2>1, <2>2
<1>6. \A k \in Modules \ {m} : k \in clean' <=> k \in clean
  BY <1>2
<1> QED
  BY <1>1, <1>2, <1>4, <1>5, <1>6 DEF Others

LEMMA RmmodDoes ==
  ASSUME Shape, NEW m \in Modules, Rmmod(m)
  PROVE  /\ Others(m) /\ stage[m] \in {"live", "forgot"} /\ m \notin files
         /\ step[m] = 1 /\ step'[m] = 1
         /\ \/ /\ stage[m] = "forgot" \/ Exi(m) = <<>>
               /\ stage'[m] = "out" /\ held' = DropPointers(m)
            \/ /\ stage[m] = "live" /\ Exi(m) # <<>>
               /\ stage'[m] = "exit" /\ held' = held
         /\ UNCHANGED <<step, clean, numdev, regions, cdevs, files, robbed, loads, faults>>
<1>1. stage[m] \in {"live", "forgot"} /\ m \notin files /\ step[m] = 1
  BY DEF Rmmod, Shape
<1>2. UNCHANGED <<step, clean, numdev, regions, cdevs, files, robbed, loads, faults>>
  BY DEF Rmmod
<1>3. CASE stage[m] = "forgot" \/ Exi(m) = <<>>
  <2>1. stage' = [stage EXCEPT ![m] = "out"] /\ held' = DropPointers(m)
    BY <1>3 DEF Rmmod, Exi
  <2>2. /\ stage'[m] = "out"
        /\ \A k \in Modules \ {m} : stage'[k] = stage[k] /\ held'[k] = held[k]
    BY <2>1 DEF Shape, DropPointers
  <2> QED
    BY <1>1, <1>2, <1>3, <2>1, <2>2 DEF Others
<1>4. CASE ~(stage[m] = "forgot" \/ Exi(m) = <<>>)
  <2>1. stage' = [stage EXCEPT ![m] = "exit"] /\ held' = held
    BY <1>4 DEF Rmmod, Exi
  <2>2. /\ stage'[m] = "exit" /\ \A k \in Modules \ {m} : stage'[k] = stage[k]
    BY <2>1 DEF Shape
  <2> QED
    BY <1>1, <1>2, <1>4, <2>1, <2>2 DEF Others
<1> QED
  BY <1>3, <1>4

\* device_destroy or platform_device_unregister of what was never made.
Oops(m, s) ==
  \/ s.op = "node" /\ <<"class", s.arg>> \notin held[m]
  \/ s.op = "pdev" /\ <<"pdev", s.arg>> \notin held[m]

\* The cdevs that are left after step s of m's exit.
CdevsAfter(m, s) ==
  IF s.op \in {"cdev", "chrdev"}
    THEN {c \in cdevs : c.mod # m \/ c.major # numdev[m].major
                          \/ (s.op = "cdev" /\ c.base # s.arg)}
    ELSE cdevs

LEMMA ExitStepDoes ==
  ASSUME Shape, NEW m \in Modules, ExitStep(m), NEW s, s = Exi(m)[step[m]]
  PROVE  /\ Others(m) /\ stage[m] = "exit" /\ step[m] \in 1 .. Len(Exi(m))
         /\ IF Oops(m, s) THEN stage'[m] = "dead" /\ step'[m] = step[m]
                          ELSE Advanced(m, Exi(m), "out")
         /\ IF s.op \in {"region", "chrdev"} THEN Unregister(m, s.arg)
                                             ELSE UNCHANGED <<regions, robbed>>
         /\ cdevs' = CdevsAfter(m, s)
         /\ held' = [held EXCEPT ![m] =
                       (IF step[m] = Len(Exi(m)) THEN DropPointers(m)[m] ELSE @)
                         \ {<<s.op, s.arg>>}]
         /\ UNCHANGED <<clean, numdev, files, loads, faults>>
<1>1. stage[m] = "exit" /\ step[m] \in 1 .. Len(Exi(m)) /\ Len(Exi(m)) \in Nat
  BY Tables DEF ExitStep, Shape, Table, TableShape
<1>2. /\ IF Oops(m, s) THEN stage' = [stage EXCEPT ![m] = "dead"] /\ UNCHANGED step
                       ELSE Advance(m, Exi(m), "out")
      /\ IF s.op \in {"region", "chrdev"} THEN Unregister(m, s.arg)
                                          ELSE UNCHANGED <<regions, robbed>>
      /\ cdevs' = CdevsAfter(m, s)
      /\ held' = [held EXCEPT ![m] =
                    (IF step[m] = Len(Exi(m)) THEN DropPointers(m)[m] ELSE @)
                      \ {<<s.op, s.arg>>}]
      /\ UNCHANGED <<clean, numdev, files, loads, faults>>
  BY DEF ExitStep, Exi, Oops, CdevsAfter
<1>3. /\ IF Oops(m, s) THEN stage'[m] = "dead" /\ step'[m] = step[m]
                       ELSE Advanced(m, Exi(m), "out")
      /\ \A k \in Modules \ {m} : stage'[k] = stage[k] /\ step'[k] = step[k]
  <2>1. CASE Oops(m, s)
    <3>1. stage' = [stage EXCEPT ![m] = "dead"] /\ UNCHANGED step
      BY <1>2, <2>1
    <3> QED
      BY <3>1, <2>1 DEF Shape
  <2>2. CASE ~Oops(m, s)
    <3>1. Advance(m, Exi(m), "out")
      BY <1>2, <2>2
    <3> QED
      BY <1>1, <2>2, <3>1, AdvanceDoes
  <2> QED
    BY <2>1, <2>2
<1>4. \A k \in Modules \ {m} : held'[k] = held[k]
  BY <1>2 DEF Shape
<1> QED
  BY <1>1, <1>2, <1>3, <1>4 DEF Others

-----------------------------------------------------------------------------
(* The shape of the state.                                                  *)

\* What register_chrdev_region and alloc_chrdev_region may register.
LEMMA FreeIs ==
  ASSUME Shape, NEW m \in Modules, NEW n \in Nat \ {0}, NEW r \in Free(m, n)
  PROVE  /\ r \in Records /\ r.mod = m /\ r.major # 0 /\ r.n = n
         /\ r.base = numdev[m].minor
         /\ \A q \in regions : ~Overlap(q, r)
<1>1. numdev[m] \in [major : Nat, minor : Nat]
  BY DEF Shape
<1>2. PICK d \in Nat \ {0} : r = Numbers(m, d, numdev[m].minor, n)
  BY <1>1, ModuleLifeAssumption DEF Free
<1>3. \A q \in regions : ~Overlap(q, r)
  BY DEF Free
<1> QED
  BY <1>1, <1>2, <1>3 DEF Numbers, Records

\* unregister_chrdev_region takes exactly the numbers that the module thinks are its
\* own, and whoever else loses them has been robbed.
LEMMA UnregisterDoes ==
  ASSUME Shape, NEW m \in Modules, NEW n, Unregister(m, n)
  PROVE  /\ regions' \subseteq regions /\ robbed \subseteq robbed'
         /\ robbed' \subseteq Modules
         /\ \A r \in regions \ regions' :
              /\ r.major = numdev[m].major /\ r.base = numdev[m].minor /\ r.n = n
              /\ r.mod = m \/ r.mod \in robbed'
         /\ \A r \in regions' :
              ~(r.mod = m /\ r.major = numdev[m].major /\ r.base = numdev[m].minor /\ r.n = n)
<1> DEFINE Same(r) == [r EXCEPT !.mod = m] = Numbers(m, numdev[m].major, numdev[m].minor, n)
           gone == {r \in regions : Same(r)}
<1>1. /\ regions' = regions \ gone
      /\ robbed' = robbed \cup ({r.mod : r \in gone} \ {m})
  BY DEF Unregister
<1>2. ASSUME NEW r \in Records
      PROVE  Same(r) <=> /\ r.major = numdev[m].major /\ r.base = numdev[m].minor
                         /\ r.n = n
  BY <1>2 DEF Records, Numbers
<1>3. regions \subseteq Records /\ robbed \subseteq Modules
  BY DEF Shape
<1>4. \A r \in Records : r.mod \in Modules
  BY DEF Records
<1> HIDE DEF Same
<1>5. robbed' \subseteq Modules
  BY <1>1, <1>3, <1>4
<1>6. ASSUME NEW r \in regions \ regions'
      PROVE  /\ r.major = numdev[m].major /\ r.base = numdev[m].minor /\ r.n = n
             /\ r.mod = m \/ r.mod \in robbed'
  BY <1>1, <1>2, <1>3
<1>7. ASSUME NEW r \in regions'
      PROVE  ~(r.mod = m /\ r.major = numdev[m].major /\ r.base = numdev[m].minor /\ r.n = n)
  BY <1>1, <1>2, <1>3
<1> QED
  BY <1>1, <1>5, <1>6, <1>7

\* The part of Shape that is about one module.
ShapeOf(m) ==
  /\ stage[m] = "init" => step[m] \in 1 .. Len(Ini(m))
  /\ stage[m] = "exit" => step[m] \in 1 .. Len(Exi(m))
  /\ stage[m] \in {"live", "forgot"} => step[m] = 1
  /\ \A h \in held[m] : h = <<h[1], h[2]>> /\ h[1] \in Named \cup {"mem"}
  /\ stage[m] = "out" => \A h \in held[m] : h[1] \in Named

\* The rest of it.
ShapeRest ==
  /\ stage \in [Modules -> {"out", "init", "live", "forgot", "exit", "dead"}]
  /\ step \in [Modules -> Nat]
  /\ clean \subseteq Modules /\ files \subseteq Modules /\ robbed \subseteq Modules
  /\ numdev \in [Modules -> [major : Nat, minor : Nat]]
  /\ DOMAIN held = Modules
  /\ regions \subseteq Records /\ cdevs \subseteq Records
  /\ loads \in 0 .. MaxLoads /\ faults \in 0 .. MaxFaults
  /\ \A r \in regions : r.major # 0

\* Shape, split into what is about one module and the rest.
LEMMA ShapeParts == Shape <=> ShapeRest /\ \A m \in Modules : ShapeOf(m)
  BY DEF Shape, ShapeRest, ShapeOf

LEMMA ShapePartsNext == Shape' <=> ShapeRest' /\ \A m \in Modules : ShapeOf(m)'
  BY DEF Shape, ShapeRest, ShapeOf

\* So it is enough to look at the module that moves.
LEMMA ShapeOthers ==
  ASSUME Shape, NEW m \in Modules, Others(m), ShapeRest', ShapeOf(m)'
  PROVE  Shape'
<1>1. ASSUME NEW k \in Modules \ {m} PROVE ShapeOf(k)'
  <2>1. stage'[k] = stage[k] /\ step'[k] = step[k] /\ held'[k] = held[k] /\ ShapeOf(k)
    BY ShapeParts DEF Others
  <2> QED
    BY <2>1 DEF ShapeOf, Ini, Exi
<1> QED
  BY <1>1, ShapePartsNext

LEMMA InsmodShape ==
  ASSUME Shape, NEW m \in Modules, NEW major \in GivenMajors[m], NEW minor \in GivenMinors[m],
         Insmod(m, major, minor)
  PROVE  Shape'
<1>1. major \in Nat /\ minor \in Nat
  BY ParamAssumption
<1>2. ShapeRest'
  BY <1>1, ShapeParts, ModuleLifeAssumption DEF ShapeRest, Insmod
<1>3. 1 \in 1 .. Len(Ini(m))
  BY Tables DEF Table, TableShape
<1>4. ShapeOf(m) /\ Others(m) /\ stage'[m] = "init" /\ step'[m] = 1 /\ held' = held
  BY ShapeParts, InsmodDoes
<1>5. ShapeOf(m)'
  BY <1>3, <1>4 DEF ShapeOf, Ini
<1> QED
  BY <1>2, <1>4, <1>5, ShapeOthers

LEMMA AdvanceShape ==
  ASSUME Shape, NEW m \in Modules, NEW script, NEW end,
         end \in {"out", "init", "live", "forgot", "exit", "dead"}, Advance(m, script, end)
  PROVE  /\ stage' \in [Modules -> {"out", "init", "live", "forgot", "exit", "dead"}]
         /\ step' \in [Modules -> Nat]
<1>1. /\ stage \in [Modules -> {"out", "init", "live", "forgot", "exit", "dead"}]
      /\ step \in [Modules -> Nat]
  BY DEF Shape
<1>2. CASE step[m] = Len(script)
  <2>1. stage' = [stage EXCEPT ![m] = end] /\ step' = [step EXCEPT ![m] = 1]
    BY <1>2 DEF Advance
  <2> QED
    BY <1>1, <2>1
<1>3. CASE step[m] # Len(script)
  <2>1. stage' = stage /\ step' = [step EXCEPT ![m] = @ + 1]
    BY <1>3 DEF Advance
  <2>2. step[m] + 1 \in Nat
    BY <1>1
  <2> QED
    BY <1>1, <2>1, <2>2
<1> QED
  BY <1>2, <1>3

LEMMA InitStepShape ==
  ASSUME Shape, NEW m \in Modules, InitStep(m)
  PROVE  Shape'
<1> DEFINE s == Ini(m)[step[m]]
<1>1. /\ Others(m) /\ stage[m] = "init" /\ step[m] \in 1 .. Len(Ini(m))
      /\ Advanced(m, Ini(m), "live")
      /\ Register(m, s) \/ AddCdev(m, s) \/ Hold(m, s) \/ NothingToDo(m, s)
      /\ UNCHANGED <<clean, files, robbed, loads, faults>>
  BY InitStepDoes
<1>2. /\ s.op \in RegionOps => s.arg \in Nat \ {0}
      /\ s.op = "cdev" => s.arg \in Nat
      /\ Len(Ini(m)) \in Nat
  BY <1>1, Tables DEF Table, TableShape
<1> HIDE DEF s
<1>3. stage' \in [Modules -> {"out", "init", "live", "forgot", "exit", "dead"}]
      /\ step' \in [Modules -> Nat]
  <2>1. Advance(m, Ini(m), "live")
    BY DEF InitStep, Ini
  <2> QED
    BY <2>1, AdvanceShape
<1>4. ShapeRest /\ ShapeOf(m)
  BY ShapeParts
<1>5. CASE Register(m, s)
  <2>1. PICK r \in Free(m, s.arg) :
          /\ regions' = regions \cup {r}
          /\ numdev' = [numdev EXCEPT ![m].major = r.major]
          /\ cdevs' = IF s.op = "chrdev" THEN cdevs \cup {r} ELSE cdevs
    BY <1>5 DEF Register
  <2>2. s.op \in RegionOps /\ held' = held
    BY <1>5 DEF Register, RegionOps
  <2>3. r \in Records /\ r.major # 0 /\ r.major \in Nat
    BY <1>2, <2>2, FreeIs DEF Records
  <2>4. numdev' \in [Modules -> [major : Nat, minor : Nat]]
    BY <1>4, <2>1, <2>3 DEF ShapeRest
  <2>5. regions' \subseteq Records /\ cdevs' \subseteq Records
        /\ \A q \in regions' : q.major # 0
    BY <1>4, <2>1, <2>3 DEF ShapeRest
  <2>6. ShapeRest'
    BY <1>1, <1>3, <1>4, <2>2, <2>4, <2>5 DEF ShapeRest
  <2>7. ShapeOf(m)'
    BY <1>1, <1>2, <1>4, <2>2 DEF ShapeOf, Advanced, Ini, Exi
  <2> QED
    BY <1>1, <2>6, <2>7, ShapeOthers
<1>6. CASE AddCdev(m, s)
  <2>1. Numbers(m, numdev[m].major, s.arg, 1) \in Records
    BY <1>2, <1>4, <1>6 DEF AddCdev, ShapeRest, Numbers, Records
  <2>2. cdevs' \subseteq Records /\ UNCHANGED <<numdev, held, regions>>
    BY <1>4, <1>6, <2>1 DEF AddCdev, ShapeRest
  <2>3. ShapeRest'
    BY <1>1, <1>3, <1>4, <2>2 DEF ShapeRest
  <2>4. ShapeOf(m)'
    BY <1>1, <1>2, <1>4, <2>2 DEF ShapeOf, Advanced, Ini, Exi
  <2> QED
    BY <1>1, <2>3, <2>4, ShapeOthers
<1>7. CASE Hold(m, s)
  <2>1. /\ s.op \in Named \cup {"mem"} /\ UNCHANGED <<numdev, regions, cdevs>>
        /\ held' = [held EXCEPT ![m] = @ \cup {<<s.op, s.arg>>}]
    BY <1>7 DEF Hold
  <2>2. ShapeRest'
    BY <1>1, <1>3, <1>4, <2>1 DEF ShapeRest
  <2>3. held'[m] = held[m] \cup {<<s.op, s.arg>>}
    BY <1>4, <2>1 DEF ShapeRest
  <2>4. \A h \in held'[m] : h = <<h[1], h[2]>> /\ h[1] \in Named \cup {"mem"}
    BY <1>4, <2>1, <2>3 DEF ShapeOf
  <2>5. ShapeOf(m)'
    BY <1>1, <1>2, <1>4, <2>4 DEF ShapeOf, Advanced, Ini, Exi
  <2> QED
    BY <1>1, <2>2, <2>5, ShapeOthers
<1>8. CASE NothingToDo(m, s)
  <2>1. UNCHANGED <<numdev, held, regions, cdevs>>
    BY <1>8 DEF NothingToDo
  <2>2. ShapeRest'
    BY <1>1, <1>3, <1>4, <2>1 DEF ShapeRest
  <2>3. ShapeOf(m)'
    BY <1>1, <1>2, <1>4, <2>1 DEF ShapeOf, Advanced, Ini, Exi
  <2> QED
    BY <1>1, <2>2, <2>3, ShapeOthers
<1> QED
  BY <1>1, <1>5, <1>6, <1>7, <1>8

\* Only a failed alloc_chrdev_region leaves another major behind.
LEMMA MajorAfterFailureIs ==
  ASSUME Shape, NEW m \in Modules, NEW s, NEW major \in MajorAfterFailure(m, s)
  PROVE  /\ major \in Nat
         /\ major # numdev[m].major => s.op = "region" /\ m \notin {"Hello", "RpmsgCharDrv"}
<1>1. numdev[m].major \in Nat
  BY DEF Shape
<1>2. UNION {GivenMajors[k] : k \in Modules} \subseteq Nat
  BY ParamAssumption
<1> QED
  BY <1>1, <1>2, ModuleLifeAssumption DEF MajorAfterFailure

LEMMA DropPointersIs ==
  ASSUME Shape, NEW m \in Modules
  PROVE  /\ DropPointers(m)[m] = {h \in held[m] : h[1] \in Named}
         /\ DOMAIN DropPointers(m) = Modules
  BY DEF Shape, DropPointers

LEMMA InitFailsShape ==
  ASSUME Shape, NEW m \in Modules, InitFails(m)
  PROVE  Shape'
<1>s. PICK s : s = Ini(m)[step[m]]
  OBVIOUS
<1>1. /\ Others(m) /\ stage[m] = "init" /\ step[m] \in 1 .. Len(Ini(m))
      /\ FailMoves(m, s)
      /\ Refused(m, s) \/ faults < MaxFaults
      /\ faults' = IF Refused(m, s) THEN faults ELSE faults + 1
      /\ \E major \in MajorAfterFailure(m, s) :
           numdev' = [numdev EXCEPT ![m].major = major]
      /\ IF s.fail = "unwind" THEN Unregister(m, 2) ELSE UNCHANGED <<regions, robbed>>
      /\ held' = IF s.fail \in {"abort", "unwind"} THEN DropPointers(m) ELSE held
      /\ clean' = clean \ {m} /\ UNCHANGED <<cdevs, files, loads>>
  BY <1>s, InitFailsDoes
<1>2. /\ Len(Ini(m)) \in Nat /\ Len(Exi(m)) \in Nat
      /\ s.fail = "back" => Len(Exi(m)) + 2 - step[m] \in 1 .. Len(Exi(m))
      /\ s.fail \in {"ignore", "stop", "forget", "abort", "unwind", "back", "die"}
  BY <1>1, <1>s, Tables DEF Table, TableShape, TableFail
<1>3. ShapeRest /\ ShapeOf(m)
  BY ShapeParts
<1>4. stage' \in [Modules -> {"out", "init", "live", "forgot", "exit", "dead"}]
      /\ step' \in [Modules -> Nat]
  <2>1. /\ IF s.fail = "ignore" THEN Advance(m, Ini(m), "live")
           ELSE /\ stage' = [stage EXCEPT ![m] = After[s.fail]]
                /\ step' = [step EXCEPT ![m] =
                               IF s.fail = "back" THEN Len(Exi(m)) + 2 - @ ELSE 1]
    BY <1>s DEF InitFails, Ini, Exi
  <2>2. CASE s.fail = "ignore"
    <3>1. Advance(m, Ini(m), "live")
      BY <2>1, <2>2
    <3> QED
      BY <3>1, AdvanceShape
  <2>3. CASE s.fail # "ignore"
    <3>1. After[s.fail] \in {"out", "init", "live", "forgot", "exit", "dead"}
      BY <1>2, <2>3 DEF After
    <3>2. (IF s.fail = "back" THEN Len(Exi(m)) + 2 - step[m] ELSE 1) \in Nat
      BY <1>2
    <3> QED
      BY <1>3, <2>1, <2>3, <3>1, <3>2 DEF ShapeRest
  <2> QED
    BY <2>2, <2>3
<1>5. faults' \in 0 .. MaxFaults
  BY <1>1, <1>3, ModuleLifeAssumption DEF ShapeRest
<1>6. numdev' \in [Modules -> [major : Nat, minor : Nat]]
  <2>1. PICK major \in MajorAfterFailure(m, s) : numdev' = [numdev EXCEPT ![m].major = major]
    BY <1>1
  <2>2. major \in Nat
    BY MajorAfterFailureIs
  <2>3. numdev \in [Modules -> [major : Nat, minor : Nat]]
    BY <1>3 DEF ShapeRest
  <2> QED
    BY <2>1, <2>2, <2>3
<1>7. regions' \subseteq regions /\ robbed' \subseteq Modules
  BY <1>1, <1>3, UnregisterDoes DEF ShapeRest
<1>8. DOMAIN held' = Modules
  BY <1>1, <1>3, DropPointersIs DEF ShapeRest
<1>9. ShapeRest'
  BY <1>1, <1>3, <1>4, <1>5, <1>6, <1>7, <1>8 DEF ShapeRest
<1>10. /\ held'[m] \subseteq held[m]
       /\ s.fail \in {"abort", "unwind"} => \A h \in held'[m] : h[1] \in Named
  BY <1>1, DropPointersIs
<1>11. /\ stage'[m] = "out" => s.fail \in {"abort", "unwind"}
       /\ stage'[m] = "init" => step'[m] \in 1 .. Len(Ini(m))
       /\ stage'[m] = "exit" => step'[m] \in 1 .. Len(Exi(m))
       /\ stage'[m] \in {"live", "forgot"} => step'[m] = 1
  BY <1>1, <1>2 DEF FailMoves, Advanced
<1>12. ShapeOf(m)'
  BY <1>3, <1>10, <1>11 DEF ShapeOf, Ini, Exi
<1> QED
  BY <1>1, <1>9, <1>12, ShapeOthers

LEMMA RmmodShape ==
  ASSUME Shape, NEW m \in Modules, Rmmod(m)
  PROVE  Shape'
<1>1. /\ Others(m) /\ stage[m] \in {"live", "forgot"} /\ step[m] = 1 /\ step'[m] = 1
      /\ \/ /\ stage[m] = "forgot" \/ Exi(m) = <<>>
            /\ stage'[m] = "out" /\ held' = DropPointers(m)
         \/ /\ stage[m] = "live" /\ Exi(m) # <<>>
            /\ stage'[m] = "exit" /\ held' = held
      /\ UNCHANGED <<step, clean, numdev, regions, cdevs, files, robbed, loads, faults>>
  BY RmmodDoes
<1>2. ShapeRest /\ ShapeOf(m)
  BY ShapeParts
<1>3. Exi(m) # <<>> => 1 \in 1 .. Len(Exi(m))
  BY Tables, ExitEmpty DEF Table, TableShape, TableExit
<1>4. DOMAIN held' = Modules
  BY <1>1, <1>2, DropPointersIs DEF ShapeRest
<1>5. stage' \in [Modules -> {"out", "init", "live", "forgot", "exit", "dead"}]
  BY <1>2 DEF Rmmod, ShapeRest
<1>6. ShapeRest'
  BY <1>1, <1>2, <1>4, <1>5 DEF ShapeRest
<1>7. held'[m] \subseteq held[m] /\ (stage'[m] = "out" => \A h \in held'[m] : h[1] \in Named)
  BY <1>1, DropPointersIs
<1>8. ShapeOf(m)'
  BY <1>1, <1>2, <1>3, <1>7 DEF ShapeOf, Ini, Exi
<1> QED
  BY <1>1, <1>6, <1>8, ShapeOthers

LEMMA ExitStepShape ==
  ASSUME Shape, NEW m \in Modules, ExitStep(m)
  PROVE  Shape'
<1>s. PICK s : s = Exi(m)[step[m]]
  OBVIOUS
<1>1. /\ Others(m) /\ stage[m] = "exit" /\ step[m] \in 1 .. Len(Exi(m))
      /\ IF Oops(m, s) THEN stage'[m] = "dead" /\ step'[m] = step[m]
                       ELSE Advanced(m, Exi(m), "out")
      /\ IF s.op \in {"region", "chrdev"} THEN Unregister(m, s.arg)
                                          ELSE UNCHANGED <<regions, robbed>>
      /\ cdevs' = CdevsAfter(m, s)
      /\ held' = [held EXCEPT ![m] =
                    (IF step[m] = Len(Exi(m)) THEN DropPointers(m)[m] ELSE @)
                      \ {<<s.op, s.arg>>}]
      /\ UNCHANGED <<clean, numdev, files, loads, faults>>
  BY <1>s, ExitStepDoes
<1>2. ShapeRest /\ ShapeOf(m) /\ Len(Exi(m)) \in Nat
  BY ShapeParts, Tables DEF Table, TableShape
<1>3. stage' \in [Modules -> {"out", "init", "live", "forgot", "exit", "dead"}]
      /\ step' \in [Modules -> Nat]
  <2>1. IF Oops(m, s) THEN stage' = [stage EXCEPT ![m] = "dead"] /\ UNCHANGED step
                      ELSE Advance(m, Exi(m), "out")
    BY <1>s DEF ExitStep, Exi, Oops
  <2>2. CASE Oops(m, s)
    BY <1>2, <2>1, <2>2 DEF ShapeRest
  <2>3. CASE ~Oops(m, s)
    <3>1. Advance(m, Exi(m), "out")
      BY <2>1, <2>3
    <3> QED
      BY <3>1, AdvanceShape
  <2> QED
    BY <2>2, <2>3
<1>4. regions' \subseteq regions /\ robbed' \subseteq Modules
  BY <1>1, <1>2, UnregisterDoes DEF ShapeRest
<1>5. cdevs' \subseteq cdevs /\ DOMAIN held' = Modules
  BY <1>1, <1>2 DEF CdevsAfter, ShapeRest
<1>6. ShapeRest'
  BY <1>1, <1>2, <1>3, <1>4, <1>5 DEF ShapeRest
<1>7. held'[m] = (IF step[m] = Len(Exi(m)) THEN DropPointers(m)[m] ELSE held[m])
                   \ {<<s.op, s.arg>>}
  BY <1>1, <1>2 DEF ShapeRest
<1>8. /\ held'[m] \subseteq held[m]
      /\ step[m] = Len(Exi(m)) => \A h \in held'[m] : h[1] \in Named
  BY <1>7, DropPointersIs
<1>9. /\ stage'[m] = "out" => step[m] = Len(Exi(m))
      /\ stage'[m] \notin {"init", "live", "forgot"}
      /\ stage'[m] = "exit" => step'[m] \in 1 .. Len(Exi(m))
  BY <1>1, <1>2 DEF Advanced
<1>10. ShapeOf(m)'
  BY <1>2, <1>8, <1>9 DEF ShapeOf, Ini, Exi
<1> QED
  BY <1>1, <1>6, <1>10, ShapeOthers

\* Opening and closing a device changes nothing else.
LEMMA FilesDo ==
  ASSUME NEW m \in Modules, OpenFile(m) \/ CloseFile(m)
  PROVE  /\ UNCHANGED <<stage, step, clean, numdev, held, regions, cdevs, robbed, loads, faults>>
         /\ \/ /\ files' = files \cup {m} /\ m \in Reachable
               /\ stage[m] \in {"init", "live", "forgot"}
            \/ files' = files \ {m}
  BY DEF OpenFile, CloseFile

LEMMA FilesShape ==
  ASSUME Shape, NEW m \in Modules, OpenFile(m) \/ CloseFile(m)
  PROVE  Shape'
<1>1. files' \subseteq files \cup {m}
  BY FilesDo
<1> QED
  BY <1>1, FilesDo DEF Shape, Ini, Exi

\* The actions of one module.
Acts(m) ==
  \/ \E major \in GivenMajors[m], minor \in GivenMinors[m] : Insmod(m, major, minor)
  \/ InitStep(m) \/ InitFails(m) \/ Rmmod(m) \/ ExitStep(m)
  \/ OpenFile(m) \/ CloseFile(m)

\* Every action keeps the shape.
LEMMA ShapeStep ==
  ASSUME Shape, NEW m \in Modules, Acts(m)
  PROVE  Shape'
  BY InsmodShape, InitStepShape, InitFailsShape, RmmodShape, ExitStepShape, FilesShape DEF Acts

-----------------------------------------------------------------------------
(* The place of a module in its init or exit.                               *)

\* The place of a module depends on its own stage and step only.
LEMMA PlaceOthers ==
  ASSUME NEW m \in Modules, Others(m), NEW k \in Modules \ {m}, NEW op, NEW arg
  PROVE  AtPlace(k, op, arg)' <=> AtPlace(k, op, arg)
<1>1. stage'[k] = stage[k] /\ step'[k] = step[k]
  BY DEF Others
<1> QED
  BY <1>1 DEF AtPlace, Ini, Exi

LEMMA PlaceSame ==
  ASSUME UNCHANGED <<stage, step>>, NEW k, NEW op, NEW arg
  PROVE  AtPlace(k, op, arg)' <=> AtPlace(k, op, arg)
  BY DEF AtPlace, Ini, Exi

\* A step of init puts what it takes in its place, and moves nothing else.
LEMMA InitStepPlace ==
  ASSUME Shape, NEW m \in Modules, InitStep(m), NEW s, s = Ini(m)[step[m]]
  PROVE  /\ AtPlace(m, s.op, s.arg)'
         /\ \A op, arg : AtPlace(m, op, arg) => AtPlace(m, op, arg)'
<1>1. /\ stage[m] = "init" /\ step[m] \in 1 .. Len(Ini(m)) /\ Len(Ini(m)) \in Nat
      /\ Advanced(m, Ini(m), "live")
  BY InitStepDoes, Tables DEF Table, TableShape
<1>2. ASSUME NEW i \in 1 .. Len(Ini(m)), i <= step[m]
      PROVE  AtPlace(m, Ini(m)[i].op, Ini(m)[i].arg)'
  <2>1. stage'[m] \in {"init", "live"} /\ (stage'[m] = "init" => i < step'[m])
    BY <1>1, <1>2 DEF Advanced
  <2> QED
    BY <2>1 DEF AtPlace, Ini, Exi
<1>3. ASSUME NEW op, NEW arg, AtPlace(m, op, arg) PROVE AtPlace(m, op, arg)'
  <2>1. PICK i \in 1 .. Len(Ini(m)) : /\ Ini(m)[i].op = op /\ Ini(m)[i].arg = arg
                                      /\ i < step[m]
    BY <1>1, <1>3 DEF AtPlace
  <2>2. i <= step[m]
    BY <1>1, <2>1
  <2>3. AtPlace(m, Ini(m)[i].op, Ini(m)[i].arg)'
    BY <1>2, <2>2
  <2> QED
    BY <2>1, <2>3
<1>4. AtPlace(m, s.op, s.arg)'
  <2>1. PICK i \in 1 .. Len(Ini(m)) : i = step[m]
    BY <1>1
  <2>2. AtPlace(m, Ini(m)[i].op, Ini(m)[i].arg)' /\ Ini(m)[i] = s
    BY <1>1, <1>2, <2>1
  <2> QED
    BY <2>2
<1> QED
  BY <1>3, <1>4

\* What is not followed to its end: memory, nodes and GPIOs.
Followed(op) == op \notin {"mem", "node", "gpio"}

\* When a step of init fails, what was taken keeps its place: exit will come to it,
\* or the rest of exit that rpmsg_char_init goes through does.  An init that returns an
\* error without giving back has made no device, or is one known to leave it behind.
LEMMA InitFailsPlace ==
  ASSUME Shape, NEW m \in Modules, InitFails(m), NEW s, s = Ini(m)[step[m]],
         NEW op, NEW arg, AtPlace(m, op, arg), Followed(op)
  PROVE  \/ AtPlace(m, op, arg)'
         \/ /\ s.fail \in {"abort", "unwind"} /\ m # "RpmsgCharDrv"
            /\ m \in LeaveHandlers \/ op \notin Serving
<1>1. /\ stage[m] = "init" /\ step[m] \in 1 .. Len(Ini(m)) /\ Len(Ini(m)) \in Nat
      /\ FailMoves(m, s)
  BY InitFailsDoes, Tables DEF Table, TableShape
<1>2. TableFail(m, Ini(m), Exi(m))
  BY Tables DEF Table
<1>3. PICK i \in 1 .. Len(Ini(m)) : /\ Ini(m)[i].op = op /\ Ini(m)[i].arg = arg
                                    /\ i < step[m] /\ i \in 1 .. step[m] - 1
  BY <1>1 DEF AtPlace
<1>4. CASE s.fail = "ignore"
  <2>1. stage'[m] \in {"init", "live"} /\ (stage'[m] = "init" => i < step'[m])
    BY <1>1, <1>3, <1>4 DEF FailMoves, Advanced
  <2> QED
    BY <1>3, <2>1 DEF AtPlace, Ini, Exi
<1>5. CASE s.fail \in {"stop", "forget", "die"}
  <2>1. stage'[m] \in {"live", "forgot", "dead"}
    BY <1>1, <1>5 DEF FailMoves
  <2> QED
    BY <1>3, <2>1 DEF AtPlace, Ini, Exi
<1>6. CASE s.fail \in {"abort", "unwind"}
  <2>1. m # "RpmsgCharDrv"
    <3>1. SUFFICES ASSUME m = "RpmsgCharDrv" PROVE FALSE
      OBVIOUS
    <3>2. step[m] = 1
      BY <1>1, <1>2, <1>6, <3>1 DEF TableFail
    <3> QED
      BY <1>3, <3>2
  <2>2. m \notin LeaveHandlers => op \notin Serving
    BY <1>1, <1>2, <1>3, <1>6 DEF TableFail
  <2> QED
    BY <1>6, <2>1, <2>2
<1>7. CASE s.fail = "back"
  <2>1. /\ stage'[m] = "exit" /\ step'[m] = Len(Exi(m)) + 2 - step[m]
    BY <1>1, <1>7 DEF FailMoves
  <2>2. GivesBack(Ini(m), Exi(m), step[m], step'[m])
    BY <1>1, <1>2, <1>7, <2>1 DEF TableFail
  <2>3. \E k \in step'[m] .. Len(Exi(m)) : Exi(m)[k].op = Opposite(op) /\ Exi(m)[k].arg = arg
    BY <1>3, <2>2 DEF GivesBack, Followed
  <2> QED
    BY <1>3, <2>1, <2>3 DEF AtPlace, Ini, Exi
<1>8. s.fail \in {"ignore", "stop", "forget", "abort", "unwind", "back", "die"}
  BY <1>1, Tables DEF Table, TableShape
<1> QED
  BY <1>4, <1>5, <1>6, <1>7, <1>8

\* exit comes to everything that init has taken.
LEMMA RmmodPlace ==
  ASSUME Shape, NEW m \in Modules, Rmmod(m),
         NEW op, NEW arg, AtPlace(m, op, arg), Followed(op)
  PROVE  AtPlace(m, op, arg)' \/ m = "DriverRegist" \/ stage[m] = "forgot"
<1>1. SUFFICES ASSUME m # "DriverRegist", stage[m] # "forgot" PROVE AtPlace(m, op, arg)'
  OBVIOUS
<1>2. Exi(m) # <<>>
  BY <1>1, ExitEmpty
<1>3. stage[m] = "live" /\ stage'[m] = "exit" /\ step'[m] = 1
  BY <1>1, <1>2, RmmodDoes
<1>4. GivesBack(Ini(m), Exi(m), Len(Ini(m)) + 1, 1) /\ Len(Ini(m)) \in Nat
  BY <1>1, Tables DEF Table, TableExit, TableShape
<1>5. PICK i \in 1 .. Len(Ini(m)) : Ini(m)[i].op = op /\ Ini(m)[i].arg = arg
  BY DEF AtPlace
<1>6. \E k \in 1 .. Len(Exi(m)) : Exi(m)[k].op = Opposite(op) /\ Exi(m)[k].arg = arg
  <2>1. i \in 1 .. (Len(Ini(m)) + 1) - 1
    BY <1>4
  <2> QED
    BY <1>4, <1>5, <2>1 DEF GivesBack, Followed
<1> QED
  BY <1>3, <1>5, <1>6 DEF AtPlace, Ini, Exi

\* A step of exit takes out of its place what it gives back, and nothing else.
LEMMA ExitStepPlace ==
  ASSUME Shape, NEW m \in Modules, ExitStep(m), NEW s, s = Exi(m)[step[m]],
         NEW op, NEW arg, AtPlace(m, op, arg)
  PROVE  AtPlace(m, op, arg)' \/ (s.op = Opposite(op) /\ s.arg = arg)
<1>1. /\ stage[m] = "exit" /\ step[m] \in 1 .. Len(Exi(m)) /\ Len(Exi(m)) \in Nat
      /\ IF Oops(m, s) THEN stage'[m] = "dead" /\ step'[m] = step[m]
                       ELSE Advanced(m, Exi(m), "out")
  BY ExitStepDoes, Tables DEF Table, TableShape
<1>2. PICK i \in 1 .. Len(Ini(m)) : Ini(m)[i].op = op /\ Ini(m)[i].arg = arg
  BY DEF AtPlace
<1>3. PICK k \in step[m] .. Len(Exi(m)) : Exi(m)[k].op = Opposite(op) /\ Exi(m)[k].arg = arg
  BY <1>1 DEF AtPlace
<1>4. CASE Oops(m, s)
  BY <1>1, <1>2, <1>4 DEF AtPlace, Ini, Exi
<1>5. CASE ~Oops(m, s) /\ k # step[m]
  <2>1. stage'[m] = "exit" /\ step'[m] = step[m] + 1 /\ k \in step'[m] .. Len(Exi(m))
    BY <1>1, <1>3, <1>5 DEF Advanced
  <2> QED
    BY <1>2, <1>3, <2>1 DEF AtPlace, Ini, Exi
<1>6. CASE k = step[m]
  BY <1>3, <1>6
<1> QED
  BY <1>4, <1>5, <1>6

-----------------------------------------------------------------------------
(* The inductive invariant, conjunct by conjunct.                           *)

\* What an action of one module leaves alone.
LEMMA ActsFrame ==
  ASSUME Shape, NEW m \in Modules, Acts(m)
  PROVE  /\ Others(m) /\ clean' \subseteq clean /\ robbed \subseteq robbed'
         /\ \A c \in cdevs' \ cdevs : c.mod = m
         /\ \A r \in regions' \ regions : r.mod = m
         /\ \A r \in regions \ regions' : r.mod = m \/ r.mod \in robbed'
<1>1. ASSUME NEW major, NEW minor, Insmod(m, major, minor)
      PROVE  Others(m) /\ UNCHANGED <<clean, robbed, cdevs, regions>>
  BY <1>1, InsmodDoes
<1>2. ASSUME InitStep(m)
      PROVE  /\ Others(m) /\ UNCHANGED <<clean, robbed>>
             /\ \A c \in cdevs' \ cdevs : c.mod = m
             /\ \A r \in regions' \ regions : r.mod = m
             /\ regions \subseteq regions'
  <2>s. PICK s : s = Ini(m)[step[m]]
    OBVIOUS
  <2>1. /\ Others(m) /\ UNCHANGED <<clean, robbed>>
        /\ Register(m, s) \/ AddCdev(m, s) \/ Hold(m, s) \/ NothingToDo(m, s)
    BY <1>2, <2>s, InitStepDoes
  <2>2. s.op \in RegionOps => s.arg \in Nat \ {0}
    BY <1>2, <2>s, Tables, InitStepDoes DEF Table, TableShape
  <2>3. CASE Register(m, s)
    <3>1. PICK r \in Free(m, s.arg) :
            /\ regions' = regions \cup {r}
            /\ cdevs' = IF s.op = "chrdev" THEN cdevs \cup {r} ELSE cdevs
      BY <2>3 DEF Register
    <3>2. r.mod = m
      BY <2>2, <2>3, FreeIs DEF Register, RegionOps
    <3> QED
      BY <2>1, <3>1, <3>2
  <2>4. CASE AddCdev(m, s)
    BY <2>1, <2>4 DEF AddCdev, Numbers
  <2>5. CASE Hold(m, s) \/ NothingToDo(m, s)
    BY <2>1, <2>5 DEF Hold, NothingToDo
  <2> QED
    BY <2>1, <2>3, <2>4, <2>5
<1>3. ASSUME InitFails(m)
      PROVE  /\ Others(m) /\ clean' \subseteq clean /\ robbed \subseteq robbed'
             /\ cdevs' = cdevs /\ regions' \subseteq regions
             /\ \A r \in regions \ regions' : r.mod = m \/ r.mod \in robbed'
  <2>s. PICK s : s = Ini(m)[step[m]]
    OBVIOUS
  <2>1. /\ Others(m) /\ clean' \subseteq clean /\ cdevs' = cdevs
        /\ Unregister(m, 2) \/ UNCHANGED <<regions, robbed>>
    BY <1>3, <2>s, InitFailsDoes
  <2> QED
    BY <2>1, UnregisterDoes
<1>4. ASSUME Rmmod(m)
      PROVE  Others(m) /\ UNCHANGED <<clean, robbed, cdevs, regions>>
  BY <1>4, RmmodDoes
<1>5. ASSUME ExitStep(m)
      PROVE  /\ Others(m) /\ clean' = clean /\ robbed \subseteq robbed'
             /\ cdevs' \subseteq cdevs /\ regions' \subseteq regions
             /\ \A r \in regions \ regions' : r.mod = m \/ r.mod \in robbed'
  <2>s. PICK s : s = Exi(m)[step[m]]
    OBVIOUS
  <2>1. /\ Others(m) /\ clean' = clean /\ cdevs' = CdevsAfter(m, s)
        /\ Unregister(m, s.arg) \/ UNCHANGED <<regions, robbed>>
    BY <1>5, <2>s, ExitStepDoes
  <2>2. cdevs' \subseteq cdevs
    BY <2>1 DEF CdevsAfter
  <2> QED
    BY <2>1, <2>2, UnregisterDoes
<1>6. ASSUME OpenFile(m) \/ CloseFile(m)
      PROVE  Others(m) /\ UNCHANGED <<clean, robbed, cdevs, regions>>
  BY <1>6, FilesDo DEF Others
<1> QED
  BY <1>1, <1>2, <1>3, <1>4, <1>5, <1>6 DEF Acts

\* What is tracked is followed to its end.
LEMMA TrackedIs ==
  ASSUME NEW m \in Modules, NEW op, Tracked(m, op)
  PROVE  /\ Followed(op) /\ Opposite(op) = op /\ m # "DriverRegist"
         /\ m \notin LeaveHandlers => op \in Serving \/ m \in Neat
         /\ m \in LeaveHandlers => m \in clean
  BY DEF Tracked, Followed, Opposite, LeaveHandlers, Serving, Neat

\* A name that is held will be given back.
LEMMA HeldPlaceStep ==
  ASSUME Shape, ForgotOne, CleanHas, HeldPlace, NEW m \in Modules, Acts(m)
  PROVE  HeldPlace'
<1> SUFFICES ASSUME NEW k \in Modules, NEW h \in held'[k], Tracked(k, h[1])'
             PROVE  AtPlace(k, h[1], h[2])'
  BY DEF HeldPlace
<1>1. Others(m) /\ clean' \subseteq clean
  BY ActsFrame
<1>2. Tracked(k, h[1])
  BY <1>1 DEF Tracked, Neat
<1>3. /\ Followed(h[1]) /\ Opposite(h[1]) = h[1] /\ k # "DriverRegist"
      /\ k \in LeaveHandlers => k \in clean'
  BY <1>2, TrackedIs DEF Tracked, LeaveHandlers, Neat
<1>4. h \in held[k] => AtPlace(k, h[1], h[2])
  BY <1>2 DEF HeldPlace
<1>5. CASE k # m
  <2>1. h \in held[k]
    BY <1>1, <1>5 DEF Others
  <2> QED
    BY <1>1, <1>4, <1>5, <2>1, PlaceOthers
<1>6. ASSUME k = m, NEW major, NEW minor, Insmod(m, major, minor)
      PROVE  AtPlace(k, h[1], h[2])'
  <2>1. h \in held[k] /\ stage[k] = "out"
    BY <1>6, InsmodDoes
  <2> QED
    BY <1>4, <2>1 DEF AtPlace
<1>7. ASSUME k = m, InitStep(m) PROVE AtPlace(k, h[1], h[2])'
  <2>s. PICK s : s = Ini(m)[step[m]]
    OBVIOUS
  <2>1. Register(m, s) \/ AddCdev(m, s) \/ Hold(m, s) \/ NothingToDo(m, s)
    BY <1>7, <2>s, InitStepDoes
  <2>2. h \in held[k] \/ h = <<s.op, s.arg>>
    BY <1>7, <2>1 DEF Register, AddCdev, Hold, NothingToDo, Shape
  <2>3. CASE h \in held[k]
    BY <1>4, <1>7, <2>s, <2>3, InitStepPlace
  <2>4. CASE h = <<s.op, s.arg>>
    BY <1>7, <2>s, <2>4, InitStepPlace
  <2> QED
    BY <2>2, <2>3, <2>4
<1>8. ASSUME k = m, InitFails(m) PROVE AtPlace(k, h[1], h[2])'
  <2>s. PICK s : s = Ini(m)[step[m]]
    OBVIOUS
  <2>1. m \notin clean' /\ held'[m] \subseteq held[m]
    BY <1>8, <2>s, InitFailsDoes, DropPointersIs
  <2>2. AtPlace(k, h[1], h[2])
    BY <1>4, <1>8, <2>1
  <2>3. m # "RpmsgCharDrv" => m \notin LeaveHandlers /\ h[1] \in Serving
    BY <1>8, <1>3, <2>1 DEF Tracked, Neat, Serving
  <2> QED
    BY <1>3, <1>8, <2>s, <2>2, <2>3, InitFailsPlace
<1>9. ASSUME k = m, Rmmod(m) PROVE AtPlace(k, h[1], h[2])'
  <2>1. h \in held[k]
    BY <1>9, RmmodDoes, DropPointersIs
  <2>2. stage[m] # "forgot"
    BY <1>1, <1>3, <1>9 DEF ForgotOne, CleanHas, LeaveHandlers
  <2> QED
    BY <1>3, <1>4, <1>9, <2>1, <2>2, RmmodPlace
<1>10. ASSUME k = m, ExitStep(m) PROVE AtPlace(k, h[1], h[2])'
  <2>s. PICK s : s = Exi(m)[step[m]]
    OBVIOUS
  <2>1. h \in held[k] /\ h # <<s.op, s.arg>>
    BY <1>10, <2>s, ExitStepDoes, DropPointersIs DEF Shape
  <2>2. h = <<h[1], h[2]>>
    BY <2>1 DEF Shape
  <2> QED
    BY <1>3, <1>4, <1>10, <2>s, <2>1, <2>2, ExitStepPlace
<1>11. ASSUME k = m, OpenFile(m) \/ CloseFile(m) PROVE AtPlace(k, h[1], h[2])'
  BY <1>4, <1>11, FilesDo, PlaceSame
<1> QED
  BY <1>5, <1>6, <1>7, <1>8, <1>9, <1>10, <1>11 DEF Acts

\* Which modules have a cdev, or numbers of their own.
LEMMA PlaceModule ==
  ASSUME NEW m \in Modules, NEW op, NEW arg, AtPlace(m, op, arg)
  PROVE  /\ stage[m] # "out"
         /\ op = "chrdev" => m = "MemMapDev"
         /\ op = "cdev" => m \notin {"MemMapDev", "DCdevNum", "SCdevNum"}
         /\ op \in RegionOps \cup {"cdev"} => m # "DriverRegist"
<1>1. PICK i \in 1 .. Len(Ini(m)) : Ini(m)[i].op = op
  BY DEF AtPlace
<1>2. TableRegion(m, Ini(m), Exi(m)) /\ Len(Ini(m)) \in Nat
  BY Tables DEF Table, TableShape
<1>3. op \in RegionOps \cup {"cdev"} => \E j \in 1 .. Len(Ini(m)) : Ini(m)[j].op \in RegionOps
  <2>1. CASE op \in RegionOps
    BY <1>1, <2>1
  <2>2. CASE op = "cdev"
    <3>1. PICK j \in 1 .. i - 1 : Ini(m)[j].op = "region"
      BY <1>1, <1>2, <2>2 DEF TableRegion
    <3>2. j \in 1 .. Len(Ini(m))
      BY <1>2
    <3> QED
      BY <3>1, <3>2 DEF RegionOps
  <2> QED
    BY <2>1, <2>2
<1>4. m = "DriverRegist" => 1 .. Len(Exi(m)) = {}
  BY ExitEmpty
<1>5. op \in RegionOps \cup {"cdev"} => m # "DriverRegist"
  BY <1>2, <1>3, <1>4 DEF TableRegion
<1> QED
  BY <1>1, <1>2, <1>5 DEF AtPlace, TableRegion

\* Numbers are registered before anything else is done with them, and once.
LEMMA RegionFirst ==
  ASSUME Shape, NEW m \in Modules, stage[m] = "init", NEW op \in RegionOps \cup {"cdev"},
         NEW arg, AtPlace(m, op, arg)
  PROVE  Ini(m)[step[m]].op \notin RegionOps
<1>1. PICK i \in 1 .. Len(Ini(m)) : Ini(m)[i].op = op /\ i < step[m]
  BY DEF AtPlace
<1>2. TableRegion(m, Ini(m), Exi(m)) /\ step[m] \in 1 .. Len(Ini(m)) /\ Len(Ini(m)) \in Nat
  BY Tables DEF Table, TableShape, Shape
<1>3. \E j \in 1 .. Len(Ini(m)) : j < step[m] /\ Ini(m)[j].op \in RegionOps
  <2>1. CASE op \in RegionOps
    BY <1>1, <2>1
  <2>2. CASE op = "cdev"
    <3>1. PICK j \in 1 .. i - 1 : Ini(m)[j].op = "region"
      BY <1>1, <1>2, <2>2 DEF TableRegion
    <3>2. j \in 1 .. Len(Ini(m)) /\ j < step[m]
      BY <1>1, <1>2
    <3> QED
      BY <3>1, <3>2 DEF RegionOps
  <2> QED
    BY <2>1, <2>2
<1> QED
  BY <1>2, <1>3 DEF TableRegion

\* A cdev has the major that exit will look for, and exit will come to delete it.
LEMMA CdevPlaceStep ==
  ASSUME Shape, ForgotOne, CleanHas, CdevPlace, NEW m \in Modules, Acts(m)
  PROVE  CdevPlace'
<1> DEFINE Placed(c) == \/ AtPlace(c.mod, "cdev", c.base) /\ c.n = 1
                        \/ AtPlace(c.mod, "chrdev", c.n)
<1> SUFFICES ASSUME NEW c \in cdevs', (c.mod \in CdevGood)'
             PROVE  c.major = numdev'[c.mod].major /\ Placed(c)'
  BY DEF CdevPlace
<1>1. Others(m) /\ clean' \subseteq clean /\ (c \in cdevs \/ c.mod = m)
  BY ActsFrame
<1>2. c.mod \in Modules
  BY ShapeStep DEF Shape, Records
<1>3. c \in cdevs => c.major = numdev[c.mod].major /\ Placed(c)
  BY <1>1 DEF CdevGood, CdevPlace
<1>4. CASE c.mod # m
  BY <1>1, <1>2, <1>3, <1>4, PlaceOthers DEF Others
<1>5. ASSUME c.mod = m, NEW major, NEW minor, Insmod(m, major, minor)
      PROVE  c.major = numdev'[c.mod].major /\ Placed(c)'
  <2>1. c \in cdevs /\ stage[m] = "out"
    BY <1>5, InsmodDoes
  <2> QED
    BY <1>3, <1>5, <2>1, PlaceModule
<1>6. ASSUME c.mod = m, InitStep(m)
      PROVE  c.major = numdev'[c.mod].major /\ Placed(c)'
  <2>s. PICK s : s = Ini(m)[step[m]]
    OBVIOUS
  <2>1. /\ stage[m] = "init" /\ step[m] \in 1 .. Len(Ini(m))
        /\ Register(m, s) \/ AddCdev(m, s) \/ Hold(m, s) \/ NothingToDo(m, s)
    BY <1>6, <2>s, InitStepDoes
  <2>2. AtPlace(m, s.op, s.arg)' /\ (Placed(c) => Placed(c)')
    BY <1>6, <2>s, InitStepPlace
  <2>3. CASE Register(m, s)
    <3>1. PICK r \in Free(m, s.arg) :
            /\ numdev' = [numdev EXCEPT ![m].major = r.major]
            /\ cdevs' = IF s.op = "chrdev" THEN cdevs \cup {r} ELSE cdevs
      BY <2>3 DEF Register
    <3>2. s.op \in RegionOps /\ s.arg \in Nat \ {0}
      BY <2>1, <2>3, <2>s, Tables DEF Register, RegionOps, Table, TableShape
    <3>3. c \notin cdevs
      BY <1>3, <1>6, <2>1, <2>s, <3>2, RegionFirst DEF RegionOps
    <3>4. c = r /\ s.op = "chrdev"
      BY <3>1, <3>3
    <3>5. r.mod = m /\ r.n = s.arg /\ numdev'[m].major = r.major
      BY <3>1, <3>2, FreeIs DEF Shape
    <3> QED
      BY <2>2, <3>4, <3>5
  <2>4. CASE AddCdev(m, s)
    <3>1. UNCHANGED numdev /\ s.op = "cdev"
          /\ (c \in cdevs \/ c = Numbers(m, numdev[m].major, s.arg, 1))
      BY <2>4 DEF AddCdev
    <3> QED
      BY <1>3, <1>6, <2>2, <3>1 DEF Numbers
  <2>5. CASE Hold(m, s) \/ NothingToDo(m, s)
    BY <1>3, <2>2, <2>5 DEF Hold, NothingToDo
  <2> QED
    BY <2>1, <2>3, <2>4, <2>5
<1>7. ASSUME c.mod = m, InitFails(m)
      PROVE  c.major = numdev'[c.mod].major /\ Placed(c)'
  <2>s. PICK s : s = Ini(m)[step[m]]
    OBVIOUS
  <2>1. /\ stage[m] = "init" /\ c \in cdevs /\ m \notin clean'
        /\ \E major \in MajorAfterFailure(m, s) :
             numdev' = [numdev EXCEPT ![m].major = major]
    BY <1>7, <2>s, InitFailsDoes
  <2>2. s.op # "region"
    BY <1>3, <1>7, <2>1, <2>s, RegionFirst DEF RegionOps
  <2>3. numdev'[m].major = numdev[m].major
    BY <2>1, <2>2, MajorAfterFailureIs DEF Shape
  <2>4. m \notin LeaveHandlers
    BY <1>3, <1>7, <2>1, PlaceModule DEF CdevGood, LeaveHandlers, RegionOps
  <2>5. Followed("cdev") /\ Followed("chrdev") /\ {"cdev", "chrdev"} \subseteq Serving
    BY DEF Followed, Serving
  <2>6. Placed(c)'
    BY <1>3, <1>7, <2>s, <2>1, <2>4, <2>5, InitFailsPlace
  <2> QED
    BY <1>3, <1>7, <2>1, <2>3, <2>6
<1>8. ASSUME c.mod = m, Rmmod(m)
      PROVE  c.major = numdev'[c.mod].major /\ Placed(c)'
  <2>1. c \in cdevs /\ UNCHANGED numdev
    BY <1>8, RmmodDoes
  <2>2. stage[m] # "forgot"
    BY <1>1, <1>8 DEF ForgotOne, CleanHas, CdevGood
  <2>3. Followed("cdev") /\ Followed("chrdev") /\ m # "DriverRegist"
    BY <1>3, <1>8, <2>1, PlaceModule DEF Followed, RegionOps
  <2> QED
    BY <1>3, <1>8, <2>1, <2>2, <2>3, RmmodPlace
<1>9. ASSUME c.mod = m, ExitStep(m)
      PROVE  c.major = numdev'[c.mod].major /\ Placed(c)'
  <2>s. PICK s : s = Exi(m)[step[m]]
    OBVIOUS
  <2>1. cdevs' = CdevsAfter(m, s) /\ UNCHANGED numdev
    BY <1>9, <2>s, ExitStepDoes
  <2>2. c \in cdevs
    BY <2>1 DEF CdevsAfter
  <2>3. ~(s.op = "cdev" /\ s.arg = c.base) /\ s.op # "chrdev"
    BY <1>3, <1>9, <2>1, <2>2 DEF CdevsAfter
  <2>4. Opposite("cdev") = "cdev" /\ Opposite("chrdev") = "chrdev"
    BY DEF Opposite
  <2> QED
    BY <1>3, <1>9, <2>s, <2>1, <2>2, <2>3, <2>4, ExitStepPlace
<1>10. ASSUME OpenFile(m) \/ CloseFile(m)
       PROVE  c.major = numdev'[c.mod].major /\ Placed(c)'
  BY <1>3, <1>10, FilesDo, PlaceSame
<1> QED
  BY <1>4, <1>5, <1>6, <1>7, <1>8, <1>9, <1>10 DEF Acts

\* The same for numbers.
LEMMA RegionPlaceStep ==
  ASSUME Shape, ForgotOne, CleanHas, RegionPlace, NEW m \in Modules, Acts(m)
  PROVE  RegionPlace'
<1> DEFINE Placed(r) == \E op \in RegionOps : AtPlace(r.mod, op, r.n)
           Numbered1(r) == r.major = numdev[r.mod].major /\ r.base = numdev[r.mod].minor
<1> SUFFICES ASSUME NEW r \in regions', (r.mod \in Neat)'
             PROVE  Numbered1(r)' /\ Placed(r)'
  BY DEF RegionPlace
<1>1. Others(m) /\ clean' \subseteq clean /\ (r \in regions \/ r.mod = m)
  BY ActsFrame
<1>2. r.mod \in Modules
  BY ShapeStep DEF Shape, Records
<1>3. r \in regions => Numbered1(r) /\ Placed(r)
  BY <1>1 DEF Neat, RegionPlace
<1>4. CASE r.mod # m
  BY <1>1, <1>2, <1>3, <1>4, PlaceOthers DEF Others
<1>5. ASSUME r.mod = m, NEW major, NEW minor, Insmod(m, major, minor)
      PROVE  Numbered1(r)' /\ Placed(r)'
  <2>1. r \in regions /\ stage[m] = "out"
    BY <1>5, InsmodDoes
  <2> QED
    BY <1>3, <1>5, <2>1, PlaceModule
<1>6. ASSUME r.mod = m, InitStep(m)
      PROVE  Numbered1(r)' /\ Placed(r)'
  <2>s. PICK s : s = Ini(m)[step[m]]
    OBVIOUS
  <2>1. /\ stage[m] = "init" /\ step[m] \in 1 .. Len(Ini(m))
        /\ Register(m, s) \/ AddCdev(m, s) \/ Hold(m, s) \/ NothingToDo(m, s)
    BY <1>6, <2>s, InitStepDoes
  <2>2. AtPlace(m, s.op, s.arg)' /\ (Placed(r) => Placed(r)')
    BY <1>6, <2>s, InitStepPlace
  <2>3. CASE Register(m, s)
    <3>1. PICK q \in Free(m, s.arg) :
            /\ numdev' = [numdev EXCEPT ![m].major = q.major]
            /\ regions' = regions \cup {q}
      BY <2>3 DEF Register
    <3>2. s.op \in RegionOps /\ s.arg \in Nat \ {0}
      BY <2>1, <2>3, <2>s, Tables DEF Register, RegionOps, Table, TableShape
    <3>3. r \notin regions
      BY <1>3, <1>6, <2>1, <2>s, <3>2, RegionFirst
    <3>4. r = q
      BY <3>1, <3>3
    <3>5. q.mod = m /\ q.n = s.arg /\ q.base = numdev[m].minor
      BY <3>1, <3>2, FreeIs
    <3>6. numdev'[m].major = q.major /\ numdev'[m].minor = numdev[m].minor
      BY <3>1 DEF Shape
    <3> QED
      BY <2>2, <3>2, <3>4, <3>5, <3>6
  <2>4. CASE AddCdev(m, s) \/ Hold(m, s) \/ NothingToDo(m, s)
    BY <1>3, <2>2, <2>4 DEF AddCdev, Hold, NothingToDo
  <2> QED
    BY <2>1, <2>3, <2>4
<1>7. ASSUME r.mod = m, InitFails(m)
      PROVE  Numbered1(r)' /\ Placed(r)'
  <2>s. PICK s : s = Ini(m)[step[m]]
    OBVIOUS
  <2>1. /\ stage[m] = "init" /\ m \notin clean'
        /\ \E major \in MajorAfterFailure(m, s) :
             numdev' = [numdev EXCEPT ![m].major = major]
        /\ Unregister(m, 2) \/ UNCHANGED regions
    BY <1>7, <2>s, InitFailsDoes
  <2>2. r \in regions
    BY <2>1, UnregisterDoes
  <2>3. s.op # "region"
    BY <1>3, <1>7, <2>1, <2>2, <2>s, RegionFirst DEF RegionOps
  <2>4. numdev'[m].major = numdev[m].major /\ numdev'[m].minor = numdev[m].minor
    BY <2>1, <2>3, MajorAfterFailureIs DEF Shape
  <2>5. m = "RpmsgCharDrv"
    BY <1>7, <2>1 DEF Neat
  <2>6. \A op \in RegionOps : Followed(op)
    BY DEF Followed, RegionOps
  <2>7. Placed(r)'
    BY <1>3, <1>7, <2>s, <2>2, <2>5, <2>6, InitFailsPlace
  <2> QED
    BY <1>3, <1>7, <2>2, <2>4, <2>7
<1>8. ASSUME r.mod = m, Rmmod(m)
      PROVE  Numbered1(r)' /\ Placed(r)'
  <2>1. r \in regions /\ UNCHANGED numdev
    BY <1>8, RmmodDoes
  <2>2. stage[m] # "forgot"
    BY <1>1, <1>8 DEF ForgotOne, CleanHas, Neat
  <2>3. m # "DriverRegist" /\ \A op \in RegionOps : Followed(op)
    BY <1>3, <1>8, <2>1, PlaceModule DEF Followed, RegionOps
  <2> QED
    BY <1>3, <1>8, <2>1, <2>2, <2>3, RmmodPlace
<1>9. ASSUME r.mod = m, ExitStep(m)
      PROVE  Numbered1(r)' /\ Placed(r)'
  <2>s. PICK s : s = Exi(m)[step[m]]
    OBVIOUS
  <2>1. /\ UNCHANGED numdev
        /\ IF s.op \in {"region", "chrdev"} THEN Unregister(m, s.arg) ELSE UNCHANGED regions
    BY <1>9, <2>s, ExitStepDoes
  <2>2. r \in regions
    BY <2>1, UnregisterDoes
  <2>3. ~(s.op \in {"region", "chrdev"} /\ s.arg = r.n)
    BY <1>3, <1>9, <2>1, <2>2, UnregisterDoes
  <2>4. \A op \in RegionOps : Opposite(op) \in {"region", "chrdev"}
    BY DEF Opposite, RegionOps
  <2> QED
    BY <1>3, <1>9, <2>s, <2>1, <2>2, <2>3, <2>4, ExitStepPlace
<1>10. ASSUME OpenFile(m) \/ CloseFile(m)
       PROVE  Numbered1(r)' /\ Placed(r)'
  BY <1>3, <1>10, FilesDo, PlaceSame
<1> QED
  BY <1>4, <1>5, <1>6, <1>7, <1>8, <1>9, <1>10 DEF Acts

\* A file was opened through a device that the init had made by then.
Offered(m) ==
  \E i \in 1 .. Len(Ini(m)) :
    /\ Ini(m)[i].op \in {"cdev", "misc"}
    /\ stage[m] = "init" => i < step[m]

\* Where the device comes from that the kernel reaches a module through.
LEMMA ReachableOffered ==
  ASSUME Shape, CdevPlace, HeldPlace, NEW m \in Modules \ LeaveHandlers, m \in Reachable
  PROVE  \E op \in {"cdev", "misc"} : \E arg : AtPlace(m, op, arg)
<1>1. CASE \E c \in cdevs : c.mod = m
  <2>1. PICK c \in cdevs : c.mod = m
    BY <1>1
  <2>2. m \in CdevGood /\ m # "MemMapDev"
    BY DEF CdevGood, LeaveHandlers
  <2> QED
    BY <2>1, <2>2, PlaceModule DEF CdevPlace
<1>2. CASE \E h \in held[m] : h[1] = "misc"
  BY <1>2 DEF HeldPlace, Tracked, LeaveHandlers
<1> QED
  BY <1>1, <1>2 DEF Reachable

\* No module with an open file leaves.
LEMMA FilesPlaceStep ==
  ASSUME Shape, CdevPlace, HeldPlace, FilesPlace, NEW m \in Modules, Acts(m)
  PROVE  FilesPlace'
<1> SUFFICES ASSUME NEW k \in files' \ LeaveHandlers
             PROVE  stage'[k] \notin {"out", "exit"} /\ Offered(k)'
  BY DEF FilesPlace, Offered
<1>1. Others(m) /\ k \in Modules
  BY ActsFrame, ShapeStep DEF Shape
<1>2. k \in files => stage[k] \notin {"out", "exit"} /\ Offered(k)
  BY DEF FilesPlace, Offered
<1>3. CASE k # m
  <2>1. k \in files
    BY <1>3, FilesDo, InitStepDoes, InsmodDoes, InitFailsDoes, RmmodDoes, ExitStepDoes DEF Acts
  <2> QED
    BY <1>1, <1>2, <1>3, <2>1 DEF Others, Offered, Ini
<1>4. ASSUME k = m, NEW major, NEW minor, Insmod(m, major, minor) PROVE FALSE
  BY <1>2, <1>4, InsmodDoes
<1>5. ASSUME k = m, InitStep(m)
      PROVE  stage'[k] \notin {"out", "exit"} /\ Offered(k)'
  <2>1. /\ stage[m] = "init" /\ step[m] \in 1 .. Len(Ini(m)) /\ Len(Ini(m)) \in Nat
        /\ Advanced(m, Ini(m), "live") /\ k \in files
    BY <1>5, InitStepDoes, Tables DEF Table, TableShape
  <2>2. Offered(k)'
    BY <1>2, <1>5, <2>1 DEF Offered, Advanced, Ini
  <2> QED
    BY <1>5, <2>1, <2>2 DEF Advanced
<1>6. ASSUME k = m, InitFails(m)
      PROVE  stage'[k] \notin {"out", "exit"} /\ Offered(k)'
  <2>s. PICK s : s = Ini(m)[step[m]]
    OBVIOUS
  <2>1. /\ stage[m] = "init" /\ step[m] \in 1 .. Len(Ini(m)) /\ Len(Ini(m)) \in Nat
        /\ FailMoves(m, s) /\ k \in files
    BY <1>6, <2>s, InitFailsDoes, Tables DEF Table, TableShape
  <2>2. PICK i \in 1 .. step[m] - 1 : Ini(m)[i].op \in Serving
    BY <1>2, <1>6, <2>1 DEF Offered, Serving
  <2>3. s.fail \notin {"abort", "unwind", "back"}
    BY <1>6, <2>s, <2>1, <2>2, Tables DEF Table, TableFail
  <2>4. stage'[m] \in {"init", "live", "forgot", "dead"} /\ (stage'[m] = "init" => step'[m] = step[m] + 1)
    BY <2>1, <2>3 DEF FailMoves, Advanced
  <2>5. Offered(k)'
    BY <1>2, <1>6, <2>1, <2>4 DEF Offered, Ini
  <2> QED
    BY <1>6, <2>4, <2>5
<1>7. ASSUME k = m, Rmmod(m) PROVE FALSE
  BY <1>7, RmmodDoes
<1>8. ASSUME k = m, ExitStep(m) PROVE FALSE
  BY <1>2, <1>8, ExitStepDoes
<1>9. ASSUME k = m, OpenFile(m) \/ CloseFile(m)
      PROVE  stage'[k] \notin {"out", "exit"} /\ Offered(k)'
  <2>1. UNCHANGED <<stage, step>>
    BY <1>9, FilesDo
  <2>2. CASE k \in files
    BY <1>2, <2>1, <2>2 DEF Offered, Ini
  <2>3. CASE k \notin files
    <3>1. m \in Reachable /\ stage[m] \in {"init", "live", "forgot"}
      BY <1>9, <2>3, FilesDo
    <3>2. Offered(m)
      BY <1>9, <3>1, ReachableOffered DEF AtPlace, Offered
    <3> QED
      BY <1>9, <2>1, <3>1, <3>2 DEF Offered, Ini
  <2> QED
    BY <2>2, <2>3
<1> QED
  BY <1>3, <1>4, <1>5, <1>6, <1>7, <1>8, <1>9 DEF Acts

\* A module without a failure has the class and the device that its exit goes by.
LEMMA CleanNoOops ==
  ASSUME Shape, CleanHas, NEW m \in clean, ExitStep(m), NEW s, s = Exi(m)[step[m]]
  PROVE  ~Oops(m, s)
<1>1. m \in Modules /\ stage[m] = "exit" /\ step[m] \in 1 .. Len(Exi(m))
  BY ExitStepDoes DEF Shape
<1>2. TableOops(Ini(m), Exi(m))
  BY <1>1, Tables DEF Table
<1>3. ASSUME NEW op \in {"class", "pdev"}, s.op = (IF op = "class" THEN "node" ELSE op)
      PROVE  <<op, s.arg>> \in held[m]
  <2>1. PICK i \in 1 .. Len(Ini(m)) :
          /\ Ini(m)[i].op = op /\ Ini(m)[i].arg = s.arg
          /\ \A l \in 1 .. step[m] - 1 : ~(Exi(m)[l].op = op /\ Exi(m)[l].arg = s.arg)
    BY <1>1, <1>2, <1>3 DEF TableOops
  <2>2. Standing(m, i)
    BY <1>1, <2>1 DEF Standing
  <2> QED
    BY <2>1, <2>2 DEF CleanHas, Named
<1> QED
  BY <1>3 DEF Oops

\* A module without a failure has everything that is standing.
LEMMA CleanHasStep ==
  ASSUME Shape, ForgotOne, CleanHas, NEW m \in Modules, Acts(m)
  PROVE  CleanHas'
<1> DEFINE Has(k) == /\ stage[k] \notin {"dead", "forgot"}
                     /\ \A i \in 1 .. Len(Ini(k)) :
                          Ini(k)[i].op \in Named \cup {"mem"} /\ Standing(k, i) =>
                            <<Ini(k)[i].op, Ini(k)[i].arg>> \in held[k]
<1> SUFFICES ASSUME NEW k \in clean' PROVE Has(k)'
  BY DEF CleanHas, Ini
<1>1. Others(m) /\ k \in clean /\ k \in Modules
  BY ActsFrame DEF Shape
<1>2. Has(k)
  BY <1>1 DEF CleanHas
<1>3. CASE k # m
  <2>1. stage'[k] = stage[k] /\ step'[k] = step[k] /\ held'[k] = held[k]
    BY <1>1, <1>3 DEF Others
  <2> QED
    BY <1>2, <2>1 DEF Standing, Ini, Exi
<1>4. ASSUME k = m, NEW major, NEW minor, Insmod(m, major, minor) PROVE Has(k)'
  <2>1. stage'[k] = "init" /\ step'[k] = 1
    BY <1>4, InsmodDoes
  <2>2. \A i \in 1 .. Len(Ini(k)) : ~Standing(k, i)'
    BY <2>1 DEF Standing
  <2> QED
    BY <2>1, <2>2 DEF Ini
<1>5. ASSUME k = m, InitStep(m) PROVE Has(k)'
  <2>s. PICK s : s = Ini(m)[step[m]]
    OBVIOUS
  <2>1. /\ stage[m] = "init" /\ step[m] \in 1 .. Len(Ini(m)) /\ Len(Ini(m)) \in Nat
        /\ Advanced(m, Ini(m), "live")
        /\ Register(m, s) \/ AddCdev(m, s) \/ Hold(m, s) \/ NothingToDo(m, s)
    BY <1>5, <2>s, InitStepDoes, Tables DEF Table, TableShape
  <2>2. /\ held[m] \subseteq held'[m]
        /\ s.op \in Named \cup {"mem"} => <<s.op, s.arg>> \in held'[m]
    BY <2>1 DEF Register, AddCdev, Hold, NothingToDo, Shape, Named
  <2>3. ASSUME NEW i \in 1 .. Len(Ini(k)), Ini(k)[i].op \in Named \cup {"mem"},
               Standing(k, i)'
        PROVE  <<Ini(k)[i].op, Ini(k)[i].arg>> \in held'[k]
    <3>1. i <= step[m]
      BY <1>5, <2>1, <2>3 DEF Standing, Advanced
    <3>2. CASE i = step[m]
      BY <1>5, <2>2, <2>3, <2>s, <3>2
    <3>3. CASE i < step[m]
      <4>1. Standing(k, i)
        BY <1>5, <2>1, <3>3 DEF Standing
      <4> QED
        BY <1>2, <1>5, <2>2, <2>3, <4>1
    <3> QED
      BY <2>1, <3>1, <3>2, <3>3
  <2>4. stage'[k] \in {"init", "live"}
    BY <1>5, <2>1 DEF Advanced
  <2> QED
    BY <2>3, <2>4 DEF Ini
<1>6. ASSUME k = m, InitFails(m) PROVE FALSE
  BY <1>6, InitFailsDoes
<1>7. ASSUME k = m, Rmmod(m) PROVE Has(k)'
  <2>1. stage[m] = "live"
    BY <1>2, <1>7, RmmodDoes
  <2>2. \A i \in 1 .. Len(Ini(k)) : Standing(k, i)
    BY <1>7, <2>1 DEF Standing
  <2>3. \/ stage'[m] = "out"
        \/ stage'[m] = "exit" /\ held' = held
    BY <1>7, RmmodDoes
  <2>4. stage'[m] = "out" => \A i \in 1 .. Len(Ini(k)) : ~Standing(k, i)'
    BY <1>7 DEF Standing
  <2> QED
    BY <1>2, <1>7, <2>2, <2>3, <2>4 DEF Ini
<1>8. ASSUME k = m, ExitStep(m) PROVE Has(k)'
  <2>s. PICK s : s = Exi(m)[step[m]]
    OBVIOUS
  <2>1. /\ stage[m] = "exit" /\ step[m] \in 1 .. Len(Exi(m)) /\ Len(Exi(m)) \in Nat
        /\ Advanced(m, Exi(m), "out")
        /\ held' = [held EXCEPT ![m] =
                      (IF step[m] = Len(Exi(m)) THEN DropPointers(m)[m] ELSE @)
                        \ {<<s.op, s.arg>>}]
    BY <1>1, <1>8, <2>s, CleanNoOops, ExitStepDoes, Tables DEF Table, TableShape
  <2>2. CASE step[m] = Len(Exi(m))
    <3>1. stage'[m] = "out"
      BY <2>1, <2>2 DEF Advanced
    <3>2. \A i \in 1 .. Len(Ini(k)) : ~Standing(k, i)'
      BY <1>8, <3>1 DEF Standing
    <3> QED
      BY <1>8, <3>1, <3>2 DEF Ini
  <2>3. CASE step[m] # Len(Exi(m))
    <3>1. stage'[m] = "exit" /\ step'[m] = step[m] + 1
      BY <2>1, <2>3 DEF Advanced
    <3>2. held'[m] = held[m] \ {<<s.op, s.arg>>}
      BY <2>1, <2>3 DEF Shape
    <3>3. ASSUME NEW i \in 1 .. Len(Ini(k)), Ini(k)[i].op \in Named \cup {"mem"},
                 Standing(k, i)'
          PROVE  <<Ini(k)[i].op, Ini(k)[i].arg>> \in held'[k]
      <4>1. \A l \in 1 .. step[m] :
              ~(Exi(m)[l].op = Ini(m)[i].op /\ Exi(m)[l].arg = Ini(m)[i].arg)
        <5>1. \A l \in 1 .. step'[m] - 1 :
                ~(Exi(m)[l].op = Ini(m)[i].op /\ Exi(m)[l].arg = Ini(m)[i].arg)
          BY <1>8, <3>1, <3>3 DEF Standing, Ini, Exi
        <5>2. step'[m] - 1 = step[m]
          BY <2>1, <3>1
        <5> QED
          BY <5>1, <5>2
      <4>2. Standing(k, i)
        BY <1>8, <2>1, <4>1 DEF Standing
      <4>3. <<Ini(k)[i].op, Ini(k)[i].arg>> # <<s.op, s.arg>>
        BY <1>8, <2>1, <2>s, <4>1
      <4> QED
        BY <1>2, <1>8, <3>2, <3>3, <4>2, <4>3
    <3> QED
      BY <1>8, <3>1, <3>3 DEF Ini
  <2> QED
    BY <2>2, <2>3
<1>9. ASSUME k = m, OpenFile(m) \/ CloseFile(m) PROVE Has(k)'
  <2>1. UNCHANGED <<stage, step, held>>
    BY <1>9, FilesDo
  <2> QED
    BY <1>2, <2>1 DEF Standing, Ini, Exi
<1> QED
  BY <1>3, <1>4, <1>5, <1>6, <1>7, <1>8, <1>9 DEF Acts

\* Only mem_map may forget.
LEMMA ForgotOneStep ==
  ASSUME Shape, ForgotOne, NEW m \in Modules, Acts(m)
  PROVE  ForgotOne'
<1> SUFFICES ASSUME NEW k \in Modules, stage'[k] = "forgot" PROVE k = "MemMapDev"
  BY DEF ForgotOne
<1>1. Others(m)
  BY ActsFrame
<1>2. CASE k # m
  BY <1>1, <1>2 DEF Others, ForgotOne
<1>3. ASSUME k = m, NEW major, NEW minor, Insmod(m, major, minor) PROVE FALSE
  BY <1>3, InsmodDoes
<1>4. ASSUME k = m, InitStep(m) PROVE FALSE
  BY <1>4, InitStepDoes DEF Advanced
<1>5. ASSUME k = m, InitFails(m) PROVE k = "MemMapDev"
  <2>s. PICK s : s = Ini(m)[step[m]]
    OBVIOUS
  <2>1. step[m] \in 1 .. Len(Ini(m)) /\ stage[m] = "init" /\ FailMoves(m, s)
    BY <1>5, <2>s, InitFailsDoes
  <2>2. s.fail = "forget"
    BY <1>5, <2>1 DEF FailMoves, Advanced
  <2> QED
    BY <1>5, <2>s, <2>1, <2>2, Tables DEF Table, TableFail
<1>6. ASSUME k = m, Rmmod(m) PROVE FALSE
  BY <1>6, RmmodDoes
<1>7. ASSUME k = m, ExitStep(m) PROVE FALSE
  BY <1>7, ExitStepDoes DEF Advanced
<1>8. ASSUME k = m, OpenFile(m) \/ CloseFile(m) PROVE k = "MemMapDev"
  BY <1>8, FilesDo DEF ForgotOne
<1> QED
  BY <1>2, <1>3, <1>4, <1>5, <1>6, <1>7, <1>8 DEF Acts

\* The kernel registers no number twice.
LEMMA ApartStep ==
  ASSUME Shape, Apart, NEW m \in Modules, Acts(m)
  PROVE  Apart'
<1>1. CASE regions' \subseteq regions
  BY <1>1 DEF Apart, Overlap
<1>2. CASE \E n \in Nat \ {0} : \E r \in Free(m, n) : regions' = regions \cup {r}
  <2>n. PICK n \in Nat \ {0} : \E r \in Free(m, n) : regions' = regions \cup {r}
    BY <1>2
  <2>1. PICK r \in Free(m, n) : regions' = regions \cup {r}
    BY <2>n
  <2>2. \A q \in regions : ~Overlap(q, r)
    BY FreeIs
  <2>3. \A q \in regions : ~Overlap(r, q)
    BY <2>2 DEF Overlap
  <2> QED
    BY <2>1, <2>2, <2>3 DEF Apart, Overlap
<1>3. ASSUME InitStep(m), ~(regions' \subseteq regions)
      PROVE  \E n \in Nat \ {0} : \E r \in Free(m, n) : regions' = regions \cup {r}
  <2>s. PICK s : s = Ini(m)[step[m]]
    OBVIOUS
  <2>1. /\ step[m] \in 1 .. Len(Ini(m))
        /\ Register(m, s) \/ AddCdev(m, s) \/ Hold(m, s) \/ NothingToDo(m, s)
    BY <1>3, <2>s, InitStepDoes
  <2>2. Register(m, s)
    BY <1>3, <2>1 DEF AddCdev, Hold, NothingToDo
  <2>3. s.arg \in Nat \ {0}
    BY <2>1, <2>2, <2>s, Tables DEF Register, RegionOps, Table, TableShape
  <2> QED
    BY <2>2, <2>3 DEF Register
<1>4. ~InitStep(m) => regions' \subseteq regions
  <2>1. InitFails(m) => regions' \subseteq regions
    <3>s. PICK s : s = Ini(m)[step[m]]
      OBVIOUS
    <3> QED
      BY <3>s, InitFailsDoes, UnregisterDoes
  <2>2. ExitStep(m) => regions' \subseteq regions
    <3>s. PICK s : s = Exi(m)[step[m]]
      OBVIOUS
    <3> QED
      BY <3>s, ExitStepDoes, UnregisterDoes
  <2> QED
    BY <2>1, <2>2, InsmodDoes, RmmodDoes, FilesDo DEF Acts
<1> QED
  BY <1>1, <1>2, <1>3, <1>4

\* HELLO_MODULE has no number before it has got one.
LEMMA HelloZeroStep ==
  ASSUME Shape, HelloZero, NEW m \in Modules, Acts(m)
  PROVE  HelloZero'
<1> SUFFICES ASSUME stage'["Hello"] = "init", step'["Hello"] <= 3
             PROVE  numdev'["Hello"].major = 0
  BY DEF HelloZero
<1>1. Others(m) /\ "Hello" \in Modules
  BY ActsFrame, ModulesAre DEF ModuleNames
<1>2. CASE m # "Hello"
  BY <1>1, <1>2 DEF Others, HelloZero
<1>3. ASSUME m = "Hello", NEW major \in GivenMajors[m], NEW minor, Insmod(m, major, minor)
      PROVE  numdev'["Hello"].major = 0
  <2>1. major = 0
    BY <1>1, <1>3, ParamAssumption DEF Parameterised
  <2> QED
    <3>1. numdev'[m] = [major |-> major, minor |-> minor]
      BY <1>1, <1>3, InsmodDoes
    <3> QED
      BY <1>3, <2>1, <3>1
<1>4. ASSUME m = "Hello", InitStep(m) PROVE numdev'["Hello"].major = 0
  <2>s. PICK s : s = Ini(m)[step[m]]
    OBVIOUS
  <2>1. /\ stage[m] = "init" /\ step[m] \in 1 .. Len(Ini(m)) /\ Len(Ini(m)) \in Nat
        /\ Advanced(m, Ini(m), "live")
        /\ Register(m, s) \/ AddCdev(m, s) \/ Hold(m, s) \/ NothingToDo(m, s)
    BY <1>4, <2>s, InitStepDoes, Tables DEF Table, TableShape
  <2>2. step[m] < 3
    BY <1>4, <2>1 DEF Advanced
  <2>3. s.op \notin RegionOps
    BY <1>4, <2>s, <2>1, <2>2, Tables DEF Table, TableRegion
  <2>4. numdev' = numdev
    BY <2>1, <2>3 DEF Register, RegionOps, AddCdev, Hold, NothingToDo
  <2> QED
    BY <1>4, <2>1, <2>2, <2>4 DEF HelloZero
<1>5. ASSUME m = "Hello", InitFails(m) PROVE numdev'["Hello"].major = 0
  <2>s. PICK s : s = Ini(m)[step[m]]
    OBVIOUS
  <2>1. /\ stage[m] = "init" /\ step[m] \in 1 .. Len(Ini(m)) /\ Len(Ini(m)) \in Nat
        /\ FailMoves(m, s)
        /\ \E major \in MajorAfterFailure(m, s) :
             numdev' = [numdev EXCEPT ![m].major = major]
    <3>1. m \in Modules /\ InitFails(m)
      BY <1>5
    <3>2. Len(Ini(m)) \in Nat
      BY <3>1, Tables DEF Table, TableShape
    <3> QED
      BY <3>1, <3>2, <2>s, InitFailsDoes
  <2>2. step[m] <= 3
    BY <1>5, <2>1 DEF FailMoves, Advanced
  <2>3. numdev'[m].major = numdev[m].major
    BY <1>5, <2>1, MajorAfterFailureIs DEF Shape
  <2> QED
    BY <1>5, <2>1, <2>2, <2>3 DEF HelloZero
<1>6. ASSUME m = "Hello", Rmmod(m) PROVE FALSE
  BY <1>6, RmmodDoes
<1>7. ASSUME m = "Hello", ExitStep(m) PROVE FALSE
  BY <1>7, ExitStepDoes DEF Advanced
<1>8. ASSUME OpenFile(m) \/ CloseFile(m) PROVE numdev'["Hello"].major = 0
  BY <1>8, FilesDo DEF HelloZero
<1> QED
  BY <1>2, <1>3, <1>4, <1>5, <1>6, <1>7, <1>8 DEF Acts

\* __register_chrdev adds a cdev for the numbers that it registers.
LEMMA MemMapOwnStep ==
  ASSUME Shape, MemMapOwn, NEW m \in Modules, Acts(m)
  PROVE  MemMapOwn'
<1> SUFFICES ASSUME NEW c \in cdevs', c.mod = "MemMapDev", c.mod \notin robbed'
             PROVE  c \in regions'
  BY DEF MemMapOwn
<1>1. /\ robbed \subseteq robbed' /\ (c \in cdevs \/ c.mod = m)
      /\ \A r \in regions \ regions' : r.mod = m \/ r.mod \in robbed'
  BY ActsFrame
<1>2. c \in cdevs => c \in regions
  BY <1>1 DEF MemMapOwn
<1>3. CASE c.mod # m
  BY <1>1, <1>2, <1>3
<1>4. ASSUME m = "MemMapDev", InitStep(m) PROVE c \in regions'
  <2>s. PICK s : s = Ini(m)[step[m]]
    OBVIOUS
  <2>1. /\ stage[m] = "init" /\ step[m] \in 1 .. Len(Ini(m))
        /\ Register(m, s) \/ AddCdev(m, s) \/ Hold(m, s) \/ NothingToDo(m, s)
    BY <1>4, <2>s, InitStepDoes
  <2>2. s.op # "cdev"
    BY <1>4, <2>s, <2>1, Tables DEF Table, TableRegion
  <2> QED
    BY <1>2, <2>1, <2>2 DEF Register, AddCdev, Hold, NothingToDo
<1>5. ASSUME m = "MemMapDev", InitFails(m) PROVE c \in regions'
  <2>s. PICK s : s = Ini(m)[step[m]]
    OBVIOUS
  <2>1. /\ step[m] \in 1 .. Len(Ini(m)) /\ cdevs' = cdevs
        /\ s.fail # "unwind" => regions' = regions
    BY <1>5, <2>s, InitFailsDoes
  <2>2. s.fail # "unwind"
    BY <1>5, <2>s, <2>1, Tables DEF Table, TableFail
  <2> QED
    BY <1>2, <2>1, <2>2
<1>6. ASSUME m = "MemMapDev", ExitStep(m) PROVE c \in regions'
  <2>s. PICK s : s = Exi(m)[step[m]]
    OBVIOUS
  <2>1. /\ step[m] \in 1 .. Len(Exi(m)) /\ cdevs' = CdevsAfter(m, s)
        /\ IF s.op \in {"region", "chrdev"} THEN Unregister(m, s.arg) ELSE UNCHANGED regions
    BY <1>6, <2>s, ExitStepDoes
  <2>2. s.op # "region"
    BY <1>6, <2>s, <2>1, Tables DEF Table, TableRegion
  <2>3. c \in regions /\ (s.op = "chrdev" => c.major # numdev[m].major)
    BY <1>2, <1>6, <2>1 DEF CdevsAfter
  <2>4. CASE s.op = "chrdev"
    BY <2>1, <2>3, <2>4, UnregisterDoes
  <2>5. CASE s.op # "chrdev"
    BY <2>1, <2>2, <2>3, <2>5
  <2> QED
    BY <2>4, <2>5
<1>7. ASSUME NEW major, NEW minor,
             Insmod(m, major, minor) \/ Rmmod(m) \/ OpenFile(m) \/ CloseFile(m)
      PROVE  c \in regions'
  <2>1. UNCHANGED <<cdevs, regions>>
    BY <1>7, InsmodDoes, RmmodDoes, FilesDo
  <2> QED
    BY <1>2, <2>1
<1> QED
  BY <1>3, <1>4, <1>5, <1>6, <1>7 DEF Acts

\* A module that has not been robbed has the numbers that it thinks it has.
LEMMA OwnRegionStep ==
  ASSUME Shape, ForgotOne, CdevPlace, HelloZero, OwnRegion, NEW m \in Modules, Acts(m)
  PROVE  OwnRegion'
<1> DEFINE Mine(k, i) == Numbers(k, numdev[k].major, numdev[k].minor, Ini(k)[i].arg)
<1> SUFFICES ASSUME NEW k \in Modules \ robbed', ~Careless(k)', numdev'[k].major # 0,
                    NEW i \in 1 .. Len(Ini(k)), Ini(k)[i].op \in RegionOps, Numbered(k, i)'
             PROVE  Mine(k, i)' \in regions'
  BY DEF OwnRegion, Ini
<1>1. /\ Others(m) /\ robbed \subseteq robbed' /\ clean' \subseteq clean
      /\ \A c \in cdevs' \ cdevs : c.mod = m
      /\ \A r \in regions \ regions' : r.mod = m \/ r.mod \in robbed'
  BY ActsFrame
<1>2. ASSUME ~Careless(k), numdev[k].major # 0, Numbered(k, i) PROVE Mine(k, i) \in regions
  BY <1>1, <1>2 DEF OwnRegion
<1>3. CASE k # m
  <2>1. /\ stage'[k] = stage[k] /\ step'[k] = step[k] /\ numdev'[k] = numdev[k]
        /\ Careless(k)' <=> Careless(k)
    BY <1>1, <1>3 DEF Others, Careless
  <2>2. Numbered(k, i)
    BY <1>1, <1>3, <2>1 DEF Numbered, Exi
  <2>3. Mine(k, i) \in regions
    BY <1>2, <2>1, <2>2
  <2>4. Mine(k, i).mod = k
    BY DEF Numbers
  <2>5. Mine(k, i) \in regions'
    BY <1>1, <1>3, <2>3, <2>4
  <2> QED
    BY <2>1, <2>5 DEF Ini
<1>4. ~Careless(k)
  BY <1>1 DEF Careless
<1>5. ASSUME k = m, NEW major, NEW minor, Insmod(m, major, minor) PROVE FALSE
  <2>1. stage'[m] = "init" /\ step'[m] = 1
    BY <1>5, InsmodDoes
  <2> QED
    BY <1>5, <2>1 DEF Numbered
<1>6. ASSUME k = m, InitStep(m) PROVE Mine(k, i)' \in regions'
  <2>s. PICK s : s = Ini(m)[step[m]]
    OBVIOUS
  <2>1. /\ stage[m] = "init" /\ step[m] \in 1 .. Len(Ini(m)) /\ Len(Ini(m)) \in Nat
        /\ Advanced(m, Ini(m), "live")
        /\ Register(m, s) \/ AddCdev(m, s) \/ Hold(m, s) \/ NothingToDo(m, s)
    BY <1>6, <2>s, InitStepDoes, Tables DEF Table, TableShape
  <2>2. i <= step[m]
    BY <1>6, <2>1 DEF Numbered, Advanced
  <2>3. CASE i = step[m]
    <3>1. s.op \in RegionOps /\ s = Ini(k)[i] /\ s.arg \in Nat \ {0}
      BY <1>6, <2>s, <2>3, Tables DEF Table, TableShape
    <3>2. Register(m, s)
      BY <1>6, <2>1, <3>1 DEF RegionOps, AddCdev, Hold, Named, NothingToDo
    <3>3. PICK r \in Free(m, s.arg) :
            /\ numdev' = [numdev EXCEPT ![m].major = r.major]
            /\ regions' = regions \cup {r}
      BY <3>2 DEF Register
    <3>4. numdev'[m].major = r.major /\ numdev'[m].minor = numdev[m].minor
      BY <3>3 DEF Shape
    <3>5. r \in Records /\ r.mod = m /\ r.n = s.arg /\ r.base = numdev[m].minor
      BY <3>1, <3>3, FreeIs
    <3>6. r = Numbers(k, numdev'[k].major, numdev'[k].minor, Ini(k)[i].arg)
      BY <1>6, <3>1, <3>4, <3>5 DEF Records, Numbers
    <3> QED
      BY <3>3, <3>6 DEF Ini
  <2>4. CASE i < step[m]
    <3>1. s.op \notin RegionOps
      BY <1>6, <2>s, <2>1, <2>4, Tables DEF Table, TableRegion
    <3>2. UNCHANGED <<numdev, regions>>
      BY <2>1, <3>1 DEF Register, RegionOps, AddCdev, Hold, NothingToDo
    <3>3. Numbered(k, i)
      BY <1>6, <2>1, <2>4 DEF Numbered
    <3> QED
      BY <1>2, <1>4, <3>2, <3>3 DEF Ini
  <2> QED
    BY <2>1, <2>2, <2>3, <2>4
<1>7. ASSUME k = m, InitFails(m) PROVE Mine(k, i)' \in regions'
  <2>s. PICK s : s = Ini(m)[step[m]]
    OBVIOUS
  <2>1. /\ stage[m] = "init" /\ step[m] \in 1 .. Len(Ini(m)) /\ Len(Ini(m)) \in Nat
        /\ FailMoves(m, s) /\ m \notin clean'
        /\ \E major \in MajorAfterFailure(m, s) :
             numdev' = [numdev EXCEPT ![m].major = major]
        /\ IF s.fail = "unwind" THEN Unregister(m, 2) ELSE UNCHANGED <<regions, robbed>>
        /\ cdevs' = cdevs
    BY <1>7, <2>s, InitFailsDoes, Tables DEF Table, TableShape
  <2>t. TableFail(m, Ini(m), Exi(m)) /\ TableRegion(m, Ini(m), Exi(m))
    BY Tables DEF Table
  <2>2. stage'[m] \notin {"out", "forgot"}
    BY <1>7, <2>1 DEF Numbered
  <2>3. s.fail \notin {"abort", "unwind", "forget"}
    BY <2>1, <2>2 DEF FailMoves
  <2>4. s.op \notin RegionOps
    <3>1. SUFFICES ASSUME s.op \in RegionOps PROVE FALSE
      OBVIOUS
    <3>2. m \in {"DCdevNum", "SCdevNum", "Hello"}
      BY <2>1, <2>3, <2>s, <2>t, <3>1 DEF TableFail
    <3>3. m = "Hello" /\ step[m] = 3
      BY <1>7, <2>1, <2>s, <2>t, <3>1, <3>2 DEF Careless, TableRegion
    <3>4. numdev'[m].major = numdev[m].major /\ numdev[m].major = 0
      BY <2>1, <3>3, MajorAfterFailureIs DEF Shape, HelloZero
    <3> QED
      BY <1>7, <3>4
  <2>5. numdev'[m].major = numdev[m].major /\ numdev'[m].minor = numdev[m].minor
    BY <2>1, <2>4, MajorAfterFailureIs DEF Shape, RegionOps
  <2>6. i < step[m]
    <3>1. CASE s.fail = "ignore"
      <4>1. i <= step[m]
        BY <1>7, <2>1, <3>1 DEF FailMoves, Numbered, Advanced
      <4>2. i # step[m]
        BY <1>7, <2>s, <2>4
      <4> QED
        BY <2>1, <4>1, <4>2
    <3>2. CASE s.fail = "stop"
      BY <1>7, <2>1, <2>s, <2>t, <3>2 DEF TableFail
    <3>3. CASE s.fail = "back"
      BY <1>7, <2>1, <2>s, <2>t, <3>3 DEF TableFail
    <3>4. CASE s.fail = "die"
      <4>1. stage'[m] = "dead"
        BY <2>1, <3>4 DEF FailMoves
      <4>2. PICK c \in cdevs : c.mod = m
        BY <1>7, <2>1, <4>1 DEF Numbered
      <4>3. SUFFICES ASSUME m \notin LeaveHandlers,
                            \A l \in 1 .. step[m] - 1 : Ini(m)[l].op \notin {"cdev", "chrdev"}
                     PROVE  FALSE
        BY <1>7, <2>1, <2>s, <2>t, <3>4 DEF TableFail
      <4>4. m \in CdevGood
        BY <4>3 DEF CdevGood, LeaveHandlers
      <4>5. \E op \in {"cdev", "chrdev"} : \E arg : AtPlace(m, op, arg)
        BY <4>2, <4>4 DEF CdevPlace
      <4> QED
        BY <2>1, <4>3, <4>5 DEF AtPlace
    <3> QED
      BY <2>1, <2>3, <3>1, <3>2, <3>3, <3>4 DEF FailMoves
  <2>7. Numbered(k, i)
    BY <1>7, <2>1, <2>6 DEF Numbered
  <2>8. Mine(k, i) \in regions
    BY <1>2, <1>4, <1>7, <2>5, <2>7
  <2> QED
    BY <1>7, <2>1, <2>3, <2>5, <2>8 DEF Ini
<1>8. ASSUME k = m, Rmmod(m) PROVE Mine(k, i)' \in regions'
  <2>1. /\ UNCHANGED <<numdev, regions>> /\ stage[m] \in {"live", "forgot"}
        /\ stage'[m] \in {"out", "exit"} /\ (stage'[m] = "exit" => stage[m] = "live")
    BY <1>8, RmmodDoes
  <2>2. Numbered(k, i)
    BY <1>8, <2>1 DEF Numbered
  <2> QED
    BY <1>2, <1>4, <2>1, <2>2 DEF Ini
<1>9. ASSUME k = m, ExitStep(m) PROVE Mine(k, i)' \in regions'
  <2>s. PICK s : s = Exi(m)[step[m]]
    OBVIOUS
  <2>1. /\ stage[m] = "exit" /\ step[m] \in 1 .. Len(Exi(m)) /\ Len(Exi(m)) \in Nat
        /\ IF Oops(m, s) THEN stage'[m] = "dead" /\ step'[m] = step[m]
                         ELSE Advanced(m, Exi(m), "out")
        /\ IF s.op \in {"region", "chrdev"} THEN Unregister(m, s.arg)
                                            ELSE UNCHANGED <<regions, robbed>>
        /\ UNCHANGED numdev
    BY <1>9, <2>s, ExitStepDoes, Tables DEF Table, TableShape
  <2>t. TableRegion(m, Ini(m), Exi(m))
    BY Tables DEF Table
  <2>2. CASE Oops(m, s)
    <3>1. s.op \in {"node", "pdev"}
      BY <2>2 DEF Oops
    <3>2. \E l \in step[m] + 1 .. Len(Exi(m)) : Exi(m)[l].op \in Unregisters
      BY <1>9, <2>1, <2>s, <2>t, <3>1 DEF TableRegion
    <3>3. Numbered(k, i)
      BY <1>9, <2>1, <3>2 DEF Numbered, Unregisters
    <3> QED
      BY <1>2, <1>4, <2>1, <3>1, <3>3 DEF Ini
  <2>3. CASE ~Oops(m, s)
    <3>1. stage'[m] = "exit" /\ step'[m] = step[m] + 1
      BY <1>9, <2>1, <2>3 DEF Advanced, Numbered
    <3>2. PICK l \in step[m] + 1 .. Len(Exi(m)) : Exi(m)[l].op \in Unregisters
      BY <1>9, <3>1 DEF Numbered, Exi, Unregisters
    <3>3. s.op \notin Unregisters
      BY <2>1, <2>s, <2>t, <3>2 DEF TableRegion
    <3>4. Numbered(k, i)
      BY <1>9, <2>1, <3>2 DEF Numbered, Unregisters
    <3> QED
      BY <1>2, <1>4, <2>1, <3>3, <3>4 DEF Ini, Unregisters
  <2> QED
    BY <2>2, <2>3
<1>10. ASSUME OpenFile(m) \/ CloseFile(m) PROVE Mine(k, i)' \in regions'
  <2>1. UNCHANGED <<stage, step, numdev, regions, cdevs>>
    BY <1>10, FilesDo
  <2>2. Numbered(k, i)
    BY <2>1 DEF Numbered, Exi
  <2> QED
    BY <1>2, <1>4, <2>1, <2>2 DEF Ini
<1> QED
  BY <1>3, <1>5, <1>6, <1>7, <1>8, <1>9, <1>10 DEF Acts

-----------------------------------------------------------------------------
(* The theorems.                                                            *)

\* The inductive invariant holds at first, ...
LEMMA InitInv == Init => IInv
<1> SUFFICES ASSUME Init PROVE IInv
  OBVIOUS
<1>1. \A m \in Modules : stage[m] = "out" /\ held[m] = {} /\ numdev[m].major = 0
  BY DEF Init
<1>2. Shape
  BY <1>1, ModuleLifeAssumption DEF Init, Shape
<1>3. Apart /\ CdevPlace /\ RegionPlace /\ FilesPlace /\ MemMapOwn
  BY DEF Init, Apart, CdevPlace, RegionPlace, FilesPlace, MemMapOwn
<1>4. HeldPlace /\ ForgotOne
  BY <1>1 DEF HeldPlace, ForgotOne
<1>5. CleanHas
  BY <1>1 DEF Init, CleanHas, Standing
<1>6. OwnRegion
  BY <1>1 DEF OwnRegion
<1>7. HelloZero
  BY <1>1, ModulesAre DEF HelloZero, ModuleNames
<1> QED
  BY <1>2, <1>3, <1>4, <1>5, <1>6, <1>7 DEF IInv

\* ... is kept by every step, ...
LEMMA InvStep == IInv /\ [Next]_vars => IInv'
<1>1. ASSUME IInv, NEW m \in Modules, Acts(m) PROVE IInv'
  BY <1>1, ShapeStep, ApartStep, ForgotOneStep, CdevPlaceStep, HeldPlaceStep, RegionPlaceStep,
     FilesPlaceStep, CleanHasStep, OwnRegionStep, HelloZeroStep, MemMapOwnStep DEF IInv
<1>2. ASSUME IInv, UNCHANGED vars PROVE IInv'
  <2>1. Shape' /\ Apart' /\ ForgotOne' /\ FilesPlace' /\ HelloZero' /\ MemMapOwn'
    BY <1>2 DEF IInv, vars, Shape, Apart, Overlap, ForgotOne, FilesPlace, HelloZero, MemMapOwn,
                Ini, Exi
  <2>2. CdevPlace' /\ HeldPlace' /\ RegionPlace'
    BY <1>2, PlaceSame DEF IInv, vars, CdevPlace, HeldPlace, RegionPlace, CdevGood, Tracked, Neat
  <2>3. CleanHas' /\ OwnRegion'
    BY <1>2 DEF IInv, vars, CleanHas, Standing, OwnRegion, Numbered, Careless, Ini, Exi
  <2> QED
    BY <2>1, <2>2, <2>3 DEF IInv
<1>3. Next => \E m \in Modules : Acts(m)
  BY DEF Next, Acts
<1> QED
  BY <1>1, <1>2, <1>3

\* ... and so always holds.
LEMMA InvInvariant == Spec => []IInv
  BY InitInv, InvStep, PTL DEF Spec

\* A module that is out can still be reached through nothing, and what the file
\* operations of one that has met no failure use is in its place: init makes it
\* before the devices, and exit gives it back after them.
THEOREM HandlersServedCorrect == Spec => []HandlersServed
<1>1. IInv => HandlersServed
  <2> SUFFICES ASSUME IInv PROVE HandlersServed
    OBVIOUS
  <2> USE DEF IInv
  <2>1. TypeOK
    BY DEF Shape, TypeOK, Ini, Exi
  <2>2. ASSUME NEW m \in Modules \ LeaveHandlers, stage[m] = "out"
        PROVE  m \notin Reachable \cup files /\ \A h \in held[m] : h[1] # "driver"
    <3>1. m \notin files
      BY <2>2 DEF FilesPlace
    <3>2. m \notin Reachable
      BY <2>2, ReachableOffered, PlaceModule
    <3>3. \A h \in held[m] : h[1] # "driver"
      BY <2>2, PlaceModule DEF HeldPlace, Tracked, LeaveHandlers
    <3> QED
      BY <3>1, <3>2, <3>3
  <2>3. ASSUME NEW m \in Modules \ LeaveHandlers, stage[m] # "out",
               m \in (Reachable \cup files) \cap clean, NEW u \in Code[m].uses
        PROVE  \E h \in held[m] : h[2] = u
    <3>1. PICK j \in 1 .. Len(Ini(m)) :
            /\ Ini(m)[j].op \in Named \cup {"mem"} /\ Ini(m)[j].arg = u
            /\ \A i \in 1 .. Len(Ini(m)) : Ini(m)[i].op \in {"cdev", "misc"} => j < i
            /\ \A k \in 1 .. Len(Exi(m)) : Exi(m)[k].op \in {"cdev", "misc"} =>
                 \A l \in 1 .. k - 1 : ~(Exi(m)[l].op = Ini(m)[j].op /\ Exi(m)[l].arg = u)
      BY <2>3, Tables DEF Table, TableUses
    <3>2. Len(Ini(m)) \in Nat /\ Len(Exi(m)) \in Nat
          /\ (stage[m] = "init" => step[m] \in Nat) /\ (stage[m] = "exit" => step[m] \in Nat)
      BY Tables DEF Table, TableShape, Shape
    <3>3. Standing(m, j)
      <4>1. CASE m \in files
        BY <2>3, <3>1, <3>2, <4>1 DEF FilesPlace, Standing
      <4>2. CASE m \in Reachable
        <5>1. PICK op \in {"cdev", "misc"} : \E arg : AtPlace(m, op, arg)
          BY <4>2, ReachableOffered
        <5>2. PICK arg : AtPlace(m, op, arg)
          BY <5>1
        <5>3. stage[m] = "init" => j < step[m]
          BY <3>1, <3>2, <5>2 DEF AtPlace
        <5>4. ASSUME stage[m] = "exit", NEW l \in 1 .. step[m] - 1
              PROVE  ~(Exi(m)[l].op = Ini(m)[j].op /\ Exi(m)[l].arg = Ini(m)[j].arg)
          <6>1. step[m] \in 1 .. Len(Exi(m))
            BY <5>4 DEF Shape
          <6>2. PICK k \in step[m] .. Len(Exi(m)) : Exi(m)[k].op = op
            BY <5>2, <5>4 DEF AtPlace, Opposite
          <6>3. k \in 1 .. Len(Exi(m)) /\ l \in 1 .. k - 1
            BY <3>2, <5>4, <6>1, <6>2
          <6> QED
            BY <3>1, <6>2, <6>3
        <5> QED
          BY <2>3, <5>3, <5>4 DEF Standing
      <4> QED
        BY <2>3, <4>1, <4>2
    <3>4. <<Ini(m)[j].op, Ini(m)[j].arg>> \in held[m]
      BY <2>3, <3>1, <3>3 DEF CleanHas
    <3> QED
      BY <3>1, <3>4
  <2> QED
    BY <2>1, <2>2, <2>3 DEF HandlersServed
<1> QED
  BY <1>1, InvInvariant, PTL

\* A cdev serves numbers of its own module, but for the four known ways.
THEOREM OwnNumbersCorrect == Spec => []OwnNumbers
<1>1. IInv => OwnNumbers
  <2> SUFFICES ASSUME IInv, NEW c \in cdevs, numdev[c.mod].minor = 0, c.mod \notin robbed,
                      c.major # 0, c.mod = "IrqRegist" => c.mod \in clean
               PROVE  \E r \in regions : /\ r.mod = c.mod /\ r.major = c.major
                                         /\ r.base <= c.base /\ c.base + c.n <= r.base + r.n
    BY DEF OwnNumbers
  <2> USE DEF IInv
  <2>1. c \in Records /\ c.mod \in Modules /\ c.base \in Nat /\ c.n \in Nat
    BY DEF Shape, Records
  <2>2. CASE c.mod = "MemMapDev"
    <3>1. c \in regions
      BY <2>2 DEF MemMapOwn
    <3> QED
      BY <2>1, <3>1
  <2>3. CASE c.mod # "MemMapDev"
    <3>1. c.mod \in CdevGood
      BY <2>1, <2>3 DEF CdevGood
    <3>2. /\ c.major = numdev[c.mod].major
          /\ AtPlace(c.mod, "cdev", c.base) /\ c.n = 1
      BY <2>1, <2>3, <3>1, PlaceModule DEF CdevPlace
    <3>m. PICK m \in Modules : m = c.mod
      BY <2>1
    <3>t. TableRegion(m, Ini(m), Exi(m)) /\ Len(Ini(m)) \in Nat /\ Len(Exi(m)) \in Nat
      BY Tables DEF Table, TableShape
    <3>3. PICK i \in 1 .. Len(Ini(m)) : /\ Ini(m)[i].op = "cdev" /\ Ini(m)[i].arg = c.base
                                        /\ stage[m] = "init" => i < step[m]
      BY <3>2, <3>m DEF AtPlace
    <3>4. PICK j \in 1 .. i - 1 : /\ Ini(m)[j].op = "region"
                                  /\ c.base + 1 <= Ini(m)[j].arg
      BY <3>3, <3>t DEF TableRegion
    <3>5. j \in 1 .. Len(Ini(m)) /\ Ini(m)[j].op \in RegionOps
      BY <3>3, <3>4, <3>t DEF RegionOps
    <3>6. Numbered(m, j)
      <4>1. stage[m] \in {"init", "live", "exit", "dead"}
        BY <2>3, <3>2, <3>m DEF Shape, ForgotOne, AtPlace
      <4>2. CASE stage[m] = "init"
        BY <3>3, <3>4, <3>t, <4>2 DEF Numbered, Shape
      <4>3. CASE stage[m] = "exit"
        <5>1. step[m] \in 1 .. Len(Exi(m))
          BY <4>3 DEF Shape
        <5>2. PICK k \in step[m] .. Len(Exi(m)) : Exi(m)[k].op = "cdev"
          BY <3>2, <3>m, <4>3 DEF AtPlace, Opposite
        <5>3. k \in 1 .. Len(Exi(m))
          BY <3>t, <5>1, <5>2
        <5>4. PICK l \in k + 1 .. Len(Exi(m)) : Exi(m)[l].op \in Unregisters
          BY <3>t, <3>5, <5>2, <5>3 DEF TableRegion
        <5>5. l \in step[m] .. Len(Exi(m))
          BY <3>t, <5>1, <5>2, <5>4
        <5> QED
          BY <4>3, <5>4, <5>5 DEF Numbered, Unregisters
      <4> QED
        BY <3>m, <4>1, <4>2, <4>3 DEF Numbered
    <3>7. ~Careless(m)
      BY <3>2, <3>m, PlaceModule DEF Careless
    <3>8. Numbers(m, c.major, 0, Ini(m)[j].arg) \in regions
      BY <3>2, <3>m, <3>5, <3>6, <3>7 DEF OwnRegion
    <3>9. PICK r \in regions : r = Numbers(m, c.major, 0, Ini(m)[j].arg)
      BY <3>8
    <3>10. /\ r.mod = c.mod /\ r.major = c.major
           /\ r.base = 0 /\ r.n = Ini(m)[j].arg /\ r.n \in Nat
      BY <3>m, <3>9 DEF Numbers, Shape, Records
    <3>11. r.base <= c.base /\ c.base + c.n <= r.base + r.n
      BY <2>1, <3>2, <3>4, <3>10
    <3> QED
      BY <3>10, <3>11
  <2> QED
    BY <2>2, <2>3
<1> QED
  BY <1>1, InvInvariant, PTL

\* What a removal leaves registered after loads that met no failure.
THEOREM NothingRegisteredCorrect == Spec => []NothingRegistered
<1>1. IInv => NothingRegistered
  <2> SUFFICES ASSUME IInv, NEW m \in clean \cup {"RpmsgCharDrv"}, stage[m] = "out"
               PROVE  /\ \A h \in held[m] : h[1] = "gpio" \/ m = "DriverRegist"
                      /\ \A r \in regions \cup cdevs : r.mod # m
    BY DEF NothingRegistered
  <2> USE DEF IInv
  <2>1. m \in Modules /\ m \in Neat /\ m \in CdevGood
    BY ModulesAre DEF Shape, Neat, CdevGood, ModuleNames
  <2>2. \A op, arg : ~AtPlace(m, op, arg)
    BY <2>1, PlaceModule
  <2>3. ASSUME NEW h \in held[m], h[1] # "gpio", m # "DriverRegist" PROVE FALSE
    <3>1. h[1] \in {"class", "misc", "driver", "pdev"}
      BY <2>1, <2>3 DEF Shape, Named
    <3>2. Tracked(m, h[1])
      BY <2>1, <2>3, <3>1 DEF Tracked
    <3> QED
      BY <2>1, <2>2, <3>2 DEF HeldPlace
  <2>4. \A r \in regions : r.mod # m
    BY <2>1, <2>2 DEF RegionPlace
  <2>5. \A c \in cdevs : c.mod # m
    BY <2>1, <2>2 DEF CdevPlace
  <2> QED
    BY <2>3, <2>4, <2>5
<1> QED
  BY <1>1, InvInvariant, PTL

\* An exit hands no error pointer to device_destroy, and no data that is not there
\* is written to, as long as no call of the module's inits has failed.
THEOREM CleanNeverDies == Spec => [](\A m \in clean : stage[m] # "dead")
<1>1. IInv => \A m \in clean : stage[m] # "dead"
  BY DEF IInv, CleanHas
<1> QED
  BY <1>1, InvInvariant, PTL

\* A module takes another one's numbers only if its own are not what it thinks.
LEMMA OthersKept ==
  ASSUME IInv, NEW m \in Modules, m \notin robbed, ~Careless(m),
         NEW i \in 1 .. Len(Ini(m)), Ini(m)[i].op \in RegionOps, Numbered(m, i),
         NEW r \in regions, r.major = numdev[m].major, r.base = numdev[m].minor,
         r.n = Ini(m)[i].arg
  PROVE  r.mod = m
<1> DEFINE own == Numbers(m, numdev[m].major, numdev[m].minor, Ini(m)[i].arg)
<1>1. r \in Records /\ r.major # 0
  BY DEF IInv, Shape
<1>2. own \in regions
  BY <1>1 DEF IInv, OwnRegion
<1>3. own.major = r.major /\ own.base = r.base /\ own.n = r.n /\ own.mod = m
  BY DEF Numbers
<1>4. r.base \in Nat /\ r.n \in Nat \ {0}
  BY <1>1 DEF Records
<1>5. Overlap(r, own)
  BY <1>3, <1>4 DEF Overlap
<1> QED
  BY <1>2, <1>3, <1>5 DEF IInv, Apart

\* Only its own module takes numbers away, but for the known ways.
THEOREM RegionsKeptCorrect == Spec => RegionsKept
<1> DEFINE Kept == \A r \in regions \ regions' :
                     \/ Moves(r.mod)
                     \/ \E m \in robbed \cup ({"DCdevNum", "SCdevNum"} \ clean) : Moves(m)
<1>1. ASSUME IInv, NEW m \in Modules, Acts(m) PROVE Kept
  <2> SUFFICES ASSUME NEW r \in regions \ regions'
               PROVE  \/ Moves(r.mod)
                      \/ \E k \in robbed \cup ({"DCdevNum", "SCdevNum"} \ clean) : Moves(k)
    OBVIOUS
  <2>s. Shape
    BY <1>1 DEF IInv
  <2>1. Moves(m) /\ \/ r.mod = m \/ m \in robbed \/ Careless(m)
    <3>1. CASE InitFails(m)
      <4>s. PICK s : s = Ini(m)[step[m]]
        OBVIOUS
      <4>1. /\ stage[m] = "init" /\ step[m] \in 1 .. Len(Ini(m)) /\ Len(Ini(m)) \in Nat
            /\ FailMoves(m, s)
            /\ IF s.fail = "unwind" THEN Unregister(m, 2) ELSE UNCHANGED <<regions, robbed>>
        BY <2>s, <3>1, <4>s, InitFailsDoes, Tables DEF Table, TableShape
      <4>2. s.fail = "unwind" /\ Unregister(m, 2)
        BY <4>1
      <4>3. Moves(m)
        BY <4>1, <4>2 DEF FailMoves, Moves
      <4>4. PICK j \in 1 .. step[m] - 1 : Ini(m)[j].op = "region" /\ Ini(m)[j].arg = 2
        BY <4>1, <4>2, <4>s, Tables DEF Table, TableFail
      <4>5. j \in 1 .. Len(Ini(m)) /\ j < step[m] /\ Ini(m)[j].op \in RegionOps
        BY <4>1, <4>4 DEF RegionOps
      <4>6. Numbered(m, j)
        BY <4>1, <4>5 DEF Numbered
      <4>7. r.major = numdev[m].major /\ r.base = numdev[m].minor /\ r.n = 2
        BY <2>s, <4>2, UnregisterDoes
      <4> QED
        BY <1>1, <4>3, <4>4, <4>5, <4>6, <4>7, OthersKept
    <3>2. CASE ExitStep(m)
      <4>s. PICK s : s = Exi(m)[step[m]]
        OBVIOUS
      <4>1. /\ stage[m] = "exit" /\ step[m] \in 1 .. Len(Exi(m)) /\ Len(Exi(m)) \in Nat
            /\ IF Oops(m, s) THEN stage'[m] = "dead" /\ step'[m] = step[m]
                             ELSE Advanced(m, Exi(m), "out")
            /\ IF s.op \in {"region", "chrdev"} THEN Unregister(m, s.arg)
                                                ELSE UNCHANGED <<regions, robbed>>
        BY <2>s, <3>2, <4>s, ExitStepDoes, Tables DEF Table, TableShape
      <4>2. s.op \in Unregisters /\ Unregister(m, s.arg)
        BY <4>1 DEF Unregisters
      <4>3. Moves(m)
        BY <4>1 DEF Advanced, Moves
      <4>4. PICK j \in 1 .. Len(Ini(m)) : Ini(m)[j].op \in RegionOps /\ Ini(m)[j].arg = s.arg
        BY <4>1, <4>2, <4>s, Tables DEF Table, TableRegion
      <4>5. Numbered(m, j)
        BY <4>1, <4>2, <4>s DEF Numbered, Unregisters
      <4>6. r.major = numdev[m].major /\ r.base = numdev[m].minor /\ r.n = s.arg
        BY <2>s, <4>2, UnregisterDoes
      <4> QED
        BY <1>1, <4>3, <4>4, <4>5, <4>6, OthersKept
    <3>3. ASSUME InitStep(m) PROVE FALSE
      <4>s. PICK s : s = Ini(m)[step[m]]
        OBVIOUS
      <4>1. Register(m, s) \/ AddCdev(m, s) \/ Hold(m, s) \/ NothingToDo(m, s)
        BY <2>s, <3>3, <4>s, InitStepDoes
      <4> QED
        BY <4>1 DEF Register, AddCdev, Hold, NothingToDo
    <3>4. ~Rmmod(m) /\ ~OpenFile(m) /\ ~CloseFile(m)
      BY <2>s, RmmodDoes, FilesDo
    <3>5. \A major, minor : ~Insmod(m, major, minor)
      BY <2>s, InsmodDoes
    <3> QED
      BY <1>1, <3>1, <3>2, <3>3, <3>4, <3>5 DEF Acts
  <2> QED
    BY <2>1 DEF Careless
<1>2. UNCHANGED vars => Kept
  BY DEF vars
<1>3. IInv /\ [Next]_vars => [Kept]_vars
  BY <1>1, <1>2 DEF Next, Acts
<1> HIDE DEF Kept
<1>4. Spec => [][Kept]_vars
  BY <1>3, InvInvariant, PTL DEF Spec
<1> QED
  BY <1>4 DEF Kept, RegionsKept

-----------------------------------------------------------------------------
(* HELLO_MODULE.  The threads share the buffers and enable_read without a   *)
(* lock, so the argument is about who still owes a half of the buffer its   *)
(* reading: enable_read if it is set, a write that will set it, or a read   *)
(* that has cleared it and has not come to that half yet.                   *)

\* A write that has yet to set enable_read.
Writing == {"copy1", "copy2", "wake", "enable"}

\* A read that has yet to take half h.
WillTake(h) == IF h = 1 THEN {"data1"} ELSE Taking

\* Half h has been taken as it is, or somebody will see to it.
Accounted(h) ==
  \/ pInputData[h] \in seen[h]
  \/ enable_read
  \/ \E t \in Writers : pc[t] \in Writing
  \/ \E t \in Readers : pc[t] \in WillTake(h)

\* As much of HelloTypeOK as the argument needs.
HelloShape ==
  /\ DOMAIN pc = Threads
  /\ enable_read \in BOOLEAN
  /\ DOMAIN pInputData = Halves
  /\ DOMAIN seen = Halves

HelloInv == HelloShape /\ \A h \in Halves : Accounted(h)

\* The shape is kept.
LEMMA HelloShapeStep == HelloShape /\ [HelloNext]_helloVars => HelloShape'
<1> SUFFICES ASSUME HelloShape, [HelloNext]_helloVars PROVE HelloShape'
  OBVIOUS
<1>1. ASSUME NEW t \in Writers, \/ Write(t) \/ (\E h \in Halves : CopyIn(t, h))
                                \/ WriteWake(t) \/ WriteEnable(t)
      PROVE  HelloShape'
  BY <1>1 DEF HelloShape, Write, CopyIn, WriteWake, WriteEnable, Move, devVars
<1>2. ASSUME NEW t \in Readers, Read(t) \/ ReadSteps(t) \/ ReadTimeout(t)
      PROVE  HelloShape'
  BY <1>2 DEF HelloShape, Read, ReadSteps, ReadPrepare, ReadCheck, ReadWoken, ReadClear, ReadData,
              ReadReturn, ReadTimeout, Move, devVars
<1>3. ASSUME NEW t \in Openers, Load(t) \/ OpenStore(t) \/ ReleaseStore(t)
      PROVE  HelloShape'
  BY <1>3 DEF HelloShape, Load, OpenStore, ReleaseStore, Move, devVars
<1>4. CASE UNCHANGED helloVars
  BY <1>4 DEF HelloShape, helloVars, devVars
<1> QED
  BY <1>1, <1>2, <1>3, <1>4 DEF HelloNext

\* A step of one thread that leaves the buffers and the flag alone, and does not
\* take the thread out of a write or out of the taking of h.
LEMMA QuietMove ==
  ASSUME HelloShape, NEW t \in Threads, NEW from, NEW to, Move(t, from, to),
         UNCHANGED <<enable_read, pInputData, seen>>,
         from \in Writing => to \in Writing,
         from \notin Taking,
         NEW h \in Halves, Accounted(h)
  PROVE  Accounted(h)'
<1>1. \A u \in Threads : u # t => pc'[u] = pc[u]
  BY DEF Move, HelloShape
<1>2. pc'[t] = to /\ pc[t] = from
  BY DEF Move, HelloShape
<1>3. ASSUME NEW u \in Writers, pc[u] \in Writing PROVE pc'[u] \in Writing
  BY <1>1, <1>2, <1>3 DEF Threads
<1>4. ASSUME NEW u \in Readers, pc[u] \in WillTake(h) PROVE pc'[u] \in WillTake(h)
  BY <1>1, <1>2, <1>4 DEF Threads, WillTake, Taking
<1> QED
  BY <1>3, <1>4 DEF Accounted, WillTake

\* Every step leaves each half of the buffer accounted for.
LEMMA AccountedStep ==
  ASSUME HelloInv, [HelloNext]_helloVars, NEW h \in Halves
  PROVE  Accounted(h)'
<1> USE DEF HelloInv
<1>w. Readers \subseteq Threads /\ Writers \subseteq Threads /\ Openers \subseteq Threads
  BY DEF Threads
<1>1. ASSUME NEW t \in Writers, Write(t) PROVE Accounted(h)'
  BY <1>1, <1>w, QuietMove DEF Write, devVars, Writing, Taking
<1>2. ASSUME NEW t \in Writers, NEW k \in Halves, CopyIn(t, k) PROVE Accounted(h)'
  <2>1. pc'[t] \in Writing
    BY <1>2, <1>w DEF CopyIn, Move, HelloShape, Writing
  <2> QED
    BY <2>1 DEF Accounted
<1>3. ASSUME NEW t \in Writers, WriteWake(t) PROVE Accounted(h)'
  BY <1>3, <1>w, QuietMove DEF WriteWake, devVars, Writing, Taking
<1>4. ASSUME NEW t \in Writers, WriteEnable(t) PROVE Accounted(h)'
  BY <1>4 DEF WriteEnable, Accounted
<1>5. ASSUME NEW t \in Readers, ReadClear(t) PROVE Accounted(h)'
  <2>1. pc'[t] \in WillTake(h)
    BY <1>5, <1>w DEF ReadClear, Move, HelloShape, WillTake, Taking
  <2> QED
    BY <2>1 DEF Accounted, WillTake
<1>6. ASSUME NEW t \in Readers, NEW k \in Halves, ReadData(t, k) PROVE Accounted(h)'
  <2>1. CASE h = k
    BY <1>6, <2>1 DEF ReadData, Accounted, HelloShape
  <2>2. CASE h # k
    <3>1. /\ UNCHANGED <<enable_read, pInputData>>
          /\ seen'[h] = seen[h]
          /\ \A u \in Threads : u # t => pc'[u] = pc[u]
      BY <1>6, <2>2 DEF ReadData, Move, HelloShape
    <3>2. pc[t] \notin Writing
      BY <1>6 DEF ReadData, Move, Writing
    <3>3. pc[t] \in WillTake(h) => pc'[t] \in WillTake(h)
      BY <1>6, <1>w, <2>2 DEF ReadData, Move, HelloShape, Halves, WillTake, Taking
    <3>4. ASSUME NEW u \in Writers, pc[u] \in Writing PROVE pc'[u] \in Writing
      BY <1>w, <3>1, <3>2, <3>4
    <3>5. ASSUME NEW u \in Readers, pc[u] \in WillTake(h) PROVE pc'[u] \in WillTake(h)
      BY <1>w, <3>1, <3>3, <3>5
    <3> QED
      BY <3>1, <3>4, <3>5 DEF Accounted, WillTake
  <2> QED
    BY <2>1, <2>2
<1>7. ASSUME NEW t \in Readers,
             \/ Read(t) \/ ReadPrepare(t) \/ ReadCheck(t) \/ ReadWoken(t) \/ ReadReturn(t)
             \/ ReadTimeout(t)
      PROVE  Accounted(h)'
  BY <1>7, <1>w, QuietMove DEF Read, ReadPrepare, ReadCheck, ReadWoken, ReadReturn, ReadTimeout,
                               devVars, Writing, Taking
<1>8. ASSUME NEW t \in Openers, Load(t) \/ OpenStore(t) \/ ReleaseStore(t)
      PROVE  Accounted(h)'
  BY <1>8, <1>w, QuietMove DEF Load, OpenStore, ReleaseStore, devVars, Writing, Taking
<1>9. CASE UNCHANGED helloVars
  BY <1>9 DEF helloVars, devVars, Accounted, WillTake
<1> QED
  BY <1>1, <1>2, <1>3, <1>4, <1>5, <1>6, <1>7, <1>8, <1>9 DEF HelloNext, ReadSteps

\* So it always is.
LEMMA HelloInvariant == HelloSpec => []HelloInv
<1>1. HelloInit => HelloInv
  BY DEF HelloInit, HelloInv, HelloShape, Accounted, Halves
<1>2. HelloInv /\ [HelloNext]_helloVars => HelloInv'
  BY HelloShapeStep, AccountedStep DEF HelloInv
<1> QED
  BY <1>1, <1>2, PTL DEF HelloSpec

\* hello_write sets enable_read after its copy and hello_read clears it before
\* its own, so no write is overlooked, however many threads call them at once.
THEOREM NothingOverlookedCorrect == HelloSpec => []NothingOverlooked
<1>1. HelloInv => NothingOverlooked
  <2> SUFFICES ASSUME HelloInv, NEW h \in Halves, ~enable_read,
                      \A t \in Writers : pc[t] = "idle",
                      \A t \in Readers : pc[t] \notin Taking
               PROVE  pInputData[h] \in seen[h]
    BY DEF NothingOverlooked
  <2>1. \A t \in Writers : pc[t] \notin Writing
    BY DEF Writing
  <2>2. \A t \in Readers : pc[t] \notin WillTake(h)
    BY DEF WillTake, Taking
  <2> QED
    BY <2>1, <2>2 DEF HelloInv, Accounted
<1> QED
  BY <1>1, HelloInvariant, PTL
===============================================================================
