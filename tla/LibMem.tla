-------------------------------- MODULE LibMem --------------------------------
(***************************************************************************)
(* The user-space library on top of /dev/mem_map                           *)
(* (src/mem_map/test_mem_map/libmem.c).  A call opens a file of its own,   *)
(* so nobody interferes with its position, and is one step here; what the  *)
(* kernel does for it is taken from MemMap.  Opening may always fail (two  *)
(* of the functions never close what they opened): every later call on     *)
(* the descriptor -1 fails then.                                           *)
(***************************************************************************)
EXTENDS MemMap

CONSTANT LibSizes \* values of size that are tried; more than 4 overruns a local

\* A page is a number of whole words of 4 bytes.
ASSUME LibMemAssumption == LibSizes \subseteq Nat \ {0} /\ PageSize % 4 = 0

\* The program is killed: it uses MAP_FAILED, leaves the page it has mapped, or
\* writes where it has only mapped for reading.
SIGSEGV == -1

Valid == {1, 2, 4}

\* The position after open and an lseek whose result nobody looks at.
SeekTo(addr) == IF SeekRefused(addr) THEN 0 ELSE addr

Returns(op, addr, size, val, start, n) ==
  ret' = [op |-> op, addr |-> addr, size |-> size, val |-> val,
          touched |-> start .. start + n - 1]

\* read_dram_raw; mem_map_read transfers everything or fails.  A size that is not
\* valid is refused after the read.
ReadDramRaw(addr, size) ==
  \/ /\ RwVerifyArea(SeekTo(addr), size)
     /\ Returns("lib read", addr, size, IF size \in Valid THEN 0 ELSE 1, SeekTo(addr), size)
  \/ Returns("lib read", addr, size, 1, SeekTo(addr), 0)

\* write_dram_raw; mem_map_write may write less than it is asked to.
WriteDramRaw(addr, size) ==
  \/ /\ size \in Valid /\ RwVerifyArea(SeekTo(addr), size)
     /\ \E n \in 0 .. size :
          Returns("lib write", addr, size, IF n = size THEN 0 ELSE 1, SeekTo(addr), n)
  \/ Returns("lib write", addr, size, 1, SeekTo(addr), 0)

Window_NextPage(addr) == ((addr + PageSize - 1) \div PageSize) * PageSize

\* dram_addr_page_aligned: the page that is mapped.
Window(addr) == (addr \div PageSize) * PageSize

MapFails(addr) ==
  Returns("mmap failed", addr, 0, SIGSEGV, addr, 0)

\* read_dram_map_raw compares what mmap returns with NULL, not MAP_FAILED.
ReadDramMapRaw(addr, size) ==
  LET ofst == addr % PageSize IN
  \/ /\ ~MmapRefused(ShiftRight(Window(addr)), PageSize)
     /\ IF size \notin Valid THEN Returns("lib read", addr, size, 1, addr, 0)
        ELSE IF ofst + size <= PageSize
          THEN Returns("lib read", addr, size, 0, Window(addr) + ofst, size)
          ELSE Returns("lib read", addr, size, SIGSEGV, addr, 0)
  \/ IF size \in Valid THEN MapFails(addr) ELSE Returns("lib read", addr, size, 1, addr, 0)

\* write_dram_map_raw maps the page with PROT_READ.
WriteDramMapRaw(addr, size) ==
  IF size \in Valid THEN Returns("lib write map", addr, size, SIGSEGV, addr, 0)
                    ELSE Returns("lib write map", addr, size, 1, addr, 0)

\* While no call of another program is under way, which it would not affect.
LibCall ==
  /\ \A t \in Threads : pc[t] = "idle"
  /\ \E addr \in Addrs, size \in LibSizes :
       \/ ReadDramRaw(addr, size) \/ WriteDramRaw(addr, size)
       \/ ReadDramMapRaw(addr, size) \/ WriteDramMapRaw(addr, size)
  /\ UNCHANGED <<f_pos, pc, p, count, done, touched>>

LibSpec == Init /\ [][Next \/ LibCall]_vars

-----------------------------------------------------------------------------
(* Correctness.                                                             *)

\* A call that returns 0 has transferred the bytes it was asked for and no
\* others, unless the seek was refused (then it is the first bytes of memory);
\* and a read through the map at an aligned address dies only if mmap failed.
LibExact ==
  "addr" \in DOMAIN ret =>
    /\ ret.val = 0 /\ ~SeekRefused(ret.addr) =>
         ret.touched = ret.addr .. ret.addr + ret.size - 1
    /\ ret.op = "lib read" /\ ret.val = SIGSEGV => ret.addr % ret.size # 0
=============================================================================
