-------------------------------- MODULE MemMap --------------------------------
(***************************************************************************)
(* The physical memory device /dev/mem_map (src/mem_map/mem_map.c): seek,  *)
(* read, write and mmap on one open file, by one or more threads that      *)
(* share its position.  phys_addr_t, loff_t and unsigned long have W bits  *)
(* here, and a page has 2^PageShift bytes.                                 *)
(*                                                                         *)
(* A read or write works on the copy of the position that the kernel       *)
(* hands it and takes one step per page; the position is not locked, as    *)
(* this is a character device.  Any page may turn out not to be mappable   *)
(* or readable, and any byte of the caller's buffer not accessible.        *)
(***************************************************************************)
EXTENDS Integers, FiniteSets

CONSTANTS
  Threads,
  W,          \* bits of an address
  PageShift,
  MaxErrno,   \* MAX_ERRNO
  MaxCount    \* bound on the size of a read or write

ASSUME MemMapAssumption ==
  /\ PageShift \in Nat /\ W \in Nat /\ PageShift < W
  /\ MaxErrno \in 1 .. 2^(W - 1)
  /\ MaxCount \in Nat

\* Arithmetic of powers of two: a page is not empty, and pages fill the memory.
ASSUME PowersAssumption ==
  /\ 2^PageShift > 0 /\ 2^(W - PageShift) > 0
  /\ 2^W = 2^(W - PageShift) * 2^PageShift

VARIABLES
  f_pos,    \* file->f_pos, as an unsigned number
  pc, p, count, done, \* a call: its ppos plus what is done, what is left
  touched,  \* addresses a call has read or written so far
  ret       \* what the last call to return was asked, did and returned

vars == <<f_pos, pc, p, count, done, touched, ret>>

Size     == 2^W
PageSize == 2^PageShift
Addrs    == 0 .. Size - 1
Wrap(n)  == n % Size
Signed(n) == IF n >= 2^(W - 1) THEN n - Size ELSE n

\* Error codes, as far as they are told apart.
EFAULT    == -14
ENOMEM    == -12
EAGAIN    == -11
EINVAL    == -22
EOVERFLOW == -75

NoReturn == [op |-> "none"]

Init ==
  /\ f_pos = 0
  /\ pc = [t \in Threads |-> "idle"]
  /\ p = [t \in Threads |-> 0]
  /\ count = [t \in Threads |-> 0]
  /\ done = [t \in Threads |-> 0]
  /\ touched = [t \in Threads |-> {}]
  /\ ret = NoReturn

-----------------------------------------------------------------------------
(* lseek and mmap                                                           *)

\* "to avoid userland mistaking f_pos=-9 as -EBADF=-9"
SeekRefused(offset) == offset >= Size - MaxErrno

\* mem_map_lseek, under the inode lock.
Lseek(t, offset, whence) ==
  /\ pc[t] = "idle"
  /\ LET target == IF whence = "cur" THEN Wrap(offset + f_pos) ELSE offset IN
       \/ /\ whence \in {"set", "cur"} /\ ~SeekRefused(target)
          /\ f_pos' = target
          /\ ret' = [op |-> "lseek", val |-> target]
       \/ /\ whence \in {"set", "cur"} /\ SeekRefused(target)
          /\ ret' = [op |-> "lseek", val |-> EOVERFLOW]
          /\ UNCHANGED f_pos
       \/ /\ whence = "end"
          /\ ret' = [op |-> "lseek", val |-> EINVAL]
          /\ UNCHANGED f_pos
  /\ UNCHANGED <<pc, p, count, done, touched>>

ShiftLeft(n)  == Wrap(n * PageSize)
ShiftRight(n) == n \div PageSize

MmapRefused_NoMinusOne(pgoff, size) ==
  \/ ShiftRight(ShiftLeft(pgoff)) # pgoff
  \/ Wrap(ShiftLeft(pgoff) + size) < ShiftLeft(pgoff)

\* "Does it even fit in phys_addr_t?" and "It's illegal to wrap around the end
\* of the physical address space."
MmapRefused(pgoff, size) ==
  \/ ShiftRight(ShiftLeft(pgoff)) # pgoff
  \/ Wrap(ShiftLeft(pgoff) + size - 1) < ShiftLeft(pgoff)

\* mem_map_mmap for a vma of that many pages.
Mmap(t, pgoff, pages) ==
  LET size == pages * PageSize IN
  /\ pc[t] = "idle"
  /\ \E val \in IF MmapRefused(pgoff, size) THEN {EINVAL} ELSE {0, EAGAIN} :
       ret' = [op |-> "mmap", pgoff |-> pgoff, size |-> size,
                                  val |-> val]
  /\ UNCHANGED <<f_pos, pc, p, count, done, touched>>

-----------------------------------------------------------------------------
(* read and write                                                           *)

\* The kernel refuses a negative position, or one that becomes negative: the
\* file does not have FMODE_UNSIGNED_OFFSET.  phys_addr_t is as wide as loff_t.
RwVerifyArea(pos, n) == Signed(pos) >= 0 /\ pos + n < 2^(W - 1)

StartRw(t, op, n) ==
  /\ pc[t] = "idle" /\ RwVerifyArea(f_pos, n)
  /\ pc' = [pc EXCEPT ![t] = op]
  /\ p' = [p EXCEPT ![t] = f_pos]
  /\ count' = [count EXCEPT ![t] = n]
  /\ done' = [done EXCEPT ![t] = 0]
  /\ touched' = [touched EXCEPT ![t] = {}]
  /\ ret' = NoReturn
  /\ UNCHANGED f_pos

\* size_inside_page
SizeInsidePage(start, n) ==
  LET sz == PageSize - (start % PageSize) IN IF sz < n THEN sz ELSE n

EndRw(t) ==
  /\ pc' = [pc EXCEPT ![t] = "idle"]
  /\ p' = [p EXCEPT ![t] = 0]
  /\ count' = [count EXCEPT ![t] = 0]
  /\ done' = [done EXCEPT ![t] = 0]
  /\ touched' = [touched EXCEPT ![t] = {}]

\* n bytes from p[t] on are transferred, as far as they lie in the one page that
\* my_xlate_dev_mem_ptr has mapped.
Transfer(t, n) ==
  touched[t] \cup {a \in p[t] .. p[t] + n - 1 : ShiftRight(a) = ShiftRight(p[t])}

Advance(t, n) ==
  /\ touched' = [touched EXCEPT ![t] = Transfer(t, n)]
  /\ p' = [p EXCEPT ![t] = @ + n]
  /\ count' = [count EXCEPT ![t] = @ - n]
  /\ done' = [done EXCEPT ![t] = @ + n]

\* One turn of the loop.
Chunk(t) ==
  /\ pc[t] \in {"read", "write"} /\ count[t] > 0
  /\ Advance(t, SizeInsidePage(p[t], count[t]))
  /\ UNCHANGED <<f_pos, pc, ret>>

\* mem_map_read fails as a whole when one page fails, with what has been copied
\* before already in the caller's buffer.
ReadFails(t) ==
  /\ pc[t] = "read" /\ count[t] > 0
  /\ EndRw(t)
  /\ ret' = [op |-> "read", val |-> EFAULT]
  /\ UNCHANGED f_pos

WritePartly_Forgets(t, copied) == 0

\* mem_map_write counts what copy_from_user did copy of the last piece.
WritePartly(t, copied) == copied

\* It stops at a page that cannot be mapped or where the caller's buffer ends,
\* and succeeds if there is something to count.
WriteStops(t) ==
  /\ pc[t] = "write" /\ count[t] > 0
  /\ \E copied \in 0 .. SizeInsidePage(p[t], count[t]) - 1 :
       LET written == done[t] + WritePartly(t, copied) IN
       /\ EndRw(t)
       /\ ret' = [op |-> "write", val |-> IF written > 0 THEN written ELSE EFAULT,
                  start |-> p[t] - done[t], touched |-> Transfer(t, copied)]
       /\ f_pos' = IF written > 0 THEN p[t] - done[t] + written ELSE f_pos

\* The loop is over, and the whole count is returned.
RwDone(t) ==
  /\ pc[t] \in {"read", "write"} /\ count[t] = 0
  /\ EndRw(t)
  /\ ret' = [op |-> pc[t], val |-> done[t], start |-> p[t] - done[t],
             touched |-> touched[t]]
  /\ f_pos' = p[t]

\* kmalloc of the bounce buffer fails.
ReadNoMemory(t) ==
  /\ pc[t] = "read" /\ done[t] = 0
  /\ EndRw(t)
  /\ ret' = [op |-> "read", val |-> ENOMEM]
  /\ UNCHANGED f_pos

-----------------------------------------------------------------------------
Next ==
  \E t \in Threads :
     \/ \E offset \in Addrs, whence \in {"set", "cur", "end"} : Lseek(t, offset, whence)
     \/ \E pgoff \in Addrs, pages \in 1 .. Size \div PageSize : Mmap(t, pgoff, pages)
     \/ \E n \in 0 .. MaxCount, op \in {"read", "write"} : StartRw(t, op, n)
     \/ Chunk(t) \/ ReadFails(t) \/ WriteStops(t) \/ RwDone(t) \/ ReadNoMemory(t)

Spec == Init /\ [][Next]_vars

-----------------------------------------------------------------------------
(* Correctness.                                                             *)

TypeOK ==
  /\ f_pos \in Addrs
  /\ pc \in [Threads -> {"idle", "read", "write"}]
  /\ p \in [Threads -> Addrs]
  /\ count \in [Threads -> 0 .. MaxCount]
  /\ done \in [Threads -> 0 .. MaxCount]
  /\ touched \in [Threads -> SUBSET Addrs]

\* A write returns exactly how much it has written, from the position it began
\* at on, and an error only if it has written nothing.
WriteExact ==
  ret.op = "write" =>
    ret.touched = IF ret.val < 0 THEN {}
                  ELSE ret.start .. ret.start + ret.val - 1

\* mmap accepts exactly the ranges that lie inside the physical address space.
MmapExact ==
  ret.op = "mmap" =>
    (ret.val = EINVAL <=> ret.pgoff * PageSize + ret.size > Size)
=============================================================================
