----------------------------- MODULE MemMapProofs -----------------------------
(***************************************************************************)
(* Proofs about MemMap and LibMem: a write returns exactly what it has     *)
(* written, mmap accepts exactly the ranges inside the physical address    *)
(* space, and the library does what it says, for every width of addresses, *)
(* every page size, and any threads.                                       *)
(***************************************************************************)
EXTENDS LibMem, TLAPS

NPages == 2^(W - PageShift)

\* The sizes as the proofs use them.
LEMMA Sizes ==
  /\ PageSize \in Nat /\ PageSize > 0
  /\ NPages \in Nat /\ NPages > 0
  /\ Size = NPages * PageSize /\ Size \in Nat /\ Size > 0
<1>1. PageShift \in Nat /\ W - PageShift \in Nat /\ W \in Nat
  BY MemMapAssumption
<1>2. 2^PageShift \in Int /\ 2^(W - PageShift) \in Int
  BY <1>1
<1>3. PageSize \in Nat /\ PageSize > 0 /\ NPages \in Nat /\ NPages > 0
  BY <1>2, PowersAssumption DEF PageSize, NPages
<1>4. Size = NPages * PageSize
  BY PowersAssumption DEF Size, NPages, PageSize
<1>5. \A a, b \in Nat : a > 0 /\ b > 0 => a * b \in Nat /\ a * b > 0
  OBVIOUS
<1> QED
  BY <1>3, <1>4, <1>5

LEMMA DivMod ==
  ASSUME NEW s \in Nat, s > 0, NEW a \in Nat
  PROVE  /\ a \div s \in Nat /\ a % s \in Nat /\ a % s < s
         /\ a = (a \div s) * s + (a % s)
OBVIOUS

LEMMA DivExact ==
  ASSUME NEW s \in Nat, s > 0, NEW q \in Nat, NEW r \in Nat, r < s
  PROVE  (q * s + r) \div s = q
OBVIOUS

LEMMA TimesLess ==
  ASSUME NEW s \in Nat, s > 0, NEW q \in Nat, NEW r \in Nat
  PROVE  q * s \in Nat /\ (q * s < r * s <=> q < r)
OBVIOUS

LEMMA WrapInside ==
  ASSUME NEW n \in Nat
  PROVE  /\ Wrap(n) \in Addrs
         /\ n < Size => Wrap(n) = n
         /\ Size <= n /\ n < 2 * Size => Wrap(n) = n - Size
  BY Sizes DEF Wrap, Addrs

-----------------------------------------------------------------------------
(* read and write: pieces lie in one page, and follow each other.           *)

LEMMA PieceInPage ==
  ASSUME NEW start \in Nat, NEW n \in Nat
  PROVE  LET sz == SizeInsidePage(start, n) IN
         /\ sz \in Nat /\ sz <= n
         /\ n > 0 => sz > 0
         /\ (start % PageSize) + sz <= PageSize
  BY Sizes, DivMod DEF SizeInsidePage

LEMMA SamePage ==
  ASSUME NEW start \in Nat, NEW k \in Nat, (start % PageSize) + k < PageSize
  PROVE  ShiftRight(start + k) = ShiftRight(start)
<1> DEFINE q == start \div PageSize
           r == start % PageSize
<1>1. q \in Nat /\ r \in Nat /\ start = q * PageSize + r
  BY Sizes, DivMod
<1>2. start + k = q * PageSize + (r + k) /\ r + k \in Nat /\ r + k < PageSize
  BY <1>1, Sizes
<1>3. (q * PageSize + (r + k)) \div PageSize = q
  <2> HIDE DEF q, r
  <2> QED
    BY <1>1, <1>2, Sizes, DivExact
<1> QED
  BY <1>2, <1>3 DEF ShiftRight

\* As much of TypeOK as the argument needs.
Shape ==
  /\ f_pos \in Nat
  /\ pc \in [Threads -> {"idle", "read", "write"}]
  /\ p \in [Threads -> Nat]
  /\ count \in [Threads -> Nat]
  /\ done \in [Threads -> Nat]
  /\ touched \in [Threads -> SUBSET Int]

\* What a call has transferred are the last done[t] bytes before its position.
Contiguous ==
  \A t \in Threads :
     done[t] <= p[t] /\ touched[t] = p[t] - done[t] .. p[t] - 1

RwInv == Shape /\ Contiguous

\* A piece that lies in its page is transferred whole, after what was before.
LEMMA TransferExact ==
  ASSUME RwInv, NEW t \in Threads, NEW n \in Nat,
         n <= SizeInsidePage(p[t], count[t])
  PROVE  Transfer(t, n) = p[t] - done[t] .. p[t] + n - 1
<1>1. p[t] \in Nat /\ count[t] \in Nat /\ done[t] \in Nat /\ done[t] <= p[t]
  BY DEF RwInv, Shape, Contiguous
<1>2. (p[t] % PageSize) + n <= PageSize /\ p[t] % PageSize \in Nat
  <2> DEFINE sz == SizeInsidePage(p[t], count[t])
  <2>1. sz \in Nat /\ n <= sz /\ (p[t] % PageSize) + sz <= PageSize
    BY <1>1, PieceInPage
  <2>2. p[t] % PageSize \in Nat
    BY <1>1, Sizes, DivMod
  <2> HIDE DEF sz
  <2> QED
    BY <2>1, <2>2, Sizes
<1>3. \A a \in p[t] .. p[t] + n - 1 : ShiftRight(a) = ShiftRight(p[t])
  <2> SUFFICES ASSUME NEW a \in p[t] .. p[t] + n - 1
               PROVE  ShiftRight(a) = ShiftRight(p[t])
    OBVIOUS
  <2>1. a - p[t] \in Nat /\ a - p[t] < n /\ p[t] + (a - p[t]) = a
    BY <1>1
  <2>2. (p[t] % PageSize) + (a - p[t]) < PageSize
    BY <1>2, <2>1, Sizes
  <2> QED
    BY <1>1, <2>1, <2>2, SamePage
<1>4. Transfer(t, n) = touched[t] \cup p[t] .. p[t] + n - 1
  BY <1>3 DEF Transfer
<1>5. touched[t] = p[t] - done[t] .. p[t] - 1
  BY DEF RwInv, Contiguous
<1> QED
  BY <1>1, <1>4, <1>5

-----------------------------------------------------------------------------
LEMMA EndKeeps ==
  ASSUME RwInv, NEW t \in Threads, EndRw(t), f_pos' \in Nat
  PROVE  RwInv'
  BY DEF RwInv, Shape, Contiguous, EndRw

LEMMA LseekKeeps ==
  ASSUME Shape, NEW t \in Threads, NEW offset \in Addrs, NEW whence, Lseek(t, offset, whence)
  PROVE  f_pos' \in Nat
<1>1. offset \in Nat /\ offset + f_pos \in Nat
  BY Sizes DEF Addrs, Shape
<1>2. Wrap(offset + f_pos) \in Nat
  BY <1>1, WrapInside, Sizes DEF Addrs
<1> QED
  BY <1>1, <1>2 DEF Lseek, Shape

LEMMA ChunkKeeps ==
  ASSUME RwInv, NEW t \in Threads, Chunk(t)
  PROVE  RwInv'
<1> DEFINE n == SizeInsidePage(p[t], count[t])
<1>1. p[t] \in Nat /\ count[t] \in Nat /\ done[t] \in Nat /\ done[t] <= p[t]
  BY DEF RwInv, Shape, Contiguous
<1>2. n \in Nat /\ n <= count[t]
  BY <1>1, PieceInPage
<1>3. Transfer(t, n) = p[t] - done[t] .. p[t] + n - 1
  BY <1>2, TransferExact
<1> HIDE DEF n
<1>4. /\ touched' = [touched EXCEPT ![t] = Transfer(t, n)]
      /\ p' = [p EXCEPT ![t] = @ + n]
      /\ count' = [count EXCEPT ![t] = @ - n]
      /\ done' = [done EXCEPT ![t] = @ + n]
      /\ UNCHANGED <<f_pos, pc>>
  BY DEF Chunk, Advance, n
<1>5. Shape'
  BY <1>1, <1>2, <1>3, <1>4 DEF RwInv, Shape
<1>6. ASSUME NEW u \in Threads
      PROVE  (done[u] <= p[u] /\ touched[u] = p[u] - done[u] .. p[u] - 1)'
  <2>1. CASE u = t
    <3>1. p'[t] = p[t] + n /\ done'[t] = done[t] + n /\ touched'[t] = Transfer(t, n)
      BY <1>4 DEF RwInv, Shape
    <3>2. /\ p'[t] - done'[t] = p[t] - done[t] /\ done'[t] <= p'[t]
          /\ p'[t] - 1 = p[t] + n - 1
      BY <1>1, <1>2, <3>1
    <3>3. touched'[t] = p'[t] - done'[t] .. p'[t] - 1
      BY <1>3, <3>1, <3>2
    <3> QED
      BY <2>1, <3>2, <3>3
  <2>2. CASE u # t
    BY <1>4, <2>2 DEF RwInv, Shape, Contiguous
  <2> QED
    BY <2>1, <2>2
<1> QED
  BY <1>5, <1>6 DEF RwInv, Contiguous

LEMMA StopFacts ==
  ASSUME RwInv, NEW t \in Threads,
         NEW copied \in 0 .. SizeInsidePage(p[t], count[t]) - 1
  PROVE  /\ copied \in Nat /\ done[t] + copied \in Nat
         /\ p[t] - done[t] \in Nat
         /\ Transfer(t, copied) = p[t] - done[t] .. p[t] + copied - 1
<1>1. p[t] \in Nat /\ count[t] \in Nat /\ done[t] \in Nat /\ done[t] <= p[t]
  BY DEF RwInv, Shape, Contiguous
<1>2. SizeInsidePage(p[t], count[t]) \in Nat
  BY <1>1, PieceInPage
<1>3. copied \in Nat /\ copied <= SizeInsidePage(p[t], count[t])
  BY <1>2
<1> QED
  BY <1>1, <1>3, TransferExact

LEMMA RwStep == RwInv /\ [Next \/ LibCall]_vars => RwInv'
<1> SUFFICES ASSUME RwInv, [Next \/ LibCall]_vars PROVE RwInv'
  OBVIOUS
<1>1. ASSUME NEW t \in Threads, NEW offset \in Addrs, NEW whence, Lseek(t, offset, whence)
      PROVE  RwInv'
  <2>1. f_pos' \in Nat
    BY <1>1, LseekKeeps DEF RwInv
  <2> QED
    BY <1>1, <2>1 DEF Lseek, RwInv, Shape, Contiguous
<1>2. ASSUME NEW t \in Threads, NEW pgoff, NEW pages, Mmap(t, pgoff, pages) PROVE RwInv'
  BY <1>2 DEF Mmap, RwInv, Shape, Contiguous
<1>3. ASSUME NEW t \in Threads, NEW n \in 0 .. MaxCount, NEW op \in {"read", "write"},
             StartRw(t, op, n)
      PROVE  RwInv'
  <2>1. n \in Nat
    BY MemMapAssumption
  <2> QED
    BY <1>3, <2>1 DEF StartRw, RwInv, Shape, Contiguous
<1>4. ASSUME NEW t \in Threads, Chunk(t) PROVE RwInv'
  BY <1>4, ChunkKeeps
<1>5. ASSUME NEW t \in Threads, ReadFails(t) \/ ReadNoMemory(t) PROVE RwInv'
  BY <1>5, EndKeeps DEF ReadFails, ReadNoMemory, RwInv, Shape
<1>6. ASSUME NEW t \in Threads, WriteStops(t) PROVE RwInv'
  <2>1. PICK copied \in 0 .. SizeInsidePage(p[t], count[t]) - 1 :
               /\ EndRw(t)
               /\ f_pos' = IF done[t] + copied > 0 THEN p[t] - done[t] + (done[t] + copied)
                                                   ELSE f_pos
    BY <1>6 DEF WriteStops, WritePartly
  <2>2. f_pos' \in Nat
    BY <2>1, StopFacts DEF RwInv, Shape
  <2> QED
    BY <2>1, <2>2, EndKeeps
<1>7. ASSUME NEW t \in Threads, RwDone(t) PROVE RwInv'
  BY <1>7, EndKeeps DEF RwDone, RwInv, Shape
<1>8. CASE LibCall \/ UNCHANGED vars
  BY <1>8 DEF LibCall, vars, RwInv, Shape, Contiguous
<1> QED
  BY <1>1, <1>2, <1>3, <1>4, <1>5, <1>6, <1>7, <1>8 DEF Next

LEMMA RwInvariant == LibSpec => []RwInv
<1>1. Init => RwInv
  BY DEF Init, RwInv, Shape, Contiguous
<1> QED
  BY <1>1, RwStep, PTL DEF LibSpec

-----------------------------------------------------------------------------
(* What a call returns.                                                     *)

\* The operations that return neither from a write nor from mmap nor from the
\* library.
LEMMA OtherReturns ==
  ASSUME NEW t \in Threads,
         \/ \E offset \in Addrs, whence \in {"set", "cur", "end"} : Lseek(t, offset, whence)
         \/ \E n \in 0 .. MaxCount, op \in {"read", "write"} : StartRw(t, op, n)
         \/ ReadFails(t) \/ ReadNoMemory(t)
  PROVE  ret'.op \notin {"write", "mmap"} /\ "addr" \notin DOMAIN ret'
  BY DEF Lseek, StartRw, NoReturn, ReadFails, ReadNoMemory

LEMMA StopReturns ==
  ASSUME RwInv, NEW t \in Threads, WriteStops(t)
  PROVE  WriteExact' /\ ret'.op = "write" /\ "addr" \notin DOMAIN ret'
<1>1. PICK copied \in 0 .. SizeInsidePage(p[t], count[t]) - 1 :
        ret' = [op |-> "write",
                val |-> IF done[t] + copied > 0 THEN done[t] + copied ELSE EFAULT,
                start |-> p[t] - done[t], touched |-> Transfer(t, copied)]
  BY DEF WriteStops, WritePartly
<1>2. /\ copied \in Nat /\ done[t] \in Nat /\ p[t] \in Nat
      /\ Transfer(t, copied) = p[t] - done[t] .. p[t] + copied - 1
  BY StopFacts DEF RwInv, Shape
<1>3. CASE done[t] + copied > 0
  <2>1. /\ ret'.val = done[t] + copied /\ ret'.start = p[t] - done[t]
        /\ ret'.touched = Transfer(t, copied)
    BY <1>1, <1>3
  <2>2. ~(ret'.val < 0) /\ ret'.start + ret'.val - 1 = p[t] + copied - 1
    BY <1>2, <1>3, <2>1
  <2> QED
    BY <1>1, <1>2, <2>1, <2>2 DEF WriteExact
<1>4. CASE ~(done[t] + copied > 0)
  <2>1. done[t] = 0 /\ copied = 0
    BY <1>2, <1>4
  <2>2. ret'.val = EFAULT /\ ret'.touched = Transfer(t, copied)
    BY <1>1, <1>4
  <2>3. Transfer(t, copied) = {}
    BY <1>2, <2>1
  <2> QED
    BY <1>1, <2>2, <2>3 DEF WriteExact, EFAULT
<1> QED
  BY <1>1, <1>3, <1>4

LEMMA DoneReturns ==
  ASSUME RwInv, NEW t \in Threads, RwDone(t)
  PROVE  WriteExact' /\ ret'.op # "mmap" /\ "addr" \notin DOMAIN ret'
<1>1. /\ ret' = [op |-> pc[t], val |-> done[t], start |-> p[t] - done[t],
                 touched |-> touched[t]]
      /\ pc[t] \in {"read", "write"}
  BY DEF RwDone
<1>2. /\ done[t] \in Nat /\ p[t] \in Nat
      /\ touched[t] = p[t] - done[t] .. p[t] - 1
  BY DEF RwInv, Shape, Contiguous
<1>3. /\ ret'.val = done[t] /\ ret'.start = p[t] - done[t] /\ ret'.touched = touched[t]
  BY <1>1
<1>4. ~(ret'.val < 0) /\ ret'.start + ret'.val - 1 = p[t] - 1
  BY <1>2, <1>3
<1> QED
  BY <1>1, <1>2, <1>3, <1>4 DEF WriteExact

\* The two checks of mem_map_mmap are right, and need both: the first is about a
\* page number that is too large, the second about a range that is too long.
LEMMA RefusedExact ==
  ASSUME NEW pgoff \in Nat, NEW pages \in 1 .. NPages
  PROVE  MmapRefused(pgoff, pages * PageSize)
           <=> pgoff * PageSize + pages * PageSize > Size
<1> DEFINE start == pgoff * PageSize
           size  == pages * PageSize
<1>1. /\ start \in Nat /\ size \in Nat /\ size > 0 /\ size <= Size
  BY Sizes, TimesLess
<1>2. start < Size <=> pgoff < NPages
  BY Sizes, TimesLess
<1>3. ShiftLeft(pgoff) = Wrap(start)
  BY DEF ShiftLeft
<1>4. CASE pgoff < NPages
  <2>1. ShiftLeft(pgoff) = start
    BY <1>1, <1>2, <1>3, <1>4, WrapInside
  <2>2. ShiftRight(start) = pgoff
    <3>1. (pgoff * PageSize + 0) \div PageSize = pgoff
      BY Sizes, DivExact
    <3> QED
      BY <3>1, <1>1 DEF ShiftRight
  <2> HIDE DEF start, size
  <2>3. CASE start + size > Size
    <3>1. start + size - 1 \in Nat /\ Size <= start + size - 1 /\ start + size - 1 < 2 * Size
      BY <1>1, <1>2, <1>4, <2>3, Sizes
    <3>2. Wrap(start + size - 1) = (start + size - 1) - Size
      <4> DEFINE n == start + size - 1
      <4>1. n \in Nat /\ Size <= n /\ n < 2 * Size
        BY <3>1
      <4> HIDE DEF n
      <4>2. Wrap(n) = n - Size
        BY <4>1, WrapInside
      <4> QED
        BY <4>2 DEF n
    <3>3. Wrap(start + size - 1) < start
      BY <1>1, <3>2, Sizes
    <3>4. MmapRefused(pgoff, size)
      BY <2>1, <3>3 DEF MmapRefused
    <3> QED
      BY <2>3, <3>4 DEF start, size
  <2>4. CASE ~(start + size > Size)
    <3>1. start + size - 1 \in Nat /\ start + size - 1 < Size /\ ~(start + size - 1 < start)
      BY <1>1, <2>4, Sizes
    <3>2. Wrap(start + size - 1) = start + size - 1
      BY <3>1, WrapInside
    <3>3. ~MmapRefused(pgoff, size)
      BY <2>1, <2>2, <3>1, <3>2 DEF MmapRefused
    <3> QED
      BY <2>4, <3>3 DEF start, size
  <2> QED
    BY <2>3, <2>4
<1>5. CASE ~(pgoff < NPages)
  <2>1. start + size > Size
    <3> HIDE DEF start, size
    <3> QED
      BY <1>1, <1>2, <1>5, Sizes
  <2>2. ShiftLeft(pgoff) \in Nat /\ ShiftLeft(pgoff) < NPages * PageSize
    BY <1>1, <1>3, WrapInside, Sizes DEF Addrs
  <2>3. ShiftRight(ShiftLeft(pgoff)) < NPages
    <3> DEFINE a == ShiftLeft(pgoff)
               q == a \div PageSize
    <3>1. q \in Nat /\ a % PageSize \in Nat /\ a = q * PageSize + (a % PageSize)
      BY <2>2, Sizes, DivMod
    <3>2. q * PageSize \in Nat /\ (q * PageSize < NPages * PageSize <=> q < NPages)
      BY <3>1, Sizes, TimesLess
    <3>3. NPages * PageSize \in Nat
      BY Sizes
    <3> HIDE DEF a
    <3>4. q * PageSize <= a
      <4> DEFINE qs == q * PageSize
                 r  == a % PageSize
      <4>1. qs \in Nat /\ r \in Nat /\ a = qs + r
        BY <3>1, <3>2
      <4> HIDE DEF qs, r
      <4>2. qs <= a
        BY <4>1
      <4> QED
        BY <4>2 DEF qs
    <3>5. a \in Nat /\ a < NPages * PageSize
      BY <2>2 DEF a
    <3>6. q * PageSize < NPages * PageSize
      <4> DEFINE qs == q * PageSize
                 ns == NPages * PageSize
      <4>1. qs \in Nat /\ ns \in Nat /\ qs <= a /\ a < ns
        BY <3>2, <3>3, <3>4, <3>5
      <4> HIDE DEF qs, ns
      <4>2. qs < ns
        BY <4>1, <3>5
      <4> QED
        BY <4>2 DEF qs, ns
    <3> QED
      BY <3>2, <3>6 DEF a, ShiftRight
  <2>4. MmapRefused(pgoff, size)
    BY <1>5, <2>3, Sizes DEF MmapRefused
  <2> QED
    BY <2>1, <2>4
<1> QED
  BY <1>4, <1>5

LEMMA MmapReturns ==
  ASSUME NEW t \in Threads, NEW pgoff \in Addrs, NEW pages \in 1 .. Size \div PageSize,
         Mmap(t, pgoff, pages)
  PROVE  MmapExact' /\ ret'.op = "mmap" /\ "addr" \notin DOMAIN ret'
<1>1. PICK val \in IF MmapRefused(pgoff, pages * PageSize) THEN {EINVAL} ELSE {0, EAGAIN} :
        ret' = [op |-> "mmap", pgoff |-> pgoff, size |-> pages * PageSize, val |-> val]
  BY DEF Mmap
<1>2. /\ ret'.op = "mmap" /\ ret'.pgoff = pgoff /\ ret'.size = pages * PageSize
      /\ ret'.val = val /\ "addr" \notin DOMAIN ret'
  BY <1>1
<1>3. Size \div PageSize = NPages
  <2>1. (NPages * PageSize + 0) \div PageSize = NPages
    BY Sizes, DivExact
  <2> QED
    BY <2>1, Sizes
<1>4. pgoff \in Nat /\ pages \in 1 .. NPages
  BY <1>3, Sizes DEF Addrs
<1>5. val = EINVAL <=> MmapRefused(pgoff, pages * PageSize)
  BY <1>1 DEF EINVAL, EAGAIN
<1>6. MmapRefused(pgoff, pages * PageSize)
        <=> pgoff * PageSize + pages * PageSize > Size
  BY <1>4, RefusedExact
<1> QED
  BY <1>2, <1>5, <1>6 DEF MmapExact

-----------------------------------------------------------------------------
(* What the library returns.                                                *)

LEMMA AlignedInPage ==
  ASSUME NEW addr \in Nat, NEW size \in Valid, addr % size = 0
  PROVE  (addr % PageSize) + size <= PageSize
<1>1. PageSize % 4 = 0
  BY LibMemAssumption
<1> DEFINE q == addr \div PageSize
           r == addr % PageSize
<1>2. q \in Nat /\ r \in Nat /\ r < PageSize /\ addr = q * PageSize + r
  BY Sizes, DivMod
<1>3. PICK k \in Nat : PageSize = 4 * k
  BY <1>1, Sizes
<1>4. addr = 4 * (q * k) + r /\ q * k \in Nat
  <2> HIDE DEF q, r
  <2>1. q * PageSize = 4 * (q * k)
    BY <1>2, <1>3
  <2> QED
    BY <1>2, <1>3, <2>1
<1> HIDE DEF q, r
<1>5. r % size = 0
  <2> DEFINE m == q * k
  <2>1. m \in Nat /\ addr = 4 * m + r
    BY <1>4
  <2> HIDE DEF m
  <2>2. CASE size = 1
    BY <1>2, <2>2
  <2>3. CASE size = 2
    BY <1>2, <2>1, <2>3
  <2>4. CASE size = 4
    BY <1>2, <2>1, <2>4
  <2> QED
    BY <2>2, <2>3, <2>4 DEF Valid
<1>6. r + size <= PageSize
  <2>1. CASE size = 1
    BY <1>2, <2>1, Sizes
  <2>2. CASE size = 2
    BY <1>2, <1>3, <1>5, <2>2
  <2>3. CASE size = 4
    BY <1>2, <1>3, <1>5, <2>3
  <2> QED
    BY <2>1, <2>2, <2>3 DEF Valid
<1> QED
  BY <1>6 DEF r

LEMMA Codes == 1 # 0 /\ SIGSEGV # 0 /\ SIGSEGV # 1
BY DEF SIGSEGV

LEMMA ReturnsExact ==
  ASSUME NEW op, NEW addr, NEW size, NEW val, NEW start, NEW n,
         Returns(op, addr, size, val, start, n), op \notin {"write", "mmap"},
         val = 0 /\ ~SeekRefused(addr) =>
           start .. start + n - 1 = addr .. addr + size - 1,
         op = "lib read" /\ val = SIGSEGV => addr % size # 0
  PROVE  LibExact' /\ ret'.op \notin {"write", "mmap"}
<1>1. /\ ret'.op = op /\ ret'.addr = addr /\ ret'.size = size /\ ret'.val = val
      /\ ret'.touched = start .. start + n - 1
  BY DEF Returns
<1>2. ret'.op \notin {"write", "mmap"}
  BY <1>1
<1>3. ret'.val = 0 /\ ~SeekRefused(ret'.addr) =>
        ret'.touched = ret'.addr .. ret'.addr + ret'.size - 1
  BY <1>1
<1>4. ret'.op = "lib read" /\ ret'.val = SIGSEGV => ret'.addr % ret'.size # 0
  BY <1>1
<1> QED
  BY <1>2, <1>3, <1>4 DEF LibExact

LEMMA LibReturns ==
  ASSUME NEW addr \in Addrs, NEW size \in LibSizes,
         \/ ReadDramRaw(addr, size) \/ WriteDramRaw(addr, size)
         \/ ReadDramMapRaw(addr, size) \/ WriteDramMapRaw(addr, size)
  PROVE  LibExact' /\ ret'.op \notin {"write", "mmap"}
<1>1. addr \in Nat /\ size \in Nat
  BY Sizes, LibMemAssumption DEF Addrs
\* A call that fails, or is killed where that is no promise broken.
<1>2. ASSUME NEW op \in {"lib read", "lib write", "lib write map", "mmap failed"},
             NEW val \in {1, SIGSEGV}, NEW start, NEW n,
             Returns(op, addr, size, val, start, n),
             op = "lib read" /\ val = SIGSEGV => addr % size # 0
      PROVE  LibExact' /\ ret'.op \notin {"write", "mmap"}
  <2>1. val # 0
    BY Zenon, Codes
  <2>2. op \notin {"write", "mmap"}
    OBVIOUS
  <2> QED
    BY <1>2, <2>1, <2>2, ReturnsExact
\* A call that succeeds.
<1>3. ASSUME NEW op \in {"lib read", "lib write"}, NEW start,
             Returns(op, addr, size, 0, start, size),
             ~SeekRefused(addr) => start = addr
      PROVE  LibExact' /\ ret'.op \notin {"write", "mmap"}
  <2>1. 0 # SIGSEGV
    BY Zenon, Codes
  <2>3. op \notin {"write", "mmap"}
    OBVIOUS
  <2>2. ~SeekRefused(addr) => start .. start + size - 1 = addr .. addr + size - 1
    BY <1>3
  <2> QED
    BY <1>3, <2>1, <2>2, <2>3, ReturnsExact
<1>4. 1 # SIGSEGV /\ (~SeekRefused(addr) => SeekTo(addr) = addr)
  BY Codes DEF SeekTo
<1>5. CASE ReadDramRaw(addr, size)
  <2>1. CASE Returns("lib read", addr, size, 1, SeekTo(addr), 0)
    BY <1>2, <1>4, <2>1
  <2>2. CASE Returns("lib read", addr, size, IF size \in Valid THEN 0 ELSE 1, SeekTo(addr), size)
    <3>1. CASE size \in Valid
      <4>1. Returns("lib read", addr, size, 0, SeekTo(addr), size)
        BY <2>2, <3>1
      <4> QED
        BY <1>3, <1>4, <4>1
    <3>2. CASE size \notin Valid
      <4>1. Returns("lib read", addr, size, 1, SeekTo(addr), size)
        BY <2>2, <3>2
      <4> QED
        BY <1>2, <1>4, <4>1
    <3> QED
      BY <3>1, <3>2
  <2> QED
    BY <1>5, <2>1, <2>2 DEF ReadDramRaw
<1>6. CASE WriteDramRaw(addr, size)
  <2>1. CASE Returns("lib write", addr, size, 1, SeekTo(addr), 0)
    BY <1>2, <1>4, <2>1
  <2>2. ASSUME NEW n \in 0 .. size,
               Returns("lib write", addr, size, IF n = size THEN 0 ELSE 1, SeekTo(addr), n)
        PROVE  LibExact' /\ ret'.op \notin {"write", "mmap"}
    <3>1. CASE n = size
      <4>1. Returns("lib write", addr, size, 0, SeekTo(addr), size)
        BY <2>2, <3>1
      <4> QED
        BY <1>3, <1>4, <4>1
    <3>2. CASE n # size
      <4>1. Returns("lib write", addr, size, 1, SeekTo(addr), n)
        BY <2>2, <3>2
      <4> QED
        BY <1>2, <1>4, <4>1
    <3> QED
      BY <3>1, <3>2
  <2> QED
    BY <1>6, <2>1, <2>2 DEF WriteDramRaw
<1>7. CASE ReadDramMapRaw(addr, size)
  <2> DEFINE ofst == addr % PageSize
  <2>1. CASE Returns("lib read", addr, size, 1, addr, 0)
    BY <1>2, <1>4, <2>1
  <2>2. CASE MapFails(addr)
    <3>1. Returns("mmap failed", addr, 0, SIGSEGV, addr, 0)
      BY <2>2 DEF MapFails
    <3>2. "mmap failed" \notin {"write", "mmap"} /\ "mmap failed" # "lib read"
      OBVIOUS
    <3>3. SIGSEGV # 0
      BY Zenon, Codes
    <3> QED
      BY ZenonT(40), <3>1, <3>2, <3>3, ReturnsExact
  <2>3. CASE size \in Valid /\ Returns("lib read", addr, size, 0, Window(addr) + ofst, size)
    <3>1. Window(addr) + ofst = addr
      BY <1>1, Sizes, DivMod DEF Window
    <3>2. Returns("lib read", addr, size, 0, addr, size)
      BY <2>3, <3>1
    <3> QED
      BY <1>3, <3>2
  <2>4. CASE /\ size \in Valid /\ ~(ofst + size <= PageSize)
             /\ Returns("lib read", addr, size, SIGSEGV, addr, 0)
    <3>1. addr % size # 0
      BY <1>1, <2>4, AlignedInPage
    <3> QED
      BY <1>2, <2>4, <3>1
  <2> QED
    BY <1>7, <2>1, <2>2, <2>3, <2>4 DEF ReadDramMapRaw
<1>8. CASE WriteDramMapRaw(addr, size)
  BY <1>2, <1>8 DEF WriteDramMapRaw
<1> QED
  BY <1>5, <1>6, <1>7, <1>8

RetInv == WriteExact /\ MmapExact /\ LibExact

LEMMA RetStep == RwInv /\ RetInv /\ [Next \/ LibCall]_vars => RetInv'
<1> SUFFICES ASSUME RwInv, RetInv, [Next \/ LibCall]_vars PROVE RetInv'
  OBVIOUS
<1>1. ASSUME ret'.op \notin {"write", "mmap"}, "addr" \notin DOMAIN ret' PROVE RetInv'
  BY <1>1 DEF RetInv, WriteExact, MmapExact, LibExact
<1>2. ASSUME NEW t \in Threads,
             \/ \E offset \in Addrs, whence \in {"set", "cur", "end"} : Lseek(t, offset, whence)
             \/ \E n \in 0 .. MaxCount, op \in {"read", "write"} : StartRw(t, op, n)
             \/ ReadFails(t) \/ ReadNoMemory(t)
      PROVE  RetInv'
  BY <1>1, <1>2, OtherReturns
<1>3. ASSUME NEW t \in Threads, NEW pgoff \in Addrs, NEW pages \in 1 .. Size \div PageSize,
             Mmap(t, pgoff, pages)
      PROVE  RetInv'
  <2>1. MmapExact' /\ ret'.op = "mmap" /\ "addr" \notin DOMAIN ret'
    BY <1>3, MmapReturns
  <2> QED
    BY <2>1 DEF RetInv, WriteExact, LibExact
<1>4. ASSUME NEW t \in Threads, WriteStops(t) PROVE RetInv'
  <2>1. WriteExact' /\ ret'.op = "write" /\ "addr" \notin DOMAIN ret'
    BY <1>4, StopReturns
  <2> QED
    BY <2>1 DEF RetInv, MmapExact, LibExact
<1>5. ASSUME NEW t \in Threads, RwDone(t) PROVE RetInv'
  <2>1. WriteExact' /\ ret'.op # "mmap" /\ "addr" \notin DOMAIN ret'
    BY <1>5, DoneReturns
  <2> QED
    BY <2>1 DEF RetInv, MmapExact, LibExact
<1>6. CASE LibCall
  <2>1. LibExact' /\ ret'.op \notin {"write", "mmap"}
    BY <1>6, LibReturns DEF LibCall
  <2> QED
    BY <2>1 DEF RetInv, WriteExact, MmapExact
<1>7. ASSUME UNCHANGED ret PROVE RetInv'
  BY <1>7 DEF RetInv, WriteExact, MmapExact, LibExact
<1>8. ASSUME NEW t \in Threads, Chunk(t) PROVE RetInv'
  BY <1>7, <1>8 DEF Chunk
<1> QED
  BY <1>2, <1>3, <1>4, <1>5, <1>6, <1>7, <1>8 DEF Next, vars

LEMMA RetInvariant == LibSpec => []RetInv
<1>1. Init => RetInv
  BY DEF Init, NoReturn, RetInv, WriteExact, MmapExact, LibExact
<1> QED
  BY <1>1, RwInvariant, RetStep, PTL DEF LibSpec

\* mem_map_write returns exactly how much it has written, in one piece from the
\* position it began at on, however many pages that takes and wherever it stops.
THEOREM WriteExactCorrect == LibSpec => []WriteExact
BY RetInvariant, PTL DEF RetInv

\* mem_map_mmap refuses exactly the ranges that do not lie inside the physical
\* address space, although all it can compute with wraps around.
THEOREM MmapExactCorrect == LibSpec => []MmapExact
BY RetInvariant, PTL DEF RetInv

\* The library's calls transfer what they were asked for when they return 0, and
\* a read through the map at an aligned address stays inside the page it maps.
THEOREM LibExactCorrect == LibSpec => []LibExact
BY RetInvariant, PTL DEF RetInv

================================================================================
