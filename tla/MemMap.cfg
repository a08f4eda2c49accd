\* 4-bit addresses, pages of 4 bytes, two threads on one file, and the library
\* with every valid size and one that is not.
CONSTANTS
  Threads = {t1, t2}
  W = 4
  PageShift = 2
  MaxErrno = 3
  MaxCount = 5
  LibSizes = {1, 2, 3, 4}
SYMMETRY ThreadSymmetry
SPECIFICATION LibSpec
INVARIANTS WriteExact MmapExact 
