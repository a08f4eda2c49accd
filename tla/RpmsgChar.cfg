\* One file at a time, two threads, one destroy at any moment.
\* Once the device is destroyed and its file closed nothing happens any more.
CHECK_DEADLOCK FALSE
CONSTANTS
  Files = {f1}
  Threads = {t1, t2}
  Parent = parent
  Epts = {e1, e2}
  MaxQueue = 2
  OneDestroy = TRUE
  None = None
SPECIFICATION Spec
INVARIANTS  NoStaleMessage NoLostReader
PROPERTIES DestroyCompletes
