\* The device is opened twice.
\* Once the device is destroyed and its file closed nothing happens any more.
CHECK_DEADLOCK FALSE
CONSTANTS
  Files = {f1, f2}
  Threads = {t1, t2}
  Parent = parent
  Epts = {e1, e2}
  MaxQueue = 1
  OneDestroy = TRUE
  None = None
SYMMETRY CharSymmetry
SPECIFICATION Spec
INVARIANTS NoOrphanEndpoint
