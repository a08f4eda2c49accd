\* Two endpoint devices on a control device and its successor, one minor too few.
CONSTANTS
  Channels = {ch1}
  Ctrls = {k1, k2}
  Eptdevs = {e1, e2}
  Files = {f1, f2}
  DevMax = 3
  MaxCdevs = 3
  None = None
SYMMETRY CtrlSymmetry
SPECIFICATION Spec
INVARIANTS NumbersExact  RefsExact
