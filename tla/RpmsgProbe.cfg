\* Two devices; rings smaller than, as large as and larger than half the buffers.
CONSTANTS
  Device = {d1, d2}
  MaxBufs = 4
  RingSizes = {1, 2, 3}
SYMMETRY DeviceSymmetry
SPECIFICATION Spec
INVARIANTS TypeOK MemoryInUse  
