\* Three users (one the name service), two endpoint objects, two rx buffers.
CONSTANTS
  Users = {ns, u1, u2}
  Ns = ns
  Epts = {e1, e2}
  MaxAddr = 1
  Reserved = 1
  RxBufs = {b1, b2}
  EventIdx = TRUE
  None = None
SPECIFICATION Spec
INVARIANTS NoUseAfterFree RefcountExact AddressesConsistent
  NoCallbackAfterDestroy RxBufferConserved
PROPERTIES DestroyReturns MessagesDigested
