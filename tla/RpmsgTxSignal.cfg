\* One sender, one buffer: a signal and a remote that never returns it.
CONSTANTS
  Senders = {s1}
  NTx = 1
  RingSize = 1
  EventIdx = TRUE
SPECIFICATION Spec
PROPERTIES SendAlwaysReturns
