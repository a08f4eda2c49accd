\* Two senders, one tx buffer, event index: they wait for it and for each other.
CONSTANTS
  Senders = {s1, s2}
  NTx = 1
  RingSize = 1
  EventIdx = TRUE
SPECIFICATION Spec
INVARIANTS TypeOK OneOwner NoBufferForgotten SleepersCount NoLostWakeup
PROPERTIES MessageStable ImplementsAbs SendReturns
