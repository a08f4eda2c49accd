\* A client driver, and the character device driver bound by driver_override.
CONSTANTS
  echo = echo
  client = client
  client2 = client2
  chrdev = chrdev
  Vdevs = {v1}
  Names = {echo}
  Dsts = {1, 2}
  Drivers = {client, chrdev}
  Serves <- MCServes
  NoCallback = {chrdev}
  Chans = {c1, c2}
  Epts = {e1, e2}
  MaxAddr = 2
  None = None
SYMMETRY ChannelSymmetry
SPECIFICATION Spec
INVARIANTS OwnEndpoint
