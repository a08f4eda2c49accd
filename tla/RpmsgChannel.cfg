\* One device, one service at two remote addresses, two client drivers.
CONSTANTS
  echo = echo
  client = client
  client2 = client2
  chrdev = chrdev
  Vdevs = {v1}
  Names = {echo}
  Dsts = {1, 2}
  Drivers = {client, client2}
  Serves <- MCServes
  NoCallback = {}
  Chans = {c1, c2, c3}
  Epts = {e1, e2, e3}
  MaxAddr = 2
  None = None
SYMMETRY ChannelSymmetry
SPECIFICATION Spec
INVARIANTS TypeOK OwnEndpoint NoEndpointLeak  
