\* Two browsers, two descriptors, and one frame more than the ring holds.
CONSTANTS
  HISTORY = 2
  WORD = 16
  WS_CLIENTS = 2
  FDs = {11, 12}
  MaxFrames = 3
  MaxConns = 2
  MaxStarts = 1
SPECIFICATION Spec
INVARIANTS
  ListInv
  RingHolds
  FedAsPromised
PROPERTIES
  ImplementsFeed
CHECK_DEADLOCK FALSE
