\* A ring of two, four frames, a reboot and two lost connections.
CONSTANTS
  HISTORY = 2
  FirstCap = 3
  MaxFrames = 4
  MaxMishaps = 2
  MaxBoots = 2
SPECIFICATION Spec
INVARIANTS
  PinInv
  RowsMirrorRing
PROPERTIES
  SelectionSinks
  FindsBack
CHECK_DEADLOCK FALSE
