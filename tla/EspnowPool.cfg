\* Three slots, enough frames to fill the pool, shed, and go round it again.
CONSTANTS
  QUEUE_LEN = 3
  MaxFrames = 6
SPECIFICATION Spec
INVARIANTS
  SlotInv
  PoolConserved
  WholeFramesInOrder
  FramesAccounted
PROPERTIES
  EveryHeldFrameConsumed
  QuietGoesDark
  ImplementsChannel
CHECK_DEADLOCK FALSE
