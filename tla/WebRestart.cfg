\* Browsers on one descriptor, the server restarted, a ring that fills up.
CONSTANTS
  HISTORY = 3
  WORD = 16
  WS_CLIENTS = 1
  FDs = {11}
  MaxFrames = 3
  MaxConns = 2
  MaxStarts = 2
SPECIFICATION Spec
PROPERTIES
  EventuallyFed
  DispatchNeverParked
CHECK_DEADLOCK FALSE
