\* The server is stopped while the pump task is sending.
CONSTANTS
  HISTORY = 2
  WORD = 16
  WS_CLIENTS = 1
  FDs = {11}
  MaxFrames = 2
  MaxConns = 1
  MaxStarts = 1
SPECIFICATION Spec
INVARIANTS
  SendHandleLives
CHECK_DEADLOCK FALSE
