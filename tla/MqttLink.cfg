\* Every interleaving of three link changes, two sessions and a publisher,
\* with a client that may refuse to start.
CONSTANTS
  Messages = {m1}
  StartMayFail = TRUE
  MaxLinkCalls = 3
  MaxSessions = 2
  MaxPublishes = 2
SPECIFICATION Spec
INVARIANTS
  FlagTracksSession
  LedTellsTruth
PROPERTIES
  Settles
CHECK_DEADLOCK FALSE
