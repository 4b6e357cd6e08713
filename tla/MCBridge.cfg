\* A pool of two slots, three frames, two sessions, two link changes.
CONSTANTS
  Capacity = 2
  MaxFrames = 3
  StartMayFail = FALSE
  MaxLinkCalls = 2
  MaxSessions = 2
  MacOf <- MCMacOf
  KeyOf <- MCKeyOf
  KeyMax = 4
SPECIFICATION Spec
INVARIANTS
  TopicInv
  BrokerOrder
  BothHalvesOrBroken
PROPERTIES
  LonePayload
  EveryFrameServed
CHECK_DEADLOCK FALSE
