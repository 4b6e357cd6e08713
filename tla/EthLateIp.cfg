\* A configured address; the cable is pulled before CONNECTED is handled.
CONSTANTS
  Leases = {a}
  NoIp = NoIp
  Builds = {a}
  LeaseMayExpire = FALSE
  MaxPhyChanges = 2
  MaxBinds = 0
SPECIFICATION Spec
INVARIANT LostReadsZero
CHECK_DEADLOCK FALSE
