\* DHCP with two addresses or a configured one, three changes of the cable,
\* one restart during start-up.
CONSTANTS
  Leases = {a, b}
  NoIp = NoIp
  Builds = {NoIp, a}
  LeaseMayExpire = TRUE
  MaxPhyChanges = 3
  MaxBinds = 2
  MaxAborts = 1
SPECIFICATION StartupSpec
INVARIANTS
  StartupInv
  RestShowsAddress
  ServicesFollowAddress
PROPERTIES
  ComesUp
CHECK_DEADLOCK FALSE
