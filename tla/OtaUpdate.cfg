\* Bodies up to two buffers and a half, two uploads, a power loss anywhere.
CONSTANTS
  OTA_CHUNK = 2
  OTA_MAX_STALLS = 3
  MaxBody = 5
  MaxUploads = 2
  MaxLosses = 1
SPECIFICATION Spec
INVARIANTS
  UpdateInv
  BootsVerified
  EndsWithWholeBody
  DeadOnlyAfterSilence
  AnswerTellsBoot
PROPERTIES
  StopReturns
CHECK_DEADLOCK FALSE
