\* A buffer the longest document does not fit, two partitions, two addresses.
CONSTANTS
  JsonCap = 9
  Widths = {1, 2}
  Partitions = 2
  SlotSize = 96
  MaxSegments = 2
  Images <- MCImages
  Texts <- MCTexts
  NoIpText <- MCNoIpText
  Width = 2
SPECIFICATION DocumentsSpec
INVARIANTS
  InfoInv
  WholeOrRefused
  CopiesEnd
CHECK_DEADLOCK FALSE
