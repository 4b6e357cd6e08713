\* Payloads of up to three bytes of every kind, and a slack they leave none of.
CONSTANTS
  Printable = {"p"}
  Opaque = {"nul"}
  MaxData = 3
  Slack = 4
  Heads = {0, 1}
  StatusFields = 4
  AddressMax = 3
SPECIFICATION JsonSpec
INVARIANTS
  FramesFit
  ReadsBack
CHECK_DEADLOCK FALSE
