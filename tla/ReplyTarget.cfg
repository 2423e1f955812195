CONSTANTS
  Capacity = 2
  SendMax = 1
  MaxRx = 2
  MaxKeys = 2
  MaxText = 1
SPECIFICATION Spec
INVARIANTS
  ReplyToDisplayed
