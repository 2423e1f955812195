SPECIFICATION BootSpec
CONSTANTS
  C0 = C0
  C1 = C1
  Writers = {C1}
  Timeouts = "late"
INVARIANTS ParkInv XipSafe
PROPERTIES AnswersRequest OperationsEnd
