SPECIFICATION Spec
CONSTANTS
  Matrix <- MCMatrix
  SlotKeys = {"slot"}
  InjectKeys = {"plain"}
  Threshold = 2
  LongTicks = 2
  QueueDepth = 2
  ViewDepth = 1
INVARIANTS KeypadInv
PROPERTIES Debounced HeardInPairs KeySettles
