SPECIFICATION Spec
CONSTANTS
  Producers = {p1}
  Msgs = {m1, m2, b1, big}
  Bare = {b1}
  Oversize = {big}
  SlotCount = 3
  IndexModulus = 6
  NoMsg = NoMsg
INVARIANTS RingInv
PROPERTIES ImplementsFifo
