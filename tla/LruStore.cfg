SPECIFICATION Spec
CONSTANTS
  Cap = 2
  Packed = 1
  ReuseBonus = 1
  MaxUses = 2
  MaxStamp = 99
  PageSize = 32
  Words <- MCWords
  N = 2
  IdleTime = 2
  MaxNow = 2
  MaxMishaps = 1
INVARIANTS StoreInv
PROPERTIES RestoresAllButLast ForgetsTheWeakest ModeChangeSaves
