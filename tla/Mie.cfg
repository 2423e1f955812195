SPECIFICATION MieSpec
CONSTANTS
  MaxFreq = 20
  MinFreq = 1
  MaxAbbrSyls = 2
  MaxPerKey = 2
  MaxWords = 6
  MaxWordChars = 5
  MaxGroup = 4
  MaxCandidates = 2
  Engines <- MCEngines
  Settings <- MCSettings
  MaxKeySeq = 3
  PageSize = 2
  MultiTapTimeout = 2
  LongPress = 1
  LruCap = 1
  WordLists <- MCWordLists
INVARIANTS ImeInv SpacingFollowsText CompositionFinds TrieFinds SearchIsSound
PROPERTIES NoKeyLost
CHECK_DEADLOCK FALSE
