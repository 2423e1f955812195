SPECIFICATION ViewsSpec
CONSTANTS
  Capacity = 2
  SendMax = 1
  MaxRx = 3
  MaxKeys = 4
  MaxText = 2
  Peers = {1, 2, 3}
  MaxUpdates = 3
INVARIANTS InboxInv SentOnce NodesKept
PROPERTIES ViewsSettle ResultIsShown
