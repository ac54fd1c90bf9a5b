CONSTANTS
  p1 = p1
  p2 = p2
  Clients <- MCClients
  Items <- MCNetworkItems
  MaxCalls = 2
  MaxDepth = 0
  NoClient = NoClient
  NoBody = NoBody
SPECIFICATION Spec
INVARIANT NetworkReuseFailsClosed
CHECK_DEADLOCK FALSE
