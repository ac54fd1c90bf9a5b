CONSTANTS
  p1 = p1
  Clients <- MCClients
  Items <- MCItems
  MemItems <- MCItems
  Content <- MCContent
  MaxCalls = 4
  MaxDepth = 0
  NoClient = NoClient
  NoBody = NoBody
SPECIFICATION ParitySpec
INVARIANTS
  SameTables
  SameNetworks
PROPERTY SameAnswers
CHECK_DEADLOCK FALSE
