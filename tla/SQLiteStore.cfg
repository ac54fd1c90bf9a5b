CONSTANTS
  p1 = p1
  p2 = p2
  Clients <- MCClients
  Items <- MCItems
  MaxCalls = 3
  MaxDepth = 2
  NoClient = NoClient
  NoBody = NoBody
SPECIFICATION Spec
INVARIANTS
  TypeOK
  AcceptedIsStored
  TransactionReadsOwnAnswers
PROPERTIES
  ImplementsLedger
  EveryCallReturns
CHECK_DEADLOCK FALSE
