SPECIFICATION Spec
CHECK_DEADLOCK FALSE
CONSTANTS
  c1 = c1
  c2 = c2
  Conns <- TwoConns
  Served <- OneConn
  Segments <- Teardown
  Modulus = 8
  MaxLen = 0
  LinkCap = 1
  QueueCap = 1
  MaxSegs = 3
  MaxCalls = 4
INVARIANT HandlerOnce
INVARIANT FinBudget
PROPERTY ReaderReturns
