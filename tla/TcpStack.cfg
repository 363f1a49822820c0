SPECIFICATION Spec
CHECK_DEADLOCK FALSE
CONSTANTS
  c1 = c1
  c2 = c2
  Conns <- OneConn
  Served <- OneConn
  Segments <- Exchange
  Modulus = 8
  MaxLen = 1
  LinkCap = 1
  QueueCap = 1
  MaxSegs = 3
  MaxCalls = 2
INVARIANT TypeOK
INVARIANT SeqTiled
INVARIANT AckIsGenuine
INVARIANT InOrderBeforeFin
PROPERTY DeliveryWindow
