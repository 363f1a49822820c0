SPECIFICATION Spec
CHECK_DEADLOCK FALSE
CONSTANTS
  f1 = f1
  f2 = f2
  name = name
  Stacks <- BothStacks
  Datagrams <- Mixed
  UdpHandlers <- DnsOnly
  Any = Any
  SpecialName = SpecialName
  SpecialIP = SpecialIP
  LinkCap = 1
  MaxPackets = 2
INVARIANT TypeOK
INVARIANT RepliesMatch
PROPERTY QueriesAnswered
