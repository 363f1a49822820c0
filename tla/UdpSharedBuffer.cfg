SPECIFICATION Spec
CHECK_DEADLOCK FALSE
CONSTANTS
  f1 = f1
  f2 = f2
  name = name
  Stacks <- Homegrown
  Datagrams <- Queries
  UdpHandlers <- DnsOnly
  Any = Any
  SpecialName = SpecialName
  SpecialIP = SpecialIP
  LinkCap = 2
  MaxPackets = 2
INVARIANT SentFromDestination
