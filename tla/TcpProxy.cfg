SPECIFICATION Spec
CHECK_DEADLOCK FALSE
CONSTANTS
  web = web
  raw = raw
  Conns <- Both
  Port <- Ports
  HttpPorts <- Intercepted
  MaxInFlight = 1
  MaxSyns = 3
  MaxChunks = 2
INVARIANT TypeOK
INVARIANT HandlerOnce
INVARIANT InOrder
PROPERTY SlotsAreFreed
PROPERTY EverythingArrives
