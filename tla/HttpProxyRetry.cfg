SPECIFICATION Spec
CHECK_DEADLOCK FALSE
CONSTANTS
  ip = ip
  name = name
  special = special
  loopback = loopback
  Requests <- PlainRequests
  Responses <- PlainReplies
  LocalAddr <- Intercepted
  NoHost = NoHost
  NoPort = NoPort
  Special <- Specials
  Loopback = loopback
  Https = 443
  Setups <- HarAndReuse
INVARIANT WorldGetsBody
