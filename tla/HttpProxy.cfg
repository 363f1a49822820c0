SPECIFICATION Spec
CHECK_DEADLOCK FALSE
CONSTANTS
  ip = ip
  name = name
  special = special
  loopback = loopback
  Requests <- AllRequests
  Responses <- AllReplies
  LocalAddr <- Intercepted
  NoHost = NoHost
  NoPort = NoPort
  Special <- Specials
  Loopback = loopback
  Https = 443
  Setups <- PlainOrHar
INVARIANT TypeOK
INVARIANT LoggedIsRelayed
INVARIANT LoggedRequestIsWhole
INVARIANT WorldGetsBody
INVARIANT HarHasTheCall
PROPERTY ConnectionCloses
PROPERTY CallIsLogged
