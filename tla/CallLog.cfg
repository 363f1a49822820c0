SPECIFICATION Spec
CHECK_DEADLOCK FALSE
CONSTANTS
  h1 = h1
  h2 = h2
  h3 = h3
  w1 = w1
  w2 = w2
  Handlers <- Calls3
  Console = Console
  Watchers <- BothWatchers
  Leavers <- BothWatchers
  Cap = 2
  MayFinish = TRUE
  Free = Free
INVARIANT TypeOK
INVARIANT NoneMissed
PROPERTY ImplementsFeed
PROPERTY PrintedWhileListening
