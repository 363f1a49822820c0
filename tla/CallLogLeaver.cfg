SPECIFICATION Spec
CHECK_DEADLOCK FALSE
CONSTANTS
  h1 = h1
  h2 = h2
  h3 = h3
  w1 = w1
  w2 = w2
  Handlers <- Calls3
  Console = Console
  Watchers <- OneWatcher
  Leavers <- OneWatcher
  Cap = 1
  MayFinish = FALSE
  Free = Free
PROPERTY EveryCallPrinted
