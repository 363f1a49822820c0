SPECIFICATION Spec
CHECK_DEADLOCK FALSE
CONSTANTS
  Threads = {t1, t2}
  Calls = {c1, c2}
  BindFiles = 2
  Options <- AllOptions
INVARIANT TypeOK
INVARIANT Served
INVARIANT HostUntouched
INVARIANT DialsFromHost
INVARIANT NothingLeft
INVARIANT HarHasReceived
INVARIANT ExitTellsTheOutcome
PROPERTY EndsAfterSubprocess
