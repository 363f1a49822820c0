SPECIFICATION Spec
CHECK_DEADLOCK FALSE
CONSTANTS
  first = first
  second = second
  Nobody = Nobody
  Trips <- BothTrips
  Requests <- OfAnyKind
  MaxIdle <- IdleForFirst
INVARIANT OptionalPhases
