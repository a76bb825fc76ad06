\* Is an attempt in flight whenever the greeter says so?
SPECIFICATION Spec
CONSTANTS
  MaxPending = 1
  MaxNotices = 0
  Capacity = 1
INVARIANTS
  AttemptInFlight
CHECK_DEADLOCK FALSE
