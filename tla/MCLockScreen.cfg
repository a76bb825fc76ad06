\* Safety: one slot for the locker, so a new attempt waits for the old
\* connection to be closed, and one for an arbitrary peer of another user.
SPECIFICATION Spec
CONSTANTS
  ana = ana
  bob = bob
  mine1 = mine1
  mine2 = mine2
  other = other
  Conns = {mine1, other}
  Mine = {mine1}
  Users = {ana, bob}
  Me = ana
  Unknown = unknown
  Empty = empty
  Nowhere = nowhere
  Owner <- MCOwner
  Capacity = 2
  MaxInFlight = 1
  MaxMessages = 2
INVARIANTS
  VerifierInStep
  LockInStep
PROPERTIES
  
  OpensProperly
\* An unlocked session need not be locked again.
CHECK_DEADLOCK FALSE
