\* Liveness: two slots for the locker, so a new attempt can queue behind the
\* old one, and a peer that sends anything, reads or does not, and goes quiet.
\* A buffer of one frame makes every write of the service wait for its peer;
\* one user, for the secret makes no difference to who waits for whom.
SPECIFICATION FairSpec
CONSTANTS
  ana = ana
  bob = bob
  mine1 = mine1
  mine2 = mine2
  other = other
  Conns = {mine1, mine2, other}
  Mine = {mine1, mine2}
  Users = {ana}
  Me = ana
  Unknown = unknown
  Empty = empty
  Nowhere = nowhere
  Owner <- MCOwner
  Capacity = 1
  MaxInFlight = 1
  MaxMessages = 1
PROPERTIES
  StalledPeerDropped
  CommandAnswered
CHECK_DEADLOCK FALSE
