\* The login loop: the shipped failure limit, one crash and restart, one
\* connection in the backlog beside the one served.
SPECIFICATION FairSpec
CONSTANTS
  MaxRapidFailures = 2
  MaxLives = 2
  MaxBacklog = 1
INVARIANTS
  GreeterDoomedAtHandoff
  GreetingExcludesSession
  AttemptsBounded
PROPERTIES
  FreeSeatInsists
  LiveSessionSpared
  GrantsSeatProperly
  LoginScreenReturns
  DeadGreeterNoticed
  NoThrashing
  StopDuringSession
  SquatterEvicted
\* doord stops: a signal, a teardown, giving up.
CHECK_DEADLOCK FALSE
