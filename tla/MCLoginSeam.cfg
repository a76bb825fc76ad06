\* One connection: two users, two frames under way, two prompts to a
\* conversation (a password and a second factor).
SPECIFICATION FairSpec
CONSTANTS
  Users = {ana, bob}
  Nobody = nobody
  MaxInFlight = 2
  MaxPrompts = 2
INVARIANTS
  IdentityBound
  
  InStep
  NothingLeftOpen
PROPERTIES
  ConversationSettles
  WorkerReaped
  HonoursGate
\* A connection ends.
CHECK_DEADLOCK FALSE
