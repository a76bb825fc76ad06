\* Two commands queued by the user, one one-way message under way, and a
\* channel to the UI that one message fills: every blocking of the channel
\* and every overtaking of a queued command happens.
SPECIFICATION FairSpec
CONSTANTS
  MaxPending = 2
  MaxNotices = 1
  Capacity = 1
INVARIANTS
  SeamInStep
  StartsBound
PROPERTIES
  RequestAnswered
  AttemptAnswered
\* The greeter exits.
CHECK_DEADLOCK FALSE
