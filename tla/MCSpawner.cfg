\* Three requests: one cut short, and the two it disturbs.
SPECIFICATION FairSpec
CONSTANT MaxRequests = 3
INVARIANTS
  AnswersPaired
PROPERTIES
  RequestReturns
  NextRequestReaps
\* Nothing is left to do after the last request.
CHECK_DEADLOCK FALSE
