SPECIFICATION FairSpec
CONSTANTS
  MaxRapidFailures = 2
  MaxLives = 1
  MaxBacklog = 1
PROPERTY SessionEndNoticed
CHECK_DEADLOCK FALSE
