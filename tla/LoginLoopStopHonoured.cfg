SPECIFICATION FairSpec
CONSTANTS
  MaxRapidFailures = 2
  MaxLives = 1
  MaxBacklog = 1
PROPERTY StopHonoured
CHECK_DEADLOCK FALSE
