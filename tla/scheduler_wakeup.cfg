SPECIFICATION FairSpec
CONSTANTS
  Rows = 1
  MaxFailures = 0
  MaxPauses = 0
  MaxPolls = 1
PROPERTY Drains
CHECK_DEADLOCK FALSE
