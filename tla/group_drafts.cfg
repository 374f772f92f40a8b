SPECIFICATION Spec
CONSTANTS
  Accounts = {ann, ben}
  NoOne = NoOne
  MaxOps = 2
  MaxEvents = 3
INVARIANT NoDraftPainted
CHECK_DEADLOCK FALSE
