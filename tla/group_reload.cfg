SPECIFICATION Spec
CONSTANTS
  Accounts = {ann}
  NoOne = NoOne
  MaxOps = 0
  MaxEvents = 1
INVARIANT HeardIsShown
CHECK_DEADLOCK FALSE
