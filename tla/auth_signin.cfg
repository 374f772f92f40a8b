SPECIFICATION Spec
CONSTANTS
  Parts = {"auth"}
  Accounts = {ann, ben}
  NoOne = NoOne
  Samples = 2
  MaxBatch = 2
  MaxAccesses = 3
  MaxSlips = 1
  Tokens = {ownToken, otherToken}
  Foreign = {otherToken}
  NoToken = NoToken
  MaxToggles = 2
  MaxSwitches = 3
  MaxTokenFaults = 2
  MaxIssued = 3
  MaxAuthFaults = 2
  MaxWorks = 1
  MaxOps = 2
  MaxEvents = 2
  Groups = {g1}
  NoGroup = NoGroup
  Passes = 2
  MaxNotes = 2
  MaxTroubles = 1
INVARIANT SignInKept
CHECK_DEADLOCK FALSE
