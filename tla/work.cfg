SPECIFICATION Spec
CONSTANTS
  Parts = {"journey", "scheduler", "decision", "log"}
  Owners = {ann, ben}
  NoOne = NoOne
  Sessions = {s1}
  NoSession = NoSession
  MaxRequests = 3
  MaxFaults = 2
  MaxSequence = 1
  Rows = 2
  MaxFailures = 2
  MaxPauses = 1
  MaxPolls = 1
  Requests = {"first", "second"}
  Members = {ann, ben}
  Leaders = {ann}
  Options = {"meet", "place", "bad"}
  Policy <- MCPolicy
  Default <- MCDefault
  MaxClaim = 2
  MaxCalls = 2
  Records = 4
  Errors = {2}
  Threshold = 2
  MaxUpload = 1
  MaxLogFaults = 1
  MaxGrants = 2
INVARIANTS TaskIsOwned TaskMatches
  OffWhenUnwanted SleepsDrained DecidedOnce SentInConsent
PROPERTIES ProgressKept ColdTaskStops DrainsCounted DueIsClosed RowsLeave
CHECK_DEADLOCK FALSE
