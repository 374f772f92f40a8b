SPECIFICATION Spec
CONSTANTS
  NoActor = NoActor
  ann = ann
  ben = ben
  start = start
  reorder = reorder
  arrive = arrive
  again = again
  Op = {start, arrive, again}
  Actor = {ann, ben}
  Owner <- MCOwner
  Guards <- MCGuards
  Prereq <- MCPrereq
  Creates <- MCCreates
  Arrival <- MCArrival
  Gathering = {}
  Promotes <- MCPromotes
  Replaces <- MCReplaces
  Refusals = {"auth", "transient", "stale", "final"}
  MaxBatch = 2
  MaxFaults = 2
  MaxSwitches = 1
  MaxLate = 1
INVARIANTS TypeOK AppliedOnce NothingLost CausalOrder OwnCredential LapsedForCause
