SPECIFICATION Spec
CONSTANTS
  NoActor = NoActor
  ann = ann
  ben = ben
  start = start
  reorder = reorder
  arrive = arrive
  again = again
  Op = {start}
  Actor = {ann, ben}
  Owner <- MCOwner
  Guards <- MCGuards
  Prereq <- MCPrereq
  Creates <- MCCreates
  Arrival <- MCArrival
  Gathering = {}
  Promotes <- MCPromotes
  Replaces <- MCReplaces
  Refusals = {"final"}
  MaxBatch = 1
  MaxFaults = 0
  MaxSwitches = 1
  MaxLate = 0
PROPERTY SettledByOwner
