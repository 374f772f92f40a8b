SPECIFICATION Spec
CONSTANTS
  NoActor = NoActor
  ann = ann
  ben = ben
  start = start
  reorder = reorder
  arrive = arrive
  again = again
  Op = {start, arrive}
  Actor = {ann}
  Owner <- MCOwner
  Guards <- MCGuards
  Prereq <- MCPrereq
  Creates <- MCCreates
  Arrival <- MCArrival
  Gathering <- MCStarts
  Promotes <- MCPromotes
  Replaces <- MCReplaces
  Refusals = {"transient"}
  MaxBatch = 2
  MaxFaults = 1
  MaxSwitches = 0
  MaxLate = 0
PROPERTY ConflictIsFinal
