SPECIFICATION FairSpec
CONSTANTS
  NoActor = NoActor
  ann = ann
  ben = ben
  start = start
  reorder = reorder
  arrive = arrive
  again = again
  Op = {start, reorder, arrive}
  Actor = {ann}
  Owner <- MCOwner
  Guards <- MCGuards
  Prereq <- MCPrereq
  Creates <- MCCreates
  Arrival <- MCArrival
  Gathering <- MCStarts
  Promotes <- MCPromotes
  Replaces <- MCReplaces
  Refusals = {"transient", "stale"}
  MaxBatch = 3
  MaxFaults = 1
  MaxSwitches = 0
  MaxLate = 0

PROPERTIES LaneOrder ConflictStays KeepsDelivery Settles
