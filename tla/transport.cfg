SPECIFICATION Spec
CONSTANTS
  Parts = {"location", "trip", "group"}
  Samples = 2
  Actor = {alice}
  NoActor = none
  MaxBatch = 1
  MaxChanges = 3
  MaxFaults = 1
  Groups = {g1, g2}
  NoGroup = NoGroup
  Passes = 1
  MaxNotes = 1
  MaxTroubles = 2
  Readers = {ann, ben}
  MaxOps = 1
  MaxEvents = 1
PROPERTIES RowsSettle PaidIsSettled Converges
CHECK_DEADLOCK FALSE
