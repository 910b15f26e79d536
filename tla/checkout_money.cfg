CONSTANTS
  NIntents = 2
  NAttempts = 2
  Requests = {p, q}
  Relays = {r}
  Total = 4
  Schedules = {0, 4}
  Retentions = {3}
  MaxCancels = 1
  MaxCrashes = 0
SPECIFICATION Spec
CHECK_DEADLOCK FALSE
INVARIANTS TypeOK NeverOverRefunded CollectedIsNotCancelled ConfirmedIsCollected ChargesAreAnswered
SYMMETRY WorkerSymmetry
