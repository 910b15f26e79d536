CONSTANTS
  NIntents = 1
  NAttempts = 1
  Requests = {p}
  Relays = {r}
  Total = 4
  Schedules = {4}
  Retentions = {3}
  MaxCancels = 2
  MaxCrashes = 0
SPECIFICATION Spec
CHECK_DEADLOCK FALSE
INVARIANTS CancellationIsAnswered
SYMMETRY WorkerSymmetry
