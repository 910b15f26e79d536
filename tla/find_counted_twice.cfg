CONSTANTS
  NIntents = 1
  NAttempts = 1
  Requests = {p}
  Relays = {r, t}
  Total = 4
  Schedules = {4}
  Retentions = {3}
  MaxCancels = 1
  MaxCrashes = 0
SPECIFICATION Spec
CHECK_DEADLOCK FALSE
INVARIANTS RefundCountedOnce
SYMMETRY WorkerSymmetry
