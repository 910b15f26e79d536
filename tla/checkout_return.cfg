CONSTANTS
  NIntents = 1
  NAttempts = 2
  Requests = {p}
  Relays = {r}
  Total = 4
  Schedules = {4}
  Retentions = {3}
  MaxCancels = 1
  MaxCrashes = 1
SPECIFICATION FairSpec
CHECK_DEADLOCK FALSE
PROPERTIES OutcomesAreFinal CancelledMoneyReturns
