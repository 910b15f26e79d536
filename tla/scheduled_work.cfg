CONSTANTS
  NRows = 4
  NTables = 2
  TableOf <- MCTableOf
  AggregateOf <- MCAggregateOf
  HandlersOf <- MCHandlersOf
  Relays = {p, q}
  Poison = {2}
  BatchSize = 2
  MaxFaults = 1
  MaxInterrupts = 1
  MaxAttempts = 1
  Windows = {1, 2, 3}
  Stubborn = {2}
  NoShowBatch = 2
  Evaluators = {x1, x2}
  MaxWindowFaults = 1
  Requesters = {x1, x2}
  Sweeps = {y1, y2}
  MaxRetries = 2
  MaxDeaths = 2
  ExportIds = {e}
  ErasureIds = {d}
  PrivacySweeps = {x1, x2}
  Images = {}
  Pushers = {x1, x2}
  MaxRevision = 2
  MaxGeneration = 0
  MaxEngineFaults = 1
SPECIFICATION SweepsSpec
CHECK_DEADLOCK FALSE
PROPERTIES DeliveryIsExact HealthyRowsPublished NoShowsSettle NoticesSettle RequestsSettle ChangesSearchable
