SPECIFICATION Spec
CONSTANTS
  Clients = {c1}
  Keys = {"k"}
  MaxOperations = 1
  Permits = 1
  MaxRecords = 1
  MaxGeneration = 2
INVARIANTS AcknowledgedIsNeverFailed
CHECK_DEADLOCK FALSE
