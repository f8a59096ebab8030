SPECIFICATION PartSpec
CONSTANTS
  a = a
  b = b
  Nil = Nil
  Clients = {a, b}
  Keys = {"k"}
  MaxOperations = 1
  Permits = 1
  MaxRecords = 3
  MaxGeneration = 2
  Readers = {"run"}
  Expected = {"event"}
  Extra = {"extra", "wrong"}
  Wrong = {"wrong"}
  Within = 4
  SettleFor = 2
  MaxTime = 5
  MaxChanges = 3
  Names = {"n", "k"}
  Observable = {}
  Contents = {1}
  Subscribers = {"s"}
  MaxFlows = 1
  MaxMessages = 1
  MaxBytes = 1
  MaxSubs = 1
  MaxGuards = 3
  MaxRevision = 6
SYMMETRY Alike
INVARIANTS
  OneTaskPerIdentity AcceptedIsATree ToldMeansShown PassedIsIsomorphic
PROPERTIES
  PassedIsSettled
CHECK_DEADLOCK FALSE
