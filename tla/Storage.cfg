SPECIFICATION PartSpec
CONSTANTS
  Writers = {"w1", "w2"}
  Sessions = {}
  Aggregates = {"a"}
  Ops = {"o1"}
  Contents = {"c1", "c2"}
  MaxLog = 3
  MaxEpoch = 1
  MaxBatches = 2
  Configs <- StoreConfigs
  Found <- Older
  Actors = {"w1", "w2"}
  Operations = {"o"}
  MaxInc = 2
  MaxTasks = 5
  MaxFaults = 1
  Streams = {"domain", "integration"}
  MaxGenerations = 2
  MaxMessages = 1
  MaxOutages = 2
  Scope = "test"
  Clients = {"c"}
  Records <- TwoKinds
  Filters = {"all", "command"}
  Limit = 2
  Budget = 2
  Permits = 1
  MaxCreations = 2
  MaxRecords = 3
  MaxFailures = 0
  Tools = {"t1", "t2"}
  Skills <- SkillNames
  Files = {"guide", "note", "added"}
  Kits <- Releases
  Initial <- Nothing
  MaxEdits = 1
INVARIANTS
  RefusedIsAbsent AcceptedIsTrue NamespacesStayApart NothingFromBefore
  TraversalIsExact EditsSurvive
CHECK_DEADLOCK FALSE
