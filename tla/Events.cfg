SPECIFICATION PartSpec
CONSTANTS
  w1 = w1
  w2 = w2
  Workers = {w1, w2}
  Prior <- NoPrior
  Migrated = 0
  MaxBatch = 3
  MaxJournal = 5
  Keys = {"k"}
  Unhandled = "none"
  Orders = {"broker", "consecutive", "latest"}
  Retries = 2
  MaxAttempts = 2
  MaxHist = 3
  MaxBus = 3
  MaxVersion = 2
  MaxLost = 1
  MaxRemoved = 1
  Builders = {"b1", "b2"}
  Names = {"orders", "Bad Name"}
  BadNames = {"Bad Name"}
  ModelOf <- Orderly
  DomainEvents = {"placed", "elsewhere", "uncoded"}
  Foreign = {"elsewhere"}
  Uncoded = {"uncoded"}
  EventTypes = {"billed", "paid", "zero"}
  Unversioned = {"zero"}
  EventName <- TheEventName
  Declared <- TheDeclared
  Contexts = {"orders", "billing"}
  Home = "orders"
  Policies = {"broker", "latest", "unnamed"}
  BadPolicies = {"unnamed"}
  None = "none"
  MaxCalls = 2
SYMMETRY Alike
INVARIANTS
  ConfirmedWasHandled EffectsInOrder HistoryAccepted DomainIsComplete
  SettledHasEffect NameHeldOnce
CHECK_DEADLOCK FALSE
