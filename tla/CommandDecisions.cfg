SPECIFICATION PartSpec
CONSTANTS
  o1 = o1
  o2 = o2
  w1 = w1
  w2 = w2
  Workers = {w1, w2}
  Ops = {o1, o2}
  Requests <- TwoOperations
  Streams = {"x", "y"}
  Rejections = {}
  DetailExpiry = TRUE
  MaxRetries = 1
  MaxJournal = 2
  MaxDelayed = 1
  Parts = {"expiry", "isolation"}
SYMMETRY WorkerSymmetry
INVARIANTS
  ReadsWereCurrent DecisionHasDetails
PROPERTIES
  ImplementsDecisionLog
