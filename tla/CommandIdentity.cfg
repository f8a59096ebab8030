SPECIFICATION PartSpec
CONSTANTS
  o1 = o1
  o2 = o2
  w1 = w1
  w2 = w2
  Workers = {w1, w2}
  Ops = {o1}
  Requests <- OneOperation
  Streams = {"x"}
  Rejections = {"no"}
  DetailExpiry = TRUE
  MaxRetries = 0
  MaxJournal = 2
  MaxDelayed = 1
  Parts = {"identity", "late"}
SYMMETRY WorkerSymmetry
INVARIANTS
  OneDecision TypeOK ReplyIsWinner
