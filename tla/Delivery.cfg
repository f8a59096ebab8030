SPECIFICATION PartSpec
CONSTANTS
  w1 = w1
  w2 = w2
  h1 = h1
  h2 = h2
  Workers = {w1, w2}
  Hosts = {h1, h2}
  HostOf <- TwoHosts
  Copies = {1, 2}
  Decisions = {"accepted", "rejected"}
  Legacy <- LegacyAccepted
  OutcomeService = TRUE
  ReplayPublication = FALSE
  MaxAttempts = 2
  MaxTries = 2
  MaxRecords = 3
  MaxDelayed = 1
INVARIANTS
  AckMeansAnswered TermMeansQuarantined DiagnosedHasEvidence
  ResponsesMatchAuthority CallerToldWinner
PROPERTIES
  BusinessNeverOverwritten
CHECK_DEADLOCK FALSE
