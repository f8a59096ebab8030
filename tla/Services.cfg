SPECIFICATION PartSpec
CONSTANTS
  a = a
  b = b
  Slots = {a, b}
  Commands <- OneOperation
  Callers <- Tenants
  Grants <- Accesses
  Ingress = {"http"}
  Decisions = {"accepted"}
  Trusted = FALSE
  Proxied = FALSE
  Audited = FALSE
  Maximum = 1
  MaxAttempts = 2
  MaxChanges = 2
  Clients = {"c"}
  Servers <- TwoServers
  Queries <- TwoQueries
  SubjectOf <- OneSubject
  GroupOf <- OneGroup
  Bound <- Rolling
  Strays <- SomeStrays
  Concurrency = 1
  MaxReply = 3
  MaxAnswer = 3
  FallbackSize = 2
  BigSize = 4
  MaxAsked = 2
  MaxFaults = 1
  Documents <- Edited
  Streams = {"a", "b"}
  Appliers = {a, b}
  MaxRuns = 2
  MaxOutages = 1
  MaxForeign = 1
  Invokers = {"c"}
  Admins = {a, b}
  Ops = {"start", "attach", "reset"}
  Fixtures = {"f1"}
  Events = {}
  MaxStarts = 2
  MaxOps = 2
SYMMETRY Alike
INVARIANTS
  OutcomesStayInScope AnswersAreOurs ReportIsTrue InvokedOnWhole
CHECK_DEADLOCK FALSE
