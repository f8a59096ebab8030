SPECIFICATION Spec
CONSTANTS
  Sources <- TwoSources
  Publishers = {p1, p2}
  Durables = {"d"}
  Handlers = {h1, h2}
  MaxTries = 2
  MaxSchema = 2
  MaxMapping = 2
  MaxTime = 2
  MaxStream = 2
  MaxFaults = 2
SYMMETRY Alike
INVARIANTS
  OneEffect
CHECK_DEADLOCK FALSE
