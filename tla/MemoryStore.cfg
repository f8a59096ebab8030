SPECIFICATION PartSpec
CONSTANTS
  Clients = {"w1", "w2"}
  Streams = {"s1", "s2"}
  NoScope = "none"
  Proposals <- AllProposals
  Appends <- SharedAppend
  Archived <- ArchivedKeys
  MaxEvents = 4
  MaxOutcomes = 2
INVARIANTS
  NoDetailsAfterExpiry
PROPERTIES
  StoreImplementsDecisionLog
CHECK_DEADLOCK FALSE
