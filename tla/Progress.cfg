SPECIFICATION FairSpec
PROPERTIES
  Returns Settled EventuallyConfirmed NobodyWaitsForever
CHECK_DEADLOCK FALSE
