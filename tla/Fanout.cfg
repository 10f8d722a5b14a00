SPECIFICATION FairSpec
CONSTANTS
  User = {"a", "u1", "u2", "u3"}
  Author = "a"
  Worker = {w1, w2}
  BatchSize = 2
  MaxFaults = 2
CHECK_DEADLOCK FALSE
INVARIANTS FannedOutOnce BatchAllOrNothing
PROPERTIES ImplementsDelivery EveryoneGetsIt
