SPECIFICATION FairSpec
CONSTANTS
  Clients = {c1, c2}
  Server = Server
  None = None
  Sessions <- AllSessions
  Capacity = 1
INVARIANTS DoneMeansReceived NeverBothWaiting
PROPERTY ServerIsFreeAgain
CHECK_DEADLOCK FALSE
