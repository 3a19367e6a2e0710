SPECIFICATION FairSpec
CONSTANTS
  ann = ann  bob = bob  eve = eve  a1 = a1  a2 = a2  b1 = b1  e1 = e1
  Players = {ann, bob}
  Nobody = Nobody
  Comp = Comp
  Conns = {a1, b1}
  Owner <- JustTwo
  NoConn = NoConn
  Requests = {}
  Senders = {}
  NumPlayers = 2
  SinglePlayer = FALSE
  StartsRunning = TRUE
PROPERTIES RemovalAfterTimeout
CHECK_DEADLOCK FALSE
