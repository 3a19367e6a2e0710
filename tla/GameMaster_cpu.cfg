SPECIFICATION FairSpec
CONSTANTS
  ann = ann  bob = bob  eve = eve  a1 = a1  a2 = a2  b1 = b1  e1 = e1
  Players = {ann}
  Nobody = Nobody
  Comp = Comp
  Conns = {a1}
  Owner <- AnnAlone
  NoConn = NoConn
  Requests = {r1}
  Senders = {ann}
  NumPlayers = 2
  SinglePlayer = TRUE
  StartsRunning = TRUE
INVARIANTS ComputersTurnIsServed ListenersUpToDate
PROPERTIES ComputerMoves RequestsAreAnswered RemovalHappens
CHECK_DEADLOCK FALSE
