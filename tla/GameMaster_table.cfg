SPECIFICATION Spec
CONSTANTS
  ann = ann  bob = bob  eve = eve  a1 = a1  a2 = a2  b1 = b1  e1 = e1
  Players = {ann, bob, eve}
  Nobody = Nobody
  Comp = Comp
  Conns = {a1, a2, b1, e1}
  Owner <- TabsAndGuest
  NoConn = NoConn
  Requests = {}
  Senders = {}
  NumPlayers = 2
  SinglePlayer = FALSE
  StartsRunning = TRUE
INVARIANTS TypeOK SeatsAreDense ListenersHaveHandlers AbandonedPlayerIsScheduled RemovalsAreOfPlayers PlayersSeeTheirRole
PROPERTIES SeatsAreStable SessionSpec
CHECK_DEADLOCK FALSE
