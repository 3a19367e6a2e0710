-------------------------- MODULE GameMasterProofs --------------------------
(***************************************************************************)
(* Theorems about GameMaster, for any players, connections, requests and   *)
(* number of seats.                                                        *)
(***************************************************************************)
EXTENDS GameMaster, FiniteSetTheorems, TLAPS

(* Abbreviations that are always expanded.                                  *)
USE DEF Ids, Idle, Ongoing, Done, Ended, SeatsWith, CancelRemoval, ScheduleRemoval,
        DropListener, MustAskCpu, CpuSends, SingleRole, EventRole,
        NextDefer

LEMMA RegisteredFinite ==
    /\ IsFiniteSet(Ids) /\ IsFiniteSet(Registered)
    /\ Cardinality(Registered) \in Nat
<1>1. IsFiniteSet(Ids)
  BY PlayersAssumption, FS_AddElement DEF Ids
<1>2. IsFiniteSet(Registered)
  BY <1>1, FS_Subset DEF Registered
<1>3. QED
  BY <1>1, <1>2, FS_CardinalityType

LEMMA NewPlayerNumType == NewPlayerNum \in 0..NumPlayers
BY RegisteredFinite, NumPlayersAssumption DEF NewPlayerNum

LEMMA ListenersType == TypeOK => Listeners \subseteq Conns
BY DEF TypeOK, Listeners

LEMMA BroadcastType ==
    ASSUME NEW m \in {"ping", "board", "over"}, NEW targets \in SUBSET Conns,
           Broadcast(m, targets)
    PROVE  /\ master' \in {"select", "send", "closeListeners"}
           /\ rest' \subseteq Conns /\ msg' \in {"none", "ping", "board", "over"}
           /\ eRole' \in 0..NumPlayers
BY NumPlayersAssumption DEF Broadcast, AfterBroadcast

\* Every variable keeps its type.
THEOREM TypeCorrect == Spec => []TypeOK
<1>1. Init => TypeOK
  <2> SUFFICES ASSUME Init PROVE TypeOK
    OBVIOUS
  <2>1. board \in [state : {"Initial", "Running", "Finished"}, turn : 1..NumPlayers]
    BY NumPlayersAssumption DEF Init, InitialBoard
  <2>2. request \in [Requests -> [kind : {"idle", "move", "reset"},
                                  by : Players \cup {Nobody}]]
    BY DEF Init
  <2>3. cpu \in {"off", "wait", "think", "send", "panic"} /\ cpuStale \in BOOLEAN
    BY DEF Init
  <2>4. QED
    BY <2>1, <2>2, <2>3, NumPlayersAssumption DEF Init, TypeOK
<1>2. TypeOK /\ [Next]_vars => TypeOK'
  <2> SUFFICES ASSUME TypeOK, [Next]_vars PROVE TypeOK'
    OBVIOUS
  <2> USE NumPlayersAssumption, PlayersAssumption, ConnsAssumption
  <2>0. Listeners \subseteq Conns
    BY ListenersType
  <2>1. ASSUME NEW c \in Conns, OpenSse(c) PROVE TypeOK'
    BY <2>1 DEF TypeOK, OpenSse, masterVars, tableVars, clientVars, cpuVars
  <2>2. ASSUME NEW c \in Conns, Disconnect(c) PROVE TypeOK'
    BY <2>2 DEF TypeOK, Disconnect, masterVars, tableVars, clientVars, cpuVars
  <2>3. ASSUME NEW c \in Conns, LastEvent(c) PROVE TypeOK'
    BY <2>3 DEF TypeOK, LastEvent, ReturnSse, masterVars, tableVars, cpuVars
  <2>4. ASSUME NEW c \in Conns, SseGameOver(c) PROVE TypeOK'
    BY <2>4 DEF TypeOK, SseGameOver, ReturnSse, masterVars, tableVars, cpuVars
  <2>5. ASSUME NEW c \in Conns, Register(c) PROVE TypeOK'
    <3>1. /\ master' \in {"select", "send", "closeListeners"}
          /\ rest' \subseteq Conns /\ msg' \in {"none", "ping", "board", "over"}
          /\ eRole' \in 0..NumPlayers
      BY <2>5, <2>0, BroadcastType DEF Register
    <3>2. players' \in [Ids -> 0..NumPlayers]
      BY <2>5, NewPlayerNumType, SinglePlayerAssumption DEF TypeOK, Register
    <3>3. /\ playerRmCancel' \in [Players -> {"none", "armed", "due", "sent"}]
          /\ strayRemovals' \subseteq Players
      BY <2>5 DEF TypeOK, Register
    <3>4. QED
      BY <2>5, <3>1, <3>2, <3>3 DEF TypeOK, Register, clientVars, cpuVars
  <2>6. ASSUME NEW c \in Conns, Unregister(c) PROVE TypeOK'
    BY <2>6 DEF TypeOK, Unregister, ReturnSse, masterVars, cpuVars
  <2>7. ASSUME NEW c \in Conns, SendNext(c) PROVE TypeOK'
    BY <2>7 DEF TypeOK, SendNext, ShowRole, AfterBroadcast, tableVars, cpuVars
  <2>8. ASSUME NEW r \in Requests, NEW k \in {"move", "reset"}, NEW p \in Senders,
               Post(r, k, p)
        PROVE  TypeOK'
    BY <2>8, SendersAssumption DEF TypeOK, Post, masterVars, tableVars, clientVars, cpuVars
  <2>9. ASSUME NEW r \in Requests, PostGameOver(r) PROVE TypeOK'
    BY <2>9 DEF TypeOK, PostGameOver, masterVars, tableVars, clientVars, cpuVars
  <2>10. ASSUME NEW id, MakeMove(id) PROVE
            /\ master' \in {"select", "send", "askCpu", "closeListeners"}
            /\ rest' \subseteq Conns /\ msg' \in {"none", "ping", "board", "over"}
            /\ eRole' \in 0..NumPlayers /\ single' = single /\ uiRole' = uiRole
            /\ fresh' = {}
            /\ board' \in [state : {"Initial", "Running", "Finished"}, turn : 1..NumPlayers]
    BY <2>10, <2>0, BroadcastType DEF TypeOK, MakeMove, BoardChanged
  <2>11. ASSUME NEW r \in Requests, Move(r) PROVE TypeOK'
    BY <2>11, <2>10 DEF TypeOK, Move, RefuseMove, masterVars, tableVars, clientVars, cpuVars
  <2>12. ASSUME NEW r \in Requests, Reset(r) PROVE TypeOK'
    <3>1. CASE request[r].by \in Registered
      BY <2>12, <3>1, <2>0, BroadcastType
      DEF TypeOK, Reset, InitialBoard, BoardChanged, tableVars
    <3>2. CASE request[r].by \notin Registered
      BY <2>12, <3>2 DEF TypeOK, Reset, tableVars
    <3>3. QED
      BY <3>1, <3>2
  <2>13. ASSUME NEW p \in Players, RemovalDue(p) PROVE TypeOK'
    BY <2>13 DEF TypeOK, RemovalDue, masterVars, clientVars, cpuVars
  <2>14. ASSUME NEW p \in Players, Remove(p) PROVE TypeOK'
    BY <2>14, <2>0, BroadcastType DEF TypeOK, Remove, clientVars, cpuVars
  <2>15. CASE Tick
    BY <2>15, <2>0, BroadcastType DEF TypeOK, Tick, tableVars, clientVars, cpuVars
  <2>16. CASE SendSingle
    BY <2>16 DEF TypeOK, SendSingle, ShowRole, tableVars, cpuVars
  <2>17. CASE AskCpu
    BY <2>17, <2>0, BroadcastType DEF TypeOK, AskCpu, tableVars, clientVars
  <2>18. CASE CpuMove
    BY <2>18, <2>10 DEF TypeOK, CpuMove, RefuseMove, masterVars, tableVars, clientVars
  <2>19. CASE Return
    BY <2>19 DEF TypeOK, Return, tableVars, clientVars, cpuVars
  <2>20. CASE CpuSuggest \/ CpuPanic \/ CpuExit
    BY <2>20 DEF TypeOK, CpuSuggest, CpuPanic, CpuExit, masterVars, tableVars, clientVars
  <2>21. CASE UNCHANGED vars
    BY <2>21 DEF TypeOK, vars, masterVars, tableVars, clientVars, cpuVars
  <2>22. QED
    BY <2>1, <2>2, <2>3, <2>4, <2>5, <2>6, <2>7, <2>8, <2>9, <2>11, <2>12, <2>13, <2>14,
       <2>15, <2>16, <2>17, <2>18, <2>19, <2>20, <2>21 DEF Next
<1>3. QED
  BY <1>1, <1>2, PTL DEF Spec

-----------------------------------------------------------------------------
(* The seats.                                                               *)

\* Only a registration changes who has which number.
LEMMA PlayersChange ==
    ASSUME TypeOK, [Next]_vars
    PROVE  \/ UNCHANGED players
           \/ \E c \in Conns : Register(c)
BY DEF Next, vars, masterVars, tableVars, clientVars, cpuVars, OpenSse, Disconnect, LastEvent,
       SseGameOver, Unregister, SendNext, Post, PostGameOver, Move, Reset, RemovalDue, Remove,
       Tick, SendSingle, AskCpu, CpuMove, Return, CpuSuggest, CpuPanic, CpuExit

\* What a registration does to the seats: nothing, or it adds the next number,
\* and the computer's 2 after the first player of a single-player game.
LEMMA RegisterSeats ==
    ASSUME TypeOK, SeatsAreDense, NEW c \in Conns, Register(c)
    PROVE  \/ players' = players
           \/ /\ ~SinglePlayer /\ players[Owner[c]] = 0
              /\ Cardinality(Registered) < NumPlayers
              /\ players' = [players EXCEPT ![Owner[c]] = Cardinality(Registered) + 1]
           \/ /\ SinglePlayer /\ Registered = {}
              /\ players' = [q \in Ids |-> IF q = Owner[c] THEN 1 ELSE IF q = Comp THEN 2 ELSE 0]
<1> DEFINE p == Owner[c]
           n == Cardinality(Registered)
<1>1. p \in Players /\ p # Comp /\ n \in Nat /\ NumPlayers \in Nat \ {0}
  BY ConnsAssumption, PlayersAssumption, NumPlayersAssumption, RegisteredFinite
<1>2. players \in [Ids -> 0..NumPlayers]
  BY DEF TypeOK
<1>3. CASE players[p] > 0
  <2>1. players' = [q \in Ids |-> players[q]]
    BY <1>3 DEF Register
  <2>2. players' = players
    BY <2>1, <1>2
  <2>3. QED
    BY <2>2
<1>4. CASE players[p] = 0 /\ ~(n < NumPlayers)
  <2>1. NewPlayerNum = 0
    BY <1>4 DEF NewPlayerNum
  <2>2. players' = [q \in Ids |-> IF q = p THEN 0 ELSE players[q]]
    BY <1>4, <2>1 DEF Register
  <2>3. players' = players
    BY <2>2, <1>2, <1>4
  <2>4. QED
    BY <2>3
<1>5. CASE players[p] = 0 /\ n < NumPlayers
  <2>1. NewPlayerNum = n + 1 /\ NewPlayerNum > 0
    BY <1>1, <1>5 DEF NewPlayerNum
  <2>2. CASE ~SinglePlayer
    <3>1. players' = [q \in Ids |-> IF q = p THEN n + 1 ELSE players[q]]
      BY <1>5, <2>1, <2>2 DEF Register
    <3>2. players' = [players EXCEPT ![p] = n + 1]
      BY <3>1, <1>2
    <3>3. QED
      BY <2>2, <3>2, <1>5
  <2>3. CASE SinglePlayer
    <3>1. NumPlayers = 2
      BY <2>3, SinglePlayerAssumption
    <3>2. Registered = {}
      <4> SUFFICES ASSUME Registered # {} PROVE FALSE
        OBVIOUS
      <4>1. players[Comp] = 2 /\ Comp \in Registered
        BY <2>3 DEF SeatsAreDense, Registered
      <4>2. 2 \in 1..n
        BY <4>1 DEF SeatsAreDense
      <4>3. QED
        BY <4>2, <3>1, <1>5, <1>1
    <3>3. n = 0
      BY <3>2, FS_EmptySet
    <3>4. \A q \in Ids : players[q] = 0
      BY <3>2, <1>2, <1>1 DEF Registered
    <3>5. players' = [q \in Ids |-> IF q = p THEN 1 ELSE IF q = Comp THEN 2 ELSE players[q]]
      BY <1>5, <2>1, <3>3, <2>3 DEF Register
    <3>6. players' = [q \in Ids |-> IF q = p THEN 1 ELSE IF q = Comp THEN 2 ELSE 0]
      BY <3>4, <3>5
    <3>7. QED
      BY <2>3, <3>2, <3>6
  <2>4. QED
    BY <2>2, <2>3
<1>6. QED
  BY <1>1, <1>2, <1>3, <1>4, <1>5

LEMMA SeatsInitially == Init => SeatsAreDense
<1> SUFFICES ASSUME Init PROVE SeatsAreDense
  OBVIOUS
<1>1. Registered = {}
  BY DEF Init, Registered
<1>2. Cardinality(Registered) = 0
  BY <1>1, FS_EmptySet
<1>3. players[Comp] = 0
  BY DEF Init
<1>4. QED
  BY <1>1, <1>2, <1>3 DEF SeatsAreDense

LEMMA SeatsStep == TypeOK /\ SeatsAreDense /\ [Next]_vars => SeatsAreDense'
<1> SUFFICES ASSUME TypeOK, SeatsAreDense, [Next]_vars PROVE SeatsAreDense'
  OBVIOUS
<1>1. CASE UNCHANGED players
  BY <1>1 DEF SeatsAreDense, Registered
<1>2. ASSUME NEW c \in Conns, Register(c) PROVE SeatsAreDense'
  <2> DEFINE p == Owner[c]
             n == Cardinality(Registered)
  <2>1. p \in Players /\ p \in Ids /\ Comp \in Ids /\ p # Comp /\ n \in Nat
    BY ConnsAssumption, PlayersAssumption, RegisteredFinite
  <2>2. players \in [Ids -> 0..NumPlayers] /\ NumPlayers \in Nat \ {0}
    BY NumPlayersAssumption DEF TypeOK
  <2>3. CASE players' = players
    BY <2>3 DEF SeatsAreDense, Registered
  <2>4. CASE /\ ~SinglePlayer /\ players[p] = 0
             /\ players' = [players EXCEPT ![p] = n + 1]
    <3>1. Registered' = Registered \cup {p} /\ p \notin Registered
      <4>1. players'[p] = n + 1 /\ \A q \in Ids : q # p => players'[q] = players[q]
        BY <2>4, <2>1, <2>2
      <4>2. \A q \in Ids : players'[q] > 0 <=> players[q] > 0 \/ q = p
        BY <4>1, <2>1
      <4>3. p \notin Registered
        BY <2>4 DEF Registered
      <4>4. \A q : q \in Registered' <=> q \in Ids /\ (players[q] > 0 \/ q = p)
        BY <4>2 DEF Registered
      <4>5. \A q : q \in Registered <=> q \in Ids /\ players[q] > 0
        BY DEF Registered
      <4>6. \A q : q \in Registered' <=> q \in Registered \cup {p}
        BY <4>4, <4>5, <2>1
      <4>7. QED
        BY <4>3, <4>6
    <3>2. Cardinality(Registered') = n + 1
      BY <3>1, RegisteredFinite, FS_AddElement
    <3>3. \A q \in Registered : players'[q] = players[q] /\ players[q] \in 1..n
      BY <2>4, <3>1, <2>2 DEF SeatsAreDense, Registered
    <3>4. players'[p] = n + 1
      BY <2>4, <2>1, <2>2
    <3>5. \A q, s \in Registered' : players'[q] = players'[s] => q = s
      <4> SUFFICES ASSUME NEW q \in Registered', NEW s \in Registered', players'[q] = players'[s]
                   PROVE  q = s
        OBVIOUS
      <4>1. CASE q \in Registered /\ s \in Registered
        BY <4>1, <3>3 DEF SeatsAreDense
      <4>2. CASE q = p \/ s = p
        BY <4>2, <3>1, <3>3, <3>4, <2>1
      <4>3. QED
        BY <4>1, <4>2, <3>1
    <3>6. {players'[q] : q \in Registered'} = 1..(n + 1)
      <4>1. {players[q] : q \in Registered} = 1..n
        BY DEF SeatsAreDense
      <4>2. {players'[q] : q \in Registered'} = {players[q] : q \in Registered} \cup {n + 1}
        <5>1. {players'[q] : q \in Registered \cup {p}}
                = {players'[q] : q \in Registered} \cup {players'[p]}
          OBVIOUS
        <5>2. {players'[q] : q \in Registered} = {players[q] : q \in Registered}
          BY <3>3
        <5>3. QED
          BY <3>1, <3>4, <5>1, <5>2
      <4>3. 1..(n + 1) = (1..n) \cup {n + 1}
        BY <2>1
      <4>4. QED
        BY <4>1, <4>2, <4>3
    <3>7. players'[Comp] = 0
      BY <2>4, <2>1, <2>2 DEF SeatsAreDense
    <3>8. QED
      BY <3>2, <3>5, <3>6, <3>7, <2>4 DEF SeatsAreDense
  <2>5. CASE /\ SinglePlayer
             /\ players' = [q \in Ids |-> IF q = p THEN 1 ELSE IF q = Comp THEN 2 ELSE 0]
    <3>1. players'[p] = 1 /\ players'[Comp] = 2
      BY <2>5, <2>1
    <3>2. Registered' = {p, Comp}
      BY <2>5, <2>1 DEF Registered
    <3>3. Cardinality({p, Comp}) = 2
      <4>1. IsFiniteSet({p}) /\ Cardinality({p}) = 1
        BY FS_Singleton
      <4>2. Comp \notin {p} /\ {p, Comp} = {p} \cup {Comp}
        BY <2>1
      <4>3. Cardinality({p} \cup {Comp}) = 2
        BY <4>1, <4>2, FS_AddElement
      <4>4. QED
        BY <4>2, <4>3
    <3>4. {players'[q] : q \in {p, Comp}} = 1..2
      BY <3>1
    <3>5. QED
      BY <3>1, <3>2, <3>3, <3>4, <2>5 DEF SeatsAreDense
  <2>6. QED
    BY <1>2, <2>3, <2>4, <2>5, RegisterSeats
<1>3. QED
  BY <1>1, <1>2, PlayersChange

\* The numbers of the registered players are 1..len(players), for any number of
\* players and seats: playerNames never indexes out of range.
THEOREM SeatsDense == Spec => []SeatsAreDense
BY SeatsInitially, SeatsStep, TypeCorrect, PTL DEF Spec

LEMMA SeatsKept ==
    ASSUME TypeOK, SeatsAreDense, [Next]_vars
    PROVE  \A p \in Ids : players[p] > 0 => players'[p] = players[p]
<1>1. players \in [Ids -> 0..NumPlayers]
  BY DEF TypeOK
<1>2. ASSUME NEW c \in Conns, Register(c)
      PROVE  \A p \in Ids : players[p] > 0 => players'[p] = players[p]
  <2>1. CASE players[Owner[c]] = 0
             /\ players' = [players EXCEPT ![Owner[c]] = Cardinality(Registered) + 1]
    BY <1>1, <2>1
  <2>2. CASE Registered = {}
    BY <2>2 DEF Registered
  <2>3. QED
    BY <1>2, <2>1, <2>2, RegisterSeats
<1>3. QED
  BY <1>2, PlayersChange

\* A player keeps their number for the whole game.
THEOREM SeatsStable == Spec => SeatsAreStable
<1>1. TypeOK /\ SeatsAreDense /\ [Next]_vars
        => [\A p \in Ids : players[p] > 0 => players'[p] = players[p]]_players
  BY SeatsKept
<1>2. QED
  BY <1>1, TypeCorrect, SeatsDense, PTL DEF Spec, SeatsAreStable

-----------------------------------------------------------------------------
(* Listeners and removals.                                                  *)

\* Only a registration and a removal of a listener change eventListeners; only
\* these steps and those of the removal goroutines change the removals.
LEMMA TablesChange ==
    ASSUME [Next]_vars
    PROVE  /\ \/ UNCHANGED eventListeners
              \/ \E c \in Conns : Register(c) \/ Unregister(c)
           /\ \/ UNCHANGED <<playerRmCancel, strayRemovals>>
              \/ \E c \in Conns : Register(c) \/ Unregister(c)
              \/ \E p \in Players : RemovalDue(p) \/ Remove(p)
BY DEF Next, vars, masterVars, tableVars, clientVars, cpuVars, OpenSse, Disconnect, LastEvent,
       SseGameOver, SendNext, Post, PostGameOver, Move, Reset, RemovalDue, Remove,
       Tick, SendSingle, AskCpu, CpuMove, Return, CpuSuggest, CpuPanic, CpuExit

\* Where a handler can go while the game goes on.
LEMMA ConnChange ==
    ASSUME TypeOK, [Next]_vars, NEW d \in Conns
    PROVE  \/ conn'[d] = conn[d]
           \/ conn[d] = "idle" /\ conn'[d] = "register"
           \/ conn[d] = "stream" /\ conn'[d] = "unregister"
           \/ Register(d) /\ conn'[d] = "stream"
           \/ Unregister(d) /\ conn'[d] = "idle"
           \/ Ended
<1> USE DEF TypeOK
<1>1. \/ UNCHANGED conn
      \/ \E c \in Conns : OpenSse(c) \/ Disconnect(c) \/ LastEvent(c) \/ SseGameOver(c)
                         \/ Register(c) \/ Unregister(c)
  BY DEF Next, vars, SendNext, Post, PostGameOver, Move, Reset, RemovalDue, Remove, Tick,
         SendSingle, AskCpu, CpuMove, Return, CpuSuggest, CpuPanic, CpuExit
<1>2. ASSUME NEW c \in Conns, OpenSse(c)
      PROVE  conn'[d] = conn[d] \/ (conn[d] = "idle" /\ conn'[d] = "register")
  BY <1>2 DEF OpenSse
<1>3. ASSUME NEW c \in Conns, Disconnect(c)
      PROVE  conn'[d] = conn[d] \/ (conn[d] = "stream" /\ conn'[d] = "unregister")
  BY <1>3 DEF Disconnect
<1>4. ASSUME NEW c \in Conns, LastEvent(c) \/ SseGameOver(c) PROVE Ended
  BY <1>4 DEF LastEvent, SseGameOver
<1>5. ASSUME NEW c \in Conns, Register(c)
      PROVE  conn'[d] = conn[d] \/ (Register(d) /\ conn'[d] = "stream")
  <2>1. conn' = [conn EXCEPT ![c] = "stream"]
    BY <1>5 DEF Register
  <2>2. QED
    BY <1>5, <2>1
<1>6. ASSUME NEW c \in Conns, Unregister(c)
      PROVE  conn'[d] = conn[d] \/ (Unregister(d) /\ conn'[d] = "idle")
  <2>1. conn' = [conn EXCEPT ![c] = "idle"]
    BY <1>6 DEF Unregister, ReturnSse
  <2>2. QED
    BY <1>6, <2>1
<1>7. QED
  BY <1>1, <1>2, <1>3, <1>4, <1>5, <1>6

\* The game master never leaves the part of its function that closes things.
LEMMA EndedStays == ASSUME [Next]_vars, Ended PROVE Ended'
BY DEF Next, vars, masterVars, tableVars, clientVars, cpuVars, OpenSse, Disconnect, LastEvent,
       SseGameOver, Register, Unregister, SendNext, Post, PostGameOver, Move, Reset,
       RemovalDue, Remove, Tick, SendSingle, AskCpu, CpuMove, Return, CpuSuggest, CpuPanic,
       CpuExit

\* The game master never holds a channel whose handler has returned.
THEOREM ListenersAlive == Spec => []ListenersHaveHandlers
<1>1. Init => ListenersHaveHandlers
  BY DEF Init, ListenersHaveHandlers
<1>2. TypeOK /\ ListenersHaveHandlers /\ [Next]_vars => ListenersHaveHandlers'
  <2> SUFFICES ASSUME TypeOK, ListenersHaveHandlers, [Next]_vars, ~Ended',
                      NEW p \in Players, eventListeners'[p] # NoConn
               PROVE  /\ Owner[eventListeners'[p]] = p
                      /\ conn'[eventListeners'[p]] \in {"stream", "unregister"}
    BY DEF ListenersHaveHandlers
  <2> DEFINE d == eventListeners'[p]
  <2>1. ~Ended
    BY EndedStays
  <2>2. CASE UNCHANGED eventListeners
    <3>1. Owner[d] = p /\ conn[d] \in {"stream", "unregister"} /\ d \in Conns
      BY <2>1, <2>2 DEF ListenersHaveHandlers, TypeOK
    <3>2. ~Unregister(d)
      BY <2>2, <3>1 DEF Unregister, TypeOK
    <3>3. QED
      BY <3>1, <3>2, <2>1, ConnChange
  <2>3. ASSUME NEW c \in Conns, Register(c)
        PROVE  Owner[d] = p /\ conn'[d] \in {"stream", "unregister"}
    <3>1. CASE p = Owner[c]
      <4>1. d = c /\ conn'[c] = "stream"
        BY <2>3, <3>1 DEF Register, TypeOK
      <4>2. QED
        BY <4>1, <3>1
    <3>2. CASE p # Owner[c]
      <4>1. d = eventListeners[p] /\ d \in Conns
        BY <2>3, <3>2 DEF Register, TypeOK
      <4>2. Owner[d] = p /\ conn[d] \in {"stream", "unregister"}
        BY <4>1, <2>1 DEF ListenersHaveHandlers
      <4>3. conn' = [conn EXCEPT ![c] = "stream"]
        BY <2>3 DEF Register
      <4>4. QED
        BY <4>1, <4>2, <4>3 DEF TypeOK
    <3>3. QED
      BY <3>1, <3>2
  <2>4. ASSUME NEW c \in Conns, Unregister(c)
        PROVE  Owner[d] = p /\ conn'[d] \in {"stream", "unregister"}
    <3>1. p # Owner[c] /\ d = eventListeners[p] /\ d \in Conns
      BY <2>4 DEF Unregister, TypeOK
    <3>2. Owner[d] = p /\ conn[d] \in {"stream", "unregister"}
      BY <3>1, <2>1 DEF ListenersHaveHandlers
    <3>3. d # c /\ conn' = [conn EXCEPT ![c] = "idle"]
      BY <3>1, <3>2, <2>4 DEF Unregister, ReturnSse
    <3>4. QED
      BY <3>1, <3>2, <3>3 DEF TypeOK
  <2>5. QED
    BY <2>2, <2>3, <2>4, TablesChange
<1>3. QED
  BY <1>1, <1>2, TypeCorrect, PTL DEF Spec

-----------------------------------------------------------------------------
(* The game master's phases, and the session.                               *)

\* What a step does to the game master's place and to the message it sends.
LEMMA MasterChange ==
    ASSUME TypeOK, [Next]_vars
    PROVE  \/ UNCHANGED <<master, msg>>
           \/ /\ master \in {"select", "askCpu"}
              /\ \E m \in {"ping", "board"}, T \in SUBSET Conns : Broadcast(m, T)
           \/ /\ \E p \in Players : Remove(p)
              /\ master = "select" /\ Broadcast("over", Listeners)
           \/ master = "select" /\ master' = "askCpu" /\ msg' = msg
           \/ \E c \in Conns : SendNext(c)
           \/ Return
<1> DEFINE Step == \/ UNCHANGED <<master, msg>>
                   \/ /\ master \in {"select", "askCpu"}
                      /\ \E m \in {"ping", "board"}, T \in SUBSET Conns : Broadcast(m, T)
                   \/ master = "select" /\ master' = "askCpu" /\ msg' = msg
<1>0. Listeners \in SUBSET Conns
  BY ListenersType
<1>1. ASSUME NEW c \in Conns, Register(c) PROVE Step
  <2>1. (Listeners \ {eventListeners[Owner[c]]}) \cup {c} \in SUBSET Conns
    BY <1>0
  <2>2. QED
    BY <1>1, <2>1 DEF Register
<1>2. ASSUME NEW id, MakeMove(id), master = "select" PROVE Step
  BY <1>2, <1>0 DEF MakeMove
<1>3. ASSUME NEW r \in Requests, Move(r) \/ Reset(r) PROVE Step
  BY <1>3, <1>0, <1>2 DEF Move, Reset, RefuseMove, masterVars
<1>4. ASSUME CpuMove PROVE Step
  BY <1>4, <1>2 DEF CpuMove, RefuseMove, masterVars
<1>5. ASSUME AskCpu \/ Tick PROVE Step
  BY <1>5, <1>0 DEF AskCpu, Tick
<1>6. ASSUME NEW p \in Players, Remove(p)
      PROVE  master = "select" /\ Broadcast("over", Listeners)
  BY <1>6 DEF Remove
<1>7. QED
  BY <1>1, <1>3, <1>4, <1>5, <1>6
  DEF Next, vars, masterVars, OpenSse, Disconnect, LastEvent, SseGameOver, Unregister, Post,
      PostGameOver, RemovalDue, SendSingle, CpuSuggest, CpuPanic, CpuExit

LEMMA MsgStep ==
    ASSUME TypeOK, RemovalsAreOfPlayers, [Next]_vars
    PROVE  /\ (master = "send" <=> msg # "none")'
           /\ GameOver => GameOver'
<1>1. master = "send" <=> msg # "none"
  BY DEF RemovalsAreOfPlayers
<1>2. CASE UNCHANGED <<master, msg>>
  BY <1>1, <1>2 DEF GameOver
<1>3. ASSUME NEW m \in {"ping", "board", "over"}, NEW T, Broadcast(m, T),
             master \in {"select", "askCpu"}
      PROVE  (master = "send" <=> msg # "none")' /\ (GameOver => GameOver')
  BY <1>1, <1>3 DEF Broadcast, AfterBroadcast, GameOver
<1>4. CASE master = "select" /\ master' = "askCpu" /\ msg' = msg
  BY <1>1, <1>4 DEF GameOver
<1>5. ASSUME NEW c \in Conns, SendNext(c)
      PROVE  (master = "send" <=> msg # "none")' /\ (GameOver => GameOver')
  BY <1>1, <1>5 DEF SendNext, AfterBroadcast, GameOver
<1>6. CASE Return
  BY <1>1, <1>6 DEF Return, GameOver
<1>7. QED
  BY <1>2, <1>3, <1>4, <1>5, <1>6, MasterChange

\* Removals are scheduled for registered players only, and one that got through
\* is the end of the game.
THEOREM Removals == Spec => []RemovalsAreOfPlayers
<1>1. Init => RemovalsAreOfPlayers
  BY DEF Init, RemovalsAreOfPlayers
<1>2. TypeOK /\ SeatsAreDense /\ RemovalsAreOfPlayers /\ [Next]_vars => RemovalsAreOfPlayers'
  <2> SUFFICES ASSUME TypeOK, SeatsAreDense, RemovalsAreOfPlayers, [Next]_vars
               PROVE  RemovalsAreOfPlayers'
    OBVIOUS
  <2>1. (master = "send" <=> msg # "none")' /\ (GameOver => GameOver')
    BY MsgStep
  <2> SUFFICES ASSUME NEW q \in Players, playerRmCancel'[q] # "none"
               PROVE  /\ players'[q] > 0
                      /\ playerRmCancel'[q] = "sent" => GameOver'
    BY <2>1 DEF RemovalsAreOfPlayers
  <2> DEFINE Before == /\ players[q] > 0
                       /\ playerRmCancel'[q] = "sent" => playerRmCancel[q] = "sent" \/ GameOver'
  <2>2. ASSUME UNCHANGED <<playerRmCancel, strayRemovals>> PROVE Before
    BY <2>2 DEF RemovalsAreOfPlayers
  <2>3. ASSUME NEW c \in Conns, Register(c) PROVE Before
    BY <2>3 DEF Register, TypeOK, RemovalsAreOfPlayers
  <2>4. ASSUME NEW c \in Conns, Unregister(c) PROVE Before
    BY <2>4 DEF Unregister, TypeOK, RemovalsAreOfPlayers
  <2>5. ASSUME NEW p \in Players, RemovalDue(p) PROVE Before
    BY <2>5 DEF RemovalDue, TypeOK, RemovalsAreOfPlayers
  <2>6. ASSUME NEW p \in Players, Remove(p) PROVE Before
    <3>1. GameOver'
      BY <2>6 DEF Remove, Broadcast, AfterBroadcast, GameOver
    <3>2. QED
      BY <2>6, <3>1 DEF Remove, TypeOK, RemovalsAreOfPlayers
  <2>7. Before
    BY <2>2, <2>3, <2>4, <2>5, <2>6, TablesChange DEF RemovalsAreOfPlayers
  <2>8. players'[q] = players[q]
    <3>1. \A p \in Ids : players[p] > 0 => players'[p] = players[p]
      BY SeatsKept
    <3>2. QED
      BY <2>7, <3>1
  <2>9. QED
    BY <2>1, <2>7, <2>8 DEF RemovalsAreOfPlayers
<1>3. QED
  BY <1>1, <1>2, TypeCorrect, SeatsDense, PTL DEF Spec

\* A registered player without connections is scheduled for removal.
THEOREM AbandonedScheduled == Spec => []AbandonedPlayerIsScheduled
<1>1. Init => AbandonedPlayerIsScheduled
  BY DEF Init, AbandonedPlayerIsScheduled
<1>2. TypeOK /\ SeatsAreDense /\ AbandonedPlayerIsScheduled /\ [Next]_vars
        => AbandonedPlayerIsScheduled'
  <2> SUFFICES ASSUME TypeOK, SeatsAreDense, AbandonedPlayerIsScheduled, [Next]_vars,
                      NEW p \in Players, players'[p] > 0, ~Ended',
                      \A c \in Conns : Owner[c] = p => conn'[c] = "idle"
               PROVE  playerRmCancel'[p] # "none"
    BY DEF AbandonedPlayerIsScheduled
  <2>1. ~Ended
    BY EndedStays
  <2>2. ASSUME NEW c \in Conns, Register(c) PROVE Owner[c] # p
    <3>1. conn'[c] = "stream"
      BY <2>2 DEF Register, TypeOK
    <3>2. QED
      BY <3>1
  <2>3. players[p] > 0
    <3>1. CASE UNCHANGED players
      BY <3>1
    <3>2. ASSUME NEW c \in Conns, Register(c) PROVE players'[p] = players[p]
      BY <2>2, <3>2, PlayersAssumption DEF Register, TypeOK
    <3>3. QED
      BY <3>1, <3>2, PlayersChange
  <2>4. ASSUME NEW c \in Conns, Owner[c] = p, Unregister(c) PROVE playerRmCancel'[p] # "none"
    <3>1. playerRmCancel' = IF playerRmCancel[p] = "none" /\ players[p] > 0
                            THEN [playerRmCancel EXCEPT ![p] = "armed"] ELSE playerRmCancel
      BY <2>4 DEF Unregister
    <3>2. QED
      BY <2>3, <3>1 DEF TypeOK
  <2>5. CASE \A c \in Conns : Owner[c] = p => ~Unregister(c)
    <3>1. \A c \in Conns : Owner[c] = p => conn[c] = "idle"
      BY <2>1, <2>2, <2>5, ConnChange
    <3>2. playerRmCancel[p] # "none"
      BY <2>1, <2>3, <3>1 DEF AbandonedPlayerIsScheduled
    <3>3. ASSUME NEW c \in Conns, Register(c) \/ Unregister(c)
          PROVE  playerRmCancel'[p] = playerRmCancel[p]
      BY <2>2, <2>5, <3>3, ConnsAssumption DEF Register, Unregister, TypeOK
    <3>4. ASSUME NEW q \in Players, RemovalDue(q) \/ Remove(q)
          PROVE  playerRmCancel'[p] # "none"
      BY <3>2, <3>4 DEF RemovalDue, Remove, TypeOK
    <3>5. QED
      BY <3>2, <3>3, <3>4, TablesChange
  <2>6. QED
    BY <2>4, <2>5
<1>3. QED
  BY <1>1, <1>2, TypeCorrect, SeatsDense, PTL DEF Spec

-----------------------------------------------------------------------------
(* The session.                                                             *)

\* A step that is not a removal neither ends the game nor revives it.
LEMMA GameOverStep ==
    ASSUME TypeOK, RemovalsAreOfPlayers, [Next]_vars, \A p \in Players : ~Remove(p)
    PROVE  GameOver' = GameOver
<1>1. master = "send" <=> msg # "none"
  BY DEF RemovalsAreOfPlayers
<1>2. CASE UNCHANGED <<master, msg>>
  BY <1>2 DEF GameOver
<1>3. ASSUME NEW m \in {"ping", "board"}, NEW T, Broadcast(m, T), master \in {"select", "askCpu"}
      PROVE  GameOver' = GameOver
  BY <1>1, <1>3 DEF Broadcast, AfterBroadcast, GameOver
<1>4. CASE master = "select" /\ master' = "askCpu" /\ msg' = msg
  BY <1>1, <1>4 DEF GameOver
<1>5. ASSUME NEW c \in Conns, SendNext(c) PROVE GameOver' = GameOver
  BY <1>1, <1>5 DEF SendNext, AfterBroadcast, GameOver, TypeOK
<1>6. CASE Return
  BY <1>1, <1>6 DEF Return, GameOver
<1>7. QED
  BY <1>2, <1>3, <1>4, <1>5, <1>6, MasterChange

\* Between two events the game is not over and no removal has got through.
LEMMA NotOverAtSelect ==
    ASSUME RemovalsAreOfPlayers, master = "select"
    PROVE  ~GameOver /\ \A p \in Players : playerRmCancel[p] # "sent"
BY DEF RemovalsAreOfPlayers, GameOver

LEMMA RegisterRemovals ==
    ASSUME TypeOK, RemovalsAreOfPlayers, NEW c \in Conns, Register(c)
    PROVE  StayedAway' = StayedAway
<1> DEFINE p == Owner[c]
<1>0. p \in Players /\ playerRmCancel[p] # "sent"
  BY NotOverAtSelect, ConnsAssumption DEF Register
<1>1. CASE UNCHANGED <<playerRmCancel, strayRemovals>>
  BY <1>1 DEF StayedAway
<1>2. CASE /\ playerRmCancel' = [playerRmCancel EXCEPT ![p] = "none"]
           /\ strayRemovals' = IF playerRmCancel[p] = "due"
                               THEN strayRemovals \cup {p} ELSE strayRemovals
  <2>1. \A q \in Players : q \in StayedAway' <=> q \in StayedAway
    BY <1>0, <1>2 DEF StayedAway, TypeOK
  <2>2. StayedAway \subseteq Players /\ StayedAway' \subseteq Players
    BY <1>0, <1>2 DEF StayedAway, TypeOK
  <2>3. QED
    BY <2>1, <2>2
<1>3. QED
  BY <1>1, <1>2 DEF Register

\* The players seated in the session are the registered ones.
LEMMA SessionSeats ==
    ASSUME TypeOK, SeatsAreDense
    PROVE  /\ ~SinglePlayer => Session!Seated = Registered
           /\ Registered = {} => Session!Seated = {}
<1>1. \A p \in Players : HumanNum[p] = players[p]
  BY DEF HumanNum
<1>2. Session!Seated = {p \in Players : players[p] > 0}
  BY <1>1 DEF Session!Seated
<1>3. ~SinglePlayer => players[Comp] = 0
  BY DEF SeatsAreDense
<1>4. QED
  BY <1>2, <1>3 DEF Registered

LEMMA SessionStep ==
    TypeOK /\ SeatsAreDense /\ RemovalsAreOfPlayers /\ [Next]_vars
        => [Session!Next]_(Session!vars)
<1> SUFFICES ASSUME TypeOK, SeatsAreDense, RemovalsAreOfPlayers, [Next]_vars
             PROVE  [Session!Next]_(Session!vars)
  OBVIOUS
<1>1. ASSUME NEW p \in Players, Remove(p) PROVE Session!End
  <2>1. ~GameOver
    BY <1>1, NotOverAtSelect DEF Remove
  <2>2. GameOver'
    BY <1>1 DEF Remove, Broadcast, AfterBroadcast, GameOver
  <2>3. p \in StayedAway
    BY <1>1 DEF Remove, StayedAway
  <2>4. \A q \in Players : q \in StayedAway' <=> q \in StayedAway
    BY <1>1 DEF Remove, StayedAway, TypeOK
  <2>5. StayedAway' = StayedAway
    BY <1>1, <2>4 DEF Remove, StayedAway, TypeOK
  <2>6. HumanNum' = HumanNum
    BY <1>1 DEF Remove, HumanNum
  <2>7. GameOver' = TRUE
    BY <2>2 DEF GameOver
  <2>8. QED
    BY <2>1, <2>3, <2>5, <2>6, <2>7 DEF Session!End
<1>2. ASSUME NEW p \in Players, RemovalDue(p) PROVE Session!StayAway(p)
  <2>1. players[p] > 0 /\ HumanNum[p] > 0
    BY <1>2 DEF RemovalDue, RemovalsAreOfPlayers, HumanNum
  <2>2. \A q \in Players : q \in StayedAway' <=> q \in StayedAway \cup {p}
    BY <1>2 DEF RemovalDue, StayedAway, TypeOK
  <2>3. StayedAway' = StayedAway \cup {p}
    BY <1>2, <2>2 DEF RemovalDue, StayedAway, TypeOK
  <2>4. GameOver' = GameOver /\ HumanNum' = HumanNum
    BY <1>2 DEF RemovalDue, GameOver, HumanNum, masterVars
  <2>5. QED
    BY <2>1, <2>3, <2>4 DEF Session!StayAway
<1>3. ASSUME NEW c \in Conns, Register(c) PROVE UNCHANGED Session!vars \/ Session!Join(Owner[c])
  <2> DEFINE p == Owner[c]
  <2>1. StayedAway' = StayedAway
    BY <1>3, RegisterRemovals
  <2>2. GameOver' = GameOver /\ ~GameOver
    <3>1. \A q \in Players : ~Remove(q)
      <4>1. eventListeners'[p] = c /\ conn'[c] = "stream" /\ conn[c] = "register"
        BY <1>3, ConnsAssumption DEF Register, TypeOK
      <4>2. \A q \in Players : Remove(q) => conn' = conn
        BY DEF Remove
      <4>3. QED
        BY <4>1, <4>2
    <3>2. QED
      BY <1>3, <3>1, GameOverStep, NotOverAtSelect DEF Register
  <2>3. p \in Players /\ p # Comp /\ p \in Ids
    BY ConnsAssumption, PlayersAssumption
  <2>4. CASE players' = players
    BY <2>1, <2>2, <2>4 DEF Session!vars, HumanNum
  <2>5. CASE /\ ~SinglePlayer /\ players[p] = 0 /\ Cardinality(Registered) < NumPlayers
             /\ players' = [players EXCEPT ![p] = Cardinality(Registered) + 1]
    <3>1. HumanNum' = [HumanNum EXCEPT ![p] = Cardinality(Registered) + 1]
      <4> DEFINE m == Cardinality(Registered) + 1
      <4>1. \A q \in Players : players'[q] = IF q = p THEN m ELSE players[q]
        BY <2>3, <2>5 DEF TypeOK
      <4>2. HumanNum' = [q \in Players |-> IF q = p THEN m ELSE players[q]]
        BY <4>1 DEF HumanNum
      <4> HIDE DEF m
      <4>3. [HumanNum EXCEPT ![p] = m] = [q \in Players |-> IF q = p THEN m ELSE players[q]]
        BY <2>3 DEF HumanNum
      <4>4. QED
        BY <4>2, <4>3 DEF m
    <3>2. Session!Seated = Registered /\ HumanSeats = NumPlayers /\ HumanNum[p] = 0
      BY <2>3, <2>5, SessionSeats DEF HumanSeats, HumanNum
    <3>3. {HumanNum[q] : q \in Session!Seated} = 1..Cardinality(Registered)
      <4>1. \A q \in Registered : HumanNum[q] = players[q]
        BY <2>5 DEF HumanNum, Registered, SeatsAreDense
      <4>2. QED
        BY <3>2, <4>1 DEF SeatsAreDense
    <3>4. \E n \in 1..HumanSeats :
             /\ {HumanNum[q] : q \in Session!Seated} = 1..(n - 1)
             /\ HumanNum' = [HumanNum EXCEPT ![p] = n]
      <4>1. /\ Cardinality(Registered) + 1 \in 1..HumanSeats
            /\ (Cardinality(Registered) + 1) - 1 = Cardinality(Registered)
        BY <2>5, <3>2, RegisteredFinite, NumPlayersAssumption
      <4>2. QED
        BY <3>1, <3>3, <4>1
    <3>5. QED
      BY <2>1, <2>2, <3>2, <3>4 DEF Session!Join
  <2>6. CASE /\ SinglePlayer /\ Registered = {}
             /\ players' = [q \in Ids |-> IF q = p THEN 1 ELSE IF q = Comp THEN 2 ELSE 0]
    <3>1. Session!Seated = {} /\ HumanSeats = 1
      BY <2>6, SessionSeats DEF HumanSeats
    <3>2. \A q \in Players : players[q] = 0 /\ HumanNum[q] = 0 /\ q # Comp
      BY <2>6, PlayersAssumption DEF Registered, TypeOK, HumanNum
    <3>3. HumanNum' = [HumanNum EXCEPT ![p] = 1]
      BY <2>3, <2>6, <3>2 DEF HumanNum
    <3>4. 1 \in 1..HumanSeats /\ {HumanNum[q] : q \in Session!Seated} = 1..(1 - 1)
      BY <3>1
    <3>5. QED
      BY <2>1, <2>2, <2>3, <3>2, <3>3, <3>4 DEF Session!Join
  <2>7. QED
    BY <1>3, <2>4, <2>5, <2>6, RegisterSeats
<1>4. ASSUME NEW c \in Conns, Unregister(c) PROVE UNCHANGED Session!vars
  <2>1. \A q \in Players : q \in StayedAway' <=> q \in StayedAway
    BY <1>4 DEF Unregister, StayedAway, TypeOK
  <2>2. StayedAway' = StayedAway
    BY <1>4, <2>1 DEF Unregister, StayedAway, TypeOK
  <2>3. QED
    BY <1>4, <2>2 DEF Unregister, Session!vars, HumanNum, GameOver, masterVars
<1>5. CASE /\ \A p \in Players : ~Remove(p) /\ ~RemovalDue(p)
           /\ \A c \in Conns : ~Register(c) /\ ~Unregister(c)
  <2>1. UNCHANGED <<playerRmCancel, strayRemovals, players>>
    BY <1>5, TablesChange, PlayersChange
  <2>2. GameOver' = GameOver
    BY <1>5, GameOverStep
  <2>3. QED
    BY <2>1, <2>2 DEF Session!vars, HumanNum, StayedAway
<1>6. QED
  BY <1>1, <1>2, <1>3, <1>4, <1>5, ConnsAssumption DEF Session!Next

\* The game master implements the session, for any players and connections.
THEOREM ImplementsSession == Spec => SessionSpec
<1>1. Init => Session!Init
  <2> SUFFICES ASSUME Init PROVE Session!Init
    OBVIOUS
  <2>1. HumanNum = [p \in Players |-> 0]
    BY DEF Init, HumanNum
  <2>2. StayedAway = {} /\ GameOver = FALSE
    BY DEF Init, StayedAway, GameOver
  <2>3. QED
    BY <2>1, <2>2 DEF Session!Init
<1>2. QED
  BY <1>1, SessionStep, TypeCorrect, SeatsDense, Removals, PTL
  DEF Spec, SessionSpec, Session!Spec

-----------------------------------------------------------------------------
(* Boards.                                                                  *)

\* The inductive invariant behind ListenersUpToDate: a ping is only sent when
\* everybody has the current board, and while a board is sent, whoever does not
\* have it yet is still to be sent it.
BoardsOnTheirWay ==
    /\ master = "select" => Listeners \subseteq fresh
    /\ master = "send" /\ msg = "ping" => Listeners \subseteq fresh
    /\ master = "send" /\ msg = "board" => Listeners \subseteq fresh \cup rest

LEMMA BroadcastBoard ==
    ASSUME NEW T \in SUBSET Conns, Broadcast("board", T), Listeners' \subseteq T
    PROVE  BoardsOnTheirWay'
BY DEF Broadcast, AfterBroadcast, BoardsOnTheirWay

LEMMA BoardsStep ==
    TypeOK /\ ListenersHaveHandlers /\ RemovalsAreOfPlayers /\ BoardsOnTheirWay /\ [Next]_vars
        => BoardsOnTheirWay'
<1> SUFFICES ASSUME TypeOK, ListenersHaveHandlers, RemovalsAreOfPlayers, BoardsOnTheirWay,
                    [Next]_vars
             PROVE  BoardsOnTheirWay'
  OBVIOUS
<1>0. Listeners \in SUBSET Conns
  BY ListenersType
<1>1. CASE UNCHANGED <<master, msg, rest, eventListeners>> /\ fresh \subseteq fresh'
  BY <1>1 DEF BoardsOnTheirWay, Listeners
<1>2. ASSUME NEW c \in Conns, LastEvent(c) \/ SseGameOver(c) PROVE BoardsOnTheirWay'
  BY <1>2 DEF LastEvent, SseGameOver, masterVars, BoardsOnTheirWay
<1>3. ASSUME NEW c \in Conns, Register(c) PROVE BoardsOnTheirWay'
  <2> DEFINE T == (Listeners \ {eventListeners[Owner[c]]}) \cup {c}
  <2>1. ~Ended /\ Owner[c] \in Players
    BY <1>3, ConnsAssumption DEF Register
  <2>2. \A q \in Players : q # Owner[c] /\ eventListeners[q] # NoConn
                            => eventListeners[q] # eventListeners[Owner[c]]
    BY <2>1 DEF ListenersHaveHandlers
  <2>3. eventListeners' = [eventListeners EXCEPT ![Owner[c]] = c]
    BY <1>3 DEF Register
  <2>4. Listeners' \subseteq T
    BY <2>1, <2>2, <2>3 DEF Listeners, TypeOK
  <2>5. T \in SUBSET Conns /\ Broadcast("board", T)
    BY <1>0, <1>3 DEF Register
  <2>6. QED
    BY <2>4, <2>5, BroadcastBoard
<1>4. ASSUME NEW c \in Conns, Unregister(c) PROVE BoardsOnTheirWay'
  <2>1. master = "select" /\ master' = "select" /\ fresh' = fresh \ {c}
    BY <1>4 DEF Unregister, ReturnSse, masterVars
  <2>2. eventListeners' = [eventListeners EXCEPT ![Owner[c]] = NoConn]
    BY <1>4 DEF Unregister
  <2>3. \A q \in Players : eventListeners[q] = c => q = Owner[c]
    BY <2>1, ConnsAssumption DEF ListenersHaveHandlers
  <2>4. Listeners' \subseteq Listeners \ {c}
    BY <2>2, <2>3, ConnsAssumption DEF Listeners, TypeOK
  <2>5. QED
    BY <2>1, <2>4 DEF BoardsOnTheirWay
<1>5. ASSUME UNCHANGED eventListeners, Broadcast("board", Listeners) PROVE BoardsOnTheirWay'
  <2>1. Listeners' = Listeners
    BY <1>5 DEF Listeners
  <2>2. QED
    BY <1>0, <1>5, <2>1, BroadcastBoard
<1>6. ASSUME NEW id, MakeMove(id), UNCHANGED eventListeners PROVE BoardsOnTheirWay'
  BY <1>5, <1>6 DEF MakeMove, BoardsOnTheirWay
<1>7. ASSUME NEW r \in Requests, Move(r) PROVE BoardsOnTheirWay'
  BY <1>1, <1>6, <1>7 DEF Move, RefuseMove, masterVars, tableVars, clientVars
<1>8. ASSUME NEW r \in Requests, Reset(r) PROVE BoardsOnTheirWay'
  BY <1>1, <1>5, <1>8 DEF Reset, tableVars, BoardsOnTheirWay, Listeners
<1>9. CASE CpuMove
  BY <1>1, <1>6, <1>9 DEF CpuMove, RefuseMove, masterVars, tableVars, clientVars
<1>10. CASE AskCpu
  BY <1>5, <1>10 DEF AskCpu, tableVars
<1>11. CASE Tick
  BY <1>11 DEF Tick, Broadcast, AfterBroadcast, BoardsOnTheirWay, Listeners, tableVars, clientVars
<1>12. ASSUME NEW p \in Players, Remove(p) PROVE BoardsOnTheirWay'
  BY <1>12 DEF Remove, Broadcast, AfterBroadcast, BoardsOnTheirWay
<1>13. ASSUME NEW c \in Conns, SendNext(c) PROVE BoardsOnTheirWay'
  <2>1. Listeners' = Listeners
    BY <1>13 DEF SendNext, Listeners, tableVars
  <2>2. CASE rest # {c}
    <3>1. master' = master /\ msg' = msg /\ rest' = rest \ {c}
      BY <1>13, <2>2 DEF SendNext
    <3>2. fresh' = IF msg = "ping" THEN fresh ELSE fresh \cup {c}
      BY <1>13 DEF SendNext
    <3>3. QED
      BY <1>13, <2>1, <3>1, <3>2 DEF BoardsOnTheirWay
  <2>3. CASE rest = {c}
    <3>1. /\ master = "send" /\ master' = AfterBroadcast(msg) /\ msg' = "none"
          /\ fresh' = IF msg = "ping" THEN fresh ELSE fresh \cup {c}
      BY <1>13, <2>3 DEF SendNext
    <3>2. msg \in {"ping", "board", "over"}
      BY <3>1 DEF RemovalsAreOfPlayers, TypeOK
    <3>3. QED
      BY <2>1, <2>3, <3>1, <3>2 DEF BoardsOnTheirWay, AfterBroadcast
  <2>4. QED
    BY <2>2, <2>3
<1>14. CASE SendSingle
  BY <1>1, <1>14 DEF SendSingle, tableVars
<1>15. CASE Return
  BY <1>15 DEF Return, BoardsOnTheirWay
<1>16. QED
  BY <1>1, <1>2, <1>3, <1>4, <1>7, <1>8, <1>9, <1>10, <1>11, <1>12, <1>13, <1>14, <1>15
  DEF Next, vars, masterVars, tableVars, clientVars, OpenSse, Disconnect, Post, PostGameOver,
      RemovalDue, CpuSuggest, CpuPanic, CpuExit

\* Whenever the game master waits, every listener has the current board.
THEOREM UpToDate == Spec => []ListenersUpToDate
<1>1. Init => BoardsOnTheirWay
  BY DEF Init, BoardsOnTheirWay, Listeners
<1>2. BoardsOnTheirWay => ListenersUpToDate
  BY DEF BoardsOnTheirWay, ListenersUpToDate
<1>3. QED
  BY <1>1, <1>2, BoardsStep, TypeCorrect, ListenersAlive, Removals, PTL DEF Spec

-----------------------------------------------------------------------------
(* Roles.                                                                   *)

\* Why a page cannot show a role that its player does not have: a connection shows
\* nothing before it is registered, and who is registered without a number is a
\* spectator for good, since all numbers are given.
RoleInv ==
    /\ PlayersSeeTheirRole
    /\ \A c \in Conns :
          /\ conn[c] \in {"idle", "register"} => uiRole[c] = 0 /\ c \notin fresh
          /\ conn[c] \in {"stream", "unregister"} /\ players[Owner[c]] = 0 => NewPlayerNum = 0

\* The same of one connection.
RoleOK(c) ==
    /\ players[Owner[c]] > 0 => /\ uiRole[c] \in {0, players[Owner[c]]}
                                /\ (conn[c] = "stream" /\ c \in fresh => uiRole[c] # 0)
    /\ conn[c] \in {"idle", "register"} => uiRole[c] = 0 /\ c \notin fresh
    /\ conn[c] \in {"stream", "unregister"} /\ players[Owner[c]] = 0 => NewPlayerNum = 0

LEMMA RolesOfAll == RoleInv <=> \A c \in Conns : RoleOK(c)
BY DEF RoleInv, RoleOK, PlayersSeeTheirRole

\* Once there is no number left there never is one again.
LEMMA NoNumberLeft ==
    ASSUME TypeOK, SeatsAreDense, [Next]_vars, NewPlayerNum = 0
    PROVE  UNCHANGED players
<1>1. ~(Cardinality(Registered) < NumPlayers)
  BY RegisteredFinite DEF NewPlayerNum
<1>2. ASSUME NEW c \in Conns, Register(c) PROVE UNCHANGED players
  <2>1. CASE SinglePlayer /\ Registered = {}
    BY <1>1, <2>1, FS_EmptySet, SinglePlayerAssumption
  <2>2. QED
    BY <1>1, <1>2, <2>1, RegisterSeats
<1>3. QED
  BY <1>2, PlayersChange

\* A connection that stays where it is, and is sent nothing.
LEMMA RoleKept ==
    ASSUME NEW d \in Conns, RoleOK(d), UNCHANGED players, conn'[d] = conn[d],
           uiRole'[d] = uiRole[d], d \in fresh' => d \in fresh
    PROVE  RoleOK(d)'
BY DEF RoleOK, NewPlayerNum, Registered

\* A connection that stays where it is, and is sent event role.
LEMMA RoleShown ==
    ASSUME TypeOK, NEW c \in Conns, RoleOK(c), UNCHANGED <<players, conn>>,
           conn[c] = "stream", NEW role \in Nat, ShowRole(c, role),
           players[Owner[c]] > 0 =>
               role = players[Owner[c]] \/ (role = 0 /\ (c \in fresh' => c \in fresh))
    PROVE  RoleOK(c)'
<1>1. uiRole'[c] = IF uiRole[c] = 0 /\ role > 0 THEN role ELSE uiRole[c]
  BY DEF ShowRole, TypeOK
<1>2. players[Owner[c]] = 0 => NewPlayerNum' = 0
  BY DEF RoleOK, NewPlayerNum, Registered
<1>3. CASE players[Owner[c]] > 0
  BY <1>1, <1>3 DEF RoleOK
<1>4. CASE ~(players[Owner[c]] > 0)
  <2>1. players[Owner[c]] = 0
    BY <1>4, ConnsAssumption DEF TypeOK
  <2>2. QED
    BY <1>2, <2>1 DEF RoleOK
<1>5. QED
  BY <1>3, <1>4

LEMMA RoleStep ==
    ASSUME TypeOK, SeatsAreDense, RoleInv, [Next]_vars, NEW d \in Conns
    PROVE  RoleOK(d)'
<1>0. RoleOK(d) /\ Owner[d] \in Players
  BY RolesOfAll, ConnsAssumption
<1>1. CASE UNCHANGED <<players, conn, uiRole>> /\ fresh' \subseteq fresh
  BY <1>0, <1>1, RoleKept
<1>2. ASSUME NEW c \in Conns, ReturnSse(c), UNCHANGED players PROVE RoleOK(d)'
  <2>1. CASE d = c
    BY <1>2, <2>1 DEF ReturnSse, RoleOK, TypeOK
  <2>2. CASE d # c
    BY <1>0, <1>2, <2>2, RoleKept DEF ReturnSse, TypeOK
  <2>3. QED
    BY <2>1, <2>2
<1>3. ASSUME NEW c \in Conns, OpenSse(c) PROVE RoleOK(d)'
  <2>1. UNCHANGED <<players, uiRole, fresh>> /\ conn[c] = "idle"
        /\ conn' = [conn EXCEPT ![c] = "register"]
    BY <1>3 DEF OpenSse, tableVars, clientVars
  <2>2. CASE d = c
    BY <1>0, <2>1, <2>2 DEF RoleOK, TypeOK
  <2>3. CASE d # c
    BY <1>0, <2>1, <2>3, RoleKept DEF TypeOK
  <2>4. QED
    BY <2>2, <2>3
<1>4. ASSUME NEW c \in Conns, Disconnect(c) PROVE RoleOK(d)'
  <2>1. UNCHANGED <<players, uiRole, fresh>> /\ conn[c] = "stream"
        /\ conn' = [conn EXCEPT ![c] = "unregister"]
    BY <1>4 DEF Disconnect, tableVars, clientVars
  <2>2. CASE d = c
    BY <1>0, <2>1, <2>2 DEF RoleOK, TypeOK, NewPlayerNum, Registered
  <2>3. CASE d # c
    BY <1>0, <2>1, <2>3, RoleKept DEF TypeOK
  <2>4. QED
    BY <2>2, <2>3
<1>5. ASSUME NEW c \in Conns, LastEvent(c) \/ SseGameOver(c) \/ Unregister(c) PROVE RoleOK(d)'
  BY <1>2, <1>5 DEF LastEvent, SseGameOver, Unregister, tableVars
<1>6. ASSUME NEW c \in Conns, Register(c) PROVE RoleOK(d)'
  <2>1. UNCHANGED <<uiRole, fresh>> /\ conn[c] = "register"
        /\ conn' = [conn EXCEPT ![c] = "stream"]
    BY <1>6 DEF Register, clientVars
  <2>2. uiRole[c] = 0 /\ c \notin fresh
    BY <2>1, RolesOfAll DEF RoleOK
  <2>3. CASE UNCHANGED players
    <3>1. CASE d = c
      <4>1. players[Owner[c]] = 0 => NewPlayerNum = 0
        <5> SUFFICES ASSUME players[Owner[c]] = 0, NewPlayerNum # 0 PROVE FALSE
          OBVIOUS
        <5>1. players'[Owner[c]] = NewPlayerNum
          BY <1>6, ConnsAssumption DEF Register
        <5>2. QED
          BY <2>3, <5>1
      <4>2. QED
        BY <2>1, <2>2, <2>3, <3>1, <4>1 DEF RoleOK, TypeOK, NewPlayerNum, Registered
    <3>2. CASE d # c
      BY <1>0, <2>1, <2>3, <3>2, RoleKept DEF TypeOK
    <3>3. QED
      BY <3>1, <3>2
  <2>4. CASE ~UNCHANGED players
    <3>1. NewPlayerNum # 0
      BY <2>4, NoNumberLeft
    <3>2. conn[d] \in {"stream", "unregister"} => players[Owner[d]] > 0
      <4>1. players[Owner[d]] \in Nat
        BY <1>0 DEF TypeOK
      <4>2. QED
        BY <1>0, <3>1, <4>1 DEF RoleOK
    <3>3. players[Owner[d]] > 0 => players'[Owner[d]] = players[Owner[d]]
      BY <1>0, SeatsKept
    <3>4. players'[Owner[c]] > 0
      <4>1. players'[Owner[c]] = IF players[Owner[c]] > 0 THEN players[Owner[c]] ELSE NewPlayerNum
        BY <1>6, ConnsAssumption DEF Register
      <4>2. QED
        BY <3>1, <4>1, NewPlayerNumType, NumPlayersAssumption
    <3>5. CASE d = c
      BY <2>1, <2>2, <3>4, <3>5 DEF RoleOK, TypeOK
    <3>6. CASE d # c
      <4>1. conn'[d] = conn[d]
        BY <2>1, <3>6 DEF TypeOK
      <4>2. CASE conn[d] \in {"idle", "register"}
        BY <1>0, <2>1, <4>1, <4>2 DEF RoleOK
      <4>3. CASE conn[d] \in {"stream", "unregister"}
        BY <1>0, <2>1, <3>2, <3>3, <4>1, <4>3 DEF RoleOK
      <4>4. QED
        BY <4>2, <4>3 DEF TypeOK
    <3>7. QED
      BY <3>5, <3>6
  <2>5. QED
    BY <2>3, <2>4
<1>7. ASSUME NEW r \in Requests, Move(r) \/ Reset(r) PROVE RoleOK(d)'
  BY <1>1, <1>7 DEF Move, Reset, MakeMove, RefuseMove, BoardChanged, tableVars, clientVars
<1>8. CASE CpuMove
  BY <1>1, <1>8 DEF CpuMove, MakeMove, RefuseMove, BoardChanged, tableVars, clientVars
<1>9. CASE SendSingle
  <2>1. UNCHANGED <<players, conn>> /\ fresh' = fresh \cup {single} /\ single \in Conns
        /\ conn[single] = "stream" /\ ShowRole(single, players[Owner[single]])
    BY <1>9 DEF SendSingle, tableVars, TypeOK
  <2>2. CASE d = single
    <3>1. players[Owner[d]] \in Nat
      BY <1>0 DEF TypeOK
    <3>2. QED
      BY <1>0, <2>1, <2>2, <3>1, RoleShown
  <2>3. CASE d # single
    BY <1>0, <2>1, <2>3, RoleKept DEF ShowRole, TypeOK
  <2>4. QED
    BY <2>2, <2>3
<1>10. ASSUME NEW c \in Conns, SendNext(c) PROVE RoleOK(d)'
  <2>1. UNCHANGED <<players, conn>> /\ conn[c] = "stream" /\ ShowRole(c, EventRole(c))
        /\ fresh' = IF msg = "ping" THEN fresh ELSE fresh \cup {c}
    BY <1>10 DEF SendNext, tableVars
  <2>2. CASE d = c
    <3>1. EventRole(c) \in Nat
      BY <1>0, <2>2 DEF TypeOK
    <3>2. CASE msg = "ping"
      BY <1>0, <2>1, <2>2, <3>1, <3>2, RoleShown
    <3>3. CASE msg # "ping"
      BY <1>0, <2>1, <2>2, <3>1, <3>3, RoleShown
    <3>4. QED
      BY <3>2, <3>3
  <2>3. CASE d # c
    <3>1. uiRole'[d] = uiRole[d] /\ (d \in fresh' => d \in fresh)
      BY <2>1, <2>3 DEF ShowRole, TypeOK
    <3>2. QED
      BY <1>0, <2>1, <3>1, RoleKept
  <2>4. QED
    BY <2>2, <2>3
<1>11. QED
  BY <1>1, <1>3, <1>4, <1>5, <1>6, <1>7, <1>8, <1>9, <1>10
  DEF Next, vars, tableVars, clientVars, Post, PostGameOver, RemovalDue, Remove, Tick, AskCpu,
      Return, CpuSuggest, CpuPanic, CpuExit

\* A page of a registered player shows that player's role or none yet, and has been
\* told by the time it has the current board, whoever else the event of a broadcast
\* was written for before.
THEOREM RolesSeen == Spec => []PlayersSeeTheirRole
<1>1. Init => RoleInv
  BY ConnsAssumption DEF Init, RoleInv, PlayersSeeTheirRole
<1>2. TypeOK /\ SeatsAreDense /\ RoleInv /\ [Next]_vars => RoleInv'
  <2> SUFFICES ASSUME TypeOK, SeatsAreDense, RoleInv, [Next]_vars PROVE RoleInv'
    OBVIOUS
  <2>1. \A c \in Conns : RoleOK(c)'
    BY RoleStep
  <2>2. QED
    BY <2>1 DEF RoleInv, RoleOK, PlayersSeeTheirRole
<1>3. RoleInv => PlayersSeeTheirRole
  BY DEF RoleInv
<1>4. QED
  BY <1>1, <1>2, <1>3, TypeCorrect, SeatsDense, PTL DEF Spec

-----------------------------------------------------------------------------
(* The turn of the computer.                                                *)

\* When the game master is at its select or on its way back to it, the CPU player is
\* at work if it is the computer's turn; it is so only after somebody moved.
TurnInv ==
    /\ SinglePlayer /\ master \in {"select", "send"} /\ board.state = "Running" /\ board.turn = 2
           => cpu \in {"think", "send", "panic"}
    /\ board.turn # 1 => Registered # {}

LEMMA MoveTurn ==
    ASSUME TypeOK, TurnInv, UNCHANGED players, NEW id \in Registered, MakeMove(id)
    PROVE  TurnInv'
<1>1. Registered' = Registered /\ Registered # {}
  BY DEF Registered
<1>2. PICK s \in {"Running", "Finished"}, t \in 1..NumPlayers :
          /\ board' = [state |-> s, turn |-> t]
          /\ MustAskCpu(id, s, t) => master' = "askCpu"
  BY DEF MakeMove
<1>3. CASE MustAskCpu(id, s, t)
  BY <1>1, <1>2, <1>3 DEF TurnInv
<1>4. CASE ~MustAskCpu(id, s, t)
  BY <1>1, <1>2, <1>4 DEF TurnInv
<1>5. QED
  BY <1>3, <1>4

LEMMA TurnStep ==
    ASSUME TypeOK, SeatsAreDense, RemovalsAreOfPlayers, TurnInv, [Next]_vars
    PROVE  TurnInv'
<1>1. CASE UNCHANGED <<board, players, cpu>> /\ (master' \in {"select", "send"} => master \in {"select", "send"})
  BY <1>1 DEF TurnInv, Registered
<1>2. ASSUME NEW c \in Conns, Register(c) PROVE TurnInv'
  <2>1. UNCHANGED <<board, cpu>> /\ master = "select"
    BY <1>2 DEF Register, cpuVars
  <2>2. \A p \in Ids : players[p] > 0 => players'[p] > 0
    BY SeatsKept
  <2>3. QED
    BY <2>1, <2>2 DEF TurnInv, Registered
<1>3. ASSUME NEW r \in Requests, Move(r) PROVE TurnInv'
  <2>1. UNCHANGED <<players, cpu>> /\ master = "select"
    BY <1>3 DEF Move, tableVars, cpuVars
  <2>2. CASE RefuseMove
    BY <1>1, <2>1, <2>2 DEF RefuseMove, masterVars
  <2>3. CASE request[r].by \in Registered /\ MakeMove(request[r].by)
    BY <2>1, <2>3, MoveTurn
  <2>4. QED
    BY <1>3, <2>2, <2>3 DEF Move
<1>4. ASSUME NEW r \in Requests, Reset(r) PROVE TurnInv'
  <2>1. UNCHANGED <<players, cpu>> /\ master = "select"
    BY <1>4 DEF Reset, tableVars
  <2>2. CASE request[r].by \in Registered
    <3>1. board'.turn = 1
      BY <1>4, <2>2 DEF Reset, InitialBoard
    <3>2. QED
      BY <3>1 DEF TurnInv
  <2>3. CASE request[r].by \notin Registered
    BY <1>1, <1>4, <2>1, <2>3 DEF Reset
  <2>4. QED
    BY <2>2, <2>3
<1>5. CASE CpuMove
  <2>1. UNCHANGED players /\ cpu = "send" /\ master = "select"
    BY <1>5 DEF CpuMove, tableVars
  <2>2. CASE Comp \in Registered /\ board.state = "Running" /\ players[Comp] = board.turn
    <3>1. MakeMove(Comp)
      BY <1>5, <2>2 DEF CpuMove
    <3>2. QED
      BY <2>1, <2>2, <3>1, MoveTurn
  <2>3. CASE ~(Comp \in Registered /\ board.state = "Running" /\ players[Comp] = board.turn)
    <3>1. board' = board /\ Registered' = Registered
      BY <1>5, <2>1, <2>3 DEF CpuMove, RefuseMove, Registered
    <3>2. ~(SinglePlayer /\ board.state = "Running" /\ board.turn = 2)
      <4> SUFFICES ASSUME SinglePlayer, board.state = "Running", board.turn = 2 PROVE FALSE
        OBVIOUS
      <4>1. Registered # {}
        BY DEF TurnInv
      <4>2. players[Comp] = 2 /\ Comp \in Registered
        BY <4>1 DEF SeatsAreDense, Registered
      <4>3. QED
        BY <2>3, <4>2
    <3>3. QED
      BY <3>1, <3>2 DEF TurnInv
  <2>4. QED
    BY <2>2, <2>3
<1>6. CASE AskCpu
  BY <1>6 DEF AskCpu, tableVars, TurnInv, Registered
<1>7. ASSUME master = "select", UNCHANGED <<board, players, cpu>>
      PROVE  TurnInv'
  BY <1>1, <1>7
<1>8. CASE Tick
  BY <1>7, <1>8 DEF Tick, tableVars, cpuVars
<1>9. ASSUME NEW p \in Players, Remove(p) PROVE TurnInv'
  BY <1>7, <1>9 DEF Remove, tableVars, cpuVars
<1>10. ASSUME NEW c \in Conns, SendNext(c) PROVE TurnInv'
  BY <1>1, <1>10 DEF SendNext, tableVars, cpuVars
<1>11. CASE SendSingle
  BY <1>1, <1>11 DEF SendSingle, tableVars, cpuVars
<1>12. CASE Return
  BY <1>1, <1>12 DEF Return, tableVars, cpuVars
<1>13. CASE CpuSuggest \/ CpuPanic
  BY <1>13 DEF CpuSuggest, CpuPanic, masterVars, tableVars, TurnInv, Registered
<1>14. CASE CpuExit
  BY <1>14 DEF CpuExit, masterVars, tableVars, TurnInv, Registered
<1>15. QED
  BY <1>1, <1>2, <1>3, <1>4, <1>5, <1>6, <1>8, <1>9, <1>10, <1>11, <1>12, <1>13, <1>14
  DEF Next, vars, masterVars, tableVars, cpuVars, OpenSse, Disconnect, LastEvent, SseGameOver,
      Unregister, Post, PostGameOver, RemovalDue

\* The CPU player never sits idle while it is its turn, whatever is reset, refused or
\* moved twice.
THEOREM TurnServed == Spec => []ComputersTurnIsServed
<1>1. Init => TurnInv
  BY DEF Init, InitialBoard, TurnInv
<1>2. TurnInv => ComputersTurnIsServed
  BY DEF TurnInv, ComputersTurnIsServed
<1>3. QED
  BY <1>1, <1>2, TurnStep, TypeCorrect, SeatsDense, Removals, PTL DEF Spec
=============================================================================
