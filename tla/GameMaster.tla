----------------------------- MODULE GameMaster -----------------------------
(***************************************************************************)
(* One running game of the hexz server: the gameMaster goroutine, the SSE  *)
(* and POST handlers that talk to it, the goroutines that remove a player  *)
(* after PlayerRemoveDelay, and the CPU player of a single-player game.    *)
(*                                                                         *)
(* All channels are unbuffered: a send is a step taken together with the   *)
(* receiver, and a goroutine whose peer does not come stays where it is.   *)
(* A channel of server events is named by the handler (Conns) that reads   *)
(* it.  The game engine is reduced to its state and the number whose turn  *)
(* it is; which moves it accepts is left open.                             *)
(***************************************************************************)
EXTENDS Integers, FiniteSets

CONSTANTS
    Players,        \* ids of logged-in players
    Nobody,         \* the empty id of a request that failed authentication
    Comp,           \* id of the computer's player ("comp")
    Conns,          \* SSE handlers: each serves one request at a time
    Owner,          \* the player each SSE handler serves
    NoConn,         \* no channel
    Requests,       \* POST handlers: each serves one request at a time
    Senders,        \* the player ids that POST, Nobody for a failed authentication
    NumPlayers,     \* gameEngine.NumPlayers()
    SinglePlayer,   \* game.singlePlayer
    StartsRunning   \* the engine starts in state Running

ASSUME NumPlayersAssumption == NumPlayers \in Nat \ {0}
ASSUME SinglePlayerAssumption ==
    SinglePlayer \in BOOLEAN /\ (SinglePlayer => NumPlayers = 2)
ASSUME PlayersAssumption ==
    IsFiniteSet(Players) /\ Nobody \notin Players /\ Comp \notin Players /\ Nobody # Comp
ASSUME ConnsAssumption == Owner \in [Conns -> Players] /\ NoConn \notin Conns
ASSUME SendersAssumption == Senders \subseteq Players \cup {Nobody}
ASSUME StartsRunningAssumption == StartsRunning \in BOOLEAN

VARIABLES
    master,         \* where the gameMaster goroutine is
    players,        \* playerNum of each registered player, 0: not registered
    eventListeners, \* the channel of each listener
    playerRmCancel, \* state of the removal goroutine that can be cancelled
    strayRemovals,  \* players with a removal cancelled after its timer fired
    single,         \* channel singlecast has to send to
    rest,           \* channels a broadcast has not sent to yet
    msg,            \* what is being sent: "ping", "board", "over", or "none"
    eRole,          \* Role field of the event a broadcast shares
    board,          \* state and turn of the engine
    conn,           \* where each SSE handler is
    request,        \* the request each POST handler is sending
    cpu,            \* where the CPU player goroutine is
    cpuStale,       \* the board was reset while the CPU player was thinking
    uiRole,         \* the role shown by the page at the end of a connection
    fresh           \* connections that were sent the current board

masterVars == <<master, single, rest, msg, eRole>>
tableVars  == <<players, eventListeners, playerRmCancel, strayRemovals>>
clientVars == <<uiRole, fresh>>
cpuVars    == <<cpu, cpuStale>>
vars == <<masterVars, tableVars, clientVars, cpuVars, board, conn, request>>

Ids == Players \cup {Comp}
Idle == [kind |-> "idle", by |-> Nobody]

\* The board of a new engine, and of an engine after Reset.
InitialBoard == [state |-> IF StartsRunning THEN "Running" ELSE "Initial", turn |-> 1]

Ongoing == master \notin {"closeDone", "gone"}            \* the game is in ongoingGames
Done    == master = "gone"                                \* game.done is closed
Ended   == master \in {"deleteGame", "closeDone", "gone"} \* the listeners are closed

\* The game master has received a removal: it says goodbye and returns.
GameOver == msg = "over" \/ master \in {"closeListeners", "deleteGame", "closeDone", "gone"}

Listeners  == {eventListeners[p] : p \in Players} \ {NoConn}
Registered == {p \in Ids : players[p] > 0}

Init ==
    /\ master = "select"
    /\ players = [p \in Ids |-> 0]
    /\ eventListeners = [p \in Players |-> NoConn]
    /\ playerRmCancel = [p \in Players |-> "none"]
    /\ strayRemovals = {}
    /\ single = NoConn /\ rest = {} /\ msg = "none" /\ eRole = 0
    /\ board = InitialBoard
    /\ conn = [c \in Conns |-> "idle"]
    /\ request = [r \in Requests |-> Idle]
    /\ cpu = IF SinglePlayer THEN "wait" ELSE "off"
    /\ cpuStale = FALSE
    /\ uiRole = [c \in Conns |-> 0]
    /\ fresh = {}

-----------------------------------------------------------------------------
(* SSE handlers (handleSse, registerPlayer, unregisterPlayer, sendEvent)    *)

\* The handler returns; what the page shows starts afresh with the next one.
ReturnSse(c) ==
    /\ conn' = [conn EXCEPT ![c] = "idle"]
    /\ uiRole' = [uiRole EXCEPT ![c] = 0]
    /\ fresh' = fresh \ {c}

\* handleSse looks the game up and blocks in sendEvent(ControlEventRegister).
OpenSse(c) ==
    /\ conn[c] = "idle" /\ Ongoing
    /\ conn' = [conn EXCEPT ![c] = "register"]
    /\ UNCHANGED <<masterVars, tableVars, clientVars, cpuVars, board, request>>

\* The select takes r.Context().Done(): the client has gone, the handler
\* blocks in sendEvent(ControlEventUnregister).
Disconnect(c) ==
    /\ conn[c] = "stream"
    /\ conn' = [conn EXCEPT ![c] = "unregister"]
    /\ UNCHANGED <<masterVars, tableVars, clientVars, cpuVars, board, request>>

\* The event channel is closed: the client gets its last event.
LastEvent(c) ==
    /\ conn[c] = "stream" /\ Ended /\ c \in Listeners
    /\ ReturnSse(c)
    /\ UNCHANGED <<masterVars, tableVars, cpuVars, board, request>>

\* sendEvent takes game.done.
SseGameOver(c) ==
    /\ conn[c] \in {"register", "unregister"} /\ Done
    /\ ReturnSse(c)
    /\ UNCHANGED <<masterVars, tableVars, cpuVars, board, request>>

(* POST handlers.  handleMove and handleReset go on after a failed          *)
(* authentication, with the empty player id.                                *)

Post(r, k, p) ==
    /\ request[r] = Idle /\ Ongoing
    /\ request' = [request EXCEPT ![r] = [kind |-> k, by |-> p]]
    /\ UNCHANGED <<masterVars, tableVars, clientVars, cpuVars, board, conn>>

PostGameOver(r) ==
    /\ request[r] # Idle /\ Done
    /\ request' = [request EXCEPT ![r] = Idle]
    /\ UNCHANGED <<masterVars, tableVars, clientVars, cpuVars, board, conn>>

(* The goroutine that removes player p: its timer wins the select, and it   *)
(* sends on playerRm.                                                       *)
RemovalDue(p) ==
    /\ playerRmCancel[p] = "armed"
    /\ playerRmCancel' = [playerRmCancel EXCEPT ![p] = "due"]
    /\ UNCHANGED <<masterVars, players, eventListeners, strayRemovals, clientVars,
                   cpuVars, board, conn, request>>

-----------------------------------------------------------------------------
(* gameMaster                                                               *)

\* The game master leaves its loop after it has said goodbye.
AfterBroadcastGoOn(m) == "select"   \* mutant: the return is missing
AfterBroadcastAlways(m) ==          \* mutant: a ping ends the game as well
    IF m = "board" THEN "select" ELSE "closeListeners"
AfterBroadcast(m) == IF m = "over" THEN "closeListeners" ELSE "select"

\* broadcast and broadcastPing: to every listener, in any order.
Broadcast(m, targets) ==
    /\ rest' = targets /\ eRole' = 0
    /\ master' = IF targets # {} THEN "send" ELSE AfterBroadcast(m)
    /\ msg' = IF targets # {} THEN m ELSE "none"

\* The board has changed: nobody has seen it yet.
BoardChanged == fresh' = {}

\* The number a new player gets, 0 for a spectator; the computer is always 2.
NewPlayerNumOffByOne == \* mutant: one player too many
    IF Cardinality(Registered) <= NumPlayers THEN Cardinality(Registered) + 1 ELSE 0
NewPlayerNumTwice ==    \* mutant: forgets the players before
    IF Cardinality(Registered) < NumPlayers THEN 1 ELSE 0
NewPlayerNum ==
    IF Cardinality(Registered) < NumPlayers THEN Cardinality(Registered) + 1 ELSE 0

\* The players after player p registered.
SeatsAnew(p) ==         \* mutant: a player who reconnects is taken for a new one
    [q \in Ids |-> IF q = p THEN NewPlayerNum ELSE players[q]]
SeatsWith(p) ==
    [q \in Ids |->
        IF players[p] > 0 THEN players[q]
        ELSE IF q = p THEN NewPlayerNum
        ELSE IF q = Comp /\ SinglePlayer /\ NewPlayerNum > 0 THEN 2
        ELSE players[q]]

\* close(cancel), which does not stop a goroutine already sending on playerRm.
CancelRemoval(p) ==
    /\ playerRmCancel' = [playerRmCancel EXCEPT ![p] = "none"]
    /\ strayRemovals' = IF playerRmCancel[p] = "due" THEN strayRemovals \cup {p}
                        ELSE strayRemovals

\* go func(playerId string), unless the player is being removed already.
ScheduleAnyRemoval(p) ==    \* mutant: also for spectators
    playerRmCancel' = IF playerRmCancel[p] = "none"
                      THEN [playerRmCancel EXCEPT ![p] = "armed"] ELSE playerRmCancel
ScheduleAloneOnly(p) ==     \* mutant: not while somebody else is listening
    playerRmCancel' = IF playerRmCancel[p] = "none" /\ players[p] > 0 /\ Listeners = {}
                      THEN [playerRmCancel EXCEPT ![p] = "armed"] ELSE playerRmCancel
ScheduleRemoval(p) ==
    playerRmCancel' = IF playerRmCancel[p] = "none" /\ players[p] > 0
                      THEN [playerRmCancel EXCEPT ![p] = "armed"] ELSE playerRmCancel

\* delete(eventListeners, playerId)
KeepListener(p) == UNCHANGED eventListeners     \* mutant: not deleted
DropListener(p) == eventListeners' = [eventListeners EXCEPT ![p] = NoConn]

Register(c) ==
    LET p == Owner[c] IN
    /\ master = "select" /\ conn[c] = "register"
    /\ players' = SeatsWith(p)
    /\ IF players[p] > 0 THEN CancelRemoval(p) ELSE UNCHANGED <<playerRmCancel, strayRemovals>>
    /\ eventListeners' = [eventListeners EXCEPT ![p] = c]
    /\ conn' = [conn EXCEPT ![c] = "stream"]     \* e.replyChan <- ch
    /\ single' = c
    /\ Broadcast("board", (Listeners \ {eventListeners[p]}) \cup {c})
    /\ UNCHANGED <<clientVars, cpuVars, board, request>>

Unregister(c) ==
    LET p == Owner[c] IN
    /\ master = "select" /\ conn[c] = "unregister"
    /\ ReturnSse(c)
    /\ DropListener(p)
    /\ ScheduleRemoval(p)
    /\ UNCHANGED <<masterVars, players, strayRemovals, cpuVars, board, request>>

\* MakeMove refuses the move, or plays it and computes whose turn it is next
\* and whether the game is over.
AskAfterHumanMove(id, s, t) ==  \* mutant: forgets a second move of the computer
    SinglePlayer /\ t # 1 /\ s # "Finished" /\ id # Comp
MustAskCpu(id, s, t) == SinglePlayer /\ t # 1 /\ s # "Finished"

MakeMove(id) ==
    /\ players[id] = board.turn
    /\ \E s \in {"Running", "Finished"}, t \in 1..NumPlayers :
          /\ board' = [state |-> s, turn |-> t]
          /\ IF MustAskCpu(id, s, t)
             THEN /\ master' = "askCpu"          \* cpuCh <- tok{}
                  /\ UNCHANGED <<single, rest, msg, eRole>>
             ELSE Broadcast("board", Listeners) /\ UNCHANGED single
    /\ BoardChanged /\ UNCHANGED uiRole

RefuseMove == UNCHANGED <<masterVars, clientVars, board>>

Move(r) ==
    LET id == request[r].by IN
    /\ master = "select" /\ request[r].kind = "move"
    /\ request' = [request EXCEPT ![r] = Idle]
    /\ \/ RefuseMove
       \/ id \in Registered /\ board.state = "Running" /\ MakeMove(id)
    /\ UNCHANGED <<tableVars, cpuVars, conn>>

\* The CPU player's move; SuggestMove reads the move number when it returns,
\* so it is refused only if it is not the computer's turn any more.
CpuSendsOnTurn == master = "select" /\ cpu = "send" /\ board.turn = 2 \* mutant
CpuSends == master = "select" /\ cpu = "send"

CpuMove ==
    /\ CpuSends
    /\ cpu' = "wait" /\ UNCHANGED cpuStale
    /\ IF Comp \in Registered /\ board.state = "Running" /\ players[Comp] = board.turn
       THEN MakeMove(Comp) ELSE RefuseMove
    /\ UNCHANGED <<tableVars, conn, request>>

AskCpuSilently ==   \* mutant: asks the CPU player instead of telling everybody
    /\ master = "askCpu" /\ cpu = "wait"
    /\ cpu' = "think" /\ cpuStale' = FALSE /\ master' = "select"
    /\ UNCHANGED <<single, rest, msg, eRole, tableVars, clientVars, board, conn, request>>
AskCpu ==
    /\ master = "askCpu" /\ cpu = "wait"
    /\ cpu' = "think" /\ cpuStale' = FALSE
    /\ Broadcast("board", Listeners)
    /\ UNCHANGED <<single, tableVars, clientVars, board, conn, request>>

Reset(r) ==
    LET id == request[r].by IN
    /\ master = "select" /\ request[r].kind = "reset"
    /\ request' = [request EXCEPT ![r] = Idle]
    /\ IF id \in Registered
       THEN /\ board' = InitialBoard
            /\ cpuStale' = (cpu = "think")
            /\ BoardChanged
            /\ Broadcast("board", Listeners)
       ELSE UNCHANGED <<master, rest, msg, eRole, board, cpuStale, fresh>>
    /\ UNCHANGED <<single, tableVars, uiRole, cpu, conn>>

\* time.After(5 * time.Second)
Tick ==
    /\ master = "select" /\ Listeners # {}
    /\ Broadcast("ping", Listeners)
    /\ UNCHANGED <<single, tableVars, clientVars, cpuVars, board, conn, request>>

\* A removal goroutine gets through to playerRm.
Remove(p) ==
    /\ master = "select"
    /\ \/ /\ playerRmCancel[p] = "due"
          /\ playerRmCancel' = [playerRmCancel EXCEPT ![p] = "sent"]
       \/ p \in strayRemovals /\ UNCHANGED playerRmCancel
    /\ Broadcast("over", Listeners)
    /\ UNCHANGED <<single, players, eventListeners, strayRemovals, clientVars, cpuVars, board, conn, request>>

\* What the page does with the role of an event (game.html, onmessage).
ShowRole(c, role) ==
    uiRole' = [uiRole EXCEPT ![c] = IF @ = 0 /\ role > 0 THEN role ELSE @]

\* The role in the event that is sent to a new listener alone.
SingleRoleUnset(c) == 0     \* mutant: only broadcast sets the role
SingleRole(c) == players[Owner[c]]

SendSingle ==
    /\ master = "send" /\ single # NoConn /\ conn[single] = "stream"
    /\ ShowRole(single, SingleRole(single))
    /\ fresh' = fresh \cup {single}
    /\ single' = NoConn
    /\ UNCHANGED <<master, rest, msg, eRole, tableVars, cpuVars, board, conn, request>>

\* The role in the event that is sent to connection c.
EventRole(c) ==
    IF msg = "ping" THEN 0 ELSE IF players[Owner[c]] > 0 THEN players[Owner[c]] ELSE eRole

\* The event is shared by all sends of a broadcast: its Role is overwritten
\* for players and left as it is for spectators.
SendNext(c) ==
    /\ master = "send" /\ single = NoConn /\ c \in rest /\ conn[c] = "stream"
    /\ ShowRole(c, EventRole(c))
    /\ fresh' = IF msg = "ping" THEN fresh ELSE fresh \cup {c}
    /\ rest' = rest \ {c}
    /\ IF rest # {c} THEN eRole' = EventRole(c) /\ UNCHANGED <<master, msg>>
       ELSE eRole' = 0 /\ master' = AfterBroadcast(msg) /\ msg' = "none"
    /\ UNCHANGED <<single, tableVars, cpuVars, board, conn, request>>

\* The deferred calls, last one first: close(cpuCh) and close(ch) for every
\* listener, deleteGame, close(game.done).
NextDeferNotDone(m) ==  \* mutant: game.done is never closed
    CASE m = "closeListeners" -> "deleteGame" [] OTHER -> "closeDone"
NextDefer(m) ==
    CASE m = "closeListeners" -> "deleteGame"
      [] m = "deleteGame" -> "closeDone"
      [] m = "closeDone" -> "gone"

Return ==
    /\ master \in {"closeListeners", "deleteGame", "closeDone"}
    /\ master' = NextDefer(master)
    /\ UNCHANGED <<single, rest, msg, eRole, tableVars, clientVars, cpuVars, board, conn,
                   request>>

-----------------------------------------------------------------------------
(* The CPU player (cpuPlayer, MCTS.SuggestMove)                             *)

CpuSuggest ==
    /\ cpu = "think" /\ cpu' = "send"
    /\ UNCHANGED <<cpuStale, masterVars, tableVars, clientVars, board, conn, request>>

\* SuggestMove clones the live engine in every iteration: after a reset, the
\* moves of its tree fail, and the process panics.
CpuPanic ==
    /\ cpu = "think" /\ cpuStale /\ cpu' = "panic"
    /\ UNCHANGED <<cpuStale, masterVars, tableVars, clientVars, board, conn, request>>

\* range req ends when cpuCh is closed.
CpuExit ==
    /\ cpu = "wait" /\ Ended /\ cpu' = "off"
    /\ UNCHANGED <<cpuStale, masterVars, tableVars, clientVars, board, conn, request>>

-----------------------------------------------------------------------------
Next ==
    /\ cpu # "panic"
    /\ \/ \E c \in Conns :
            \/ OpenSse(c) \/ Disconnect(c) \/ LastEvent(c) \/ SseGameOver(c)
            \/ Register(c) \/ Unregister(c) \/ SendNext(c)
       \/ \E r \in Requests :
            \/ \E k \in {"move", "reset"}, p \in Senders : Post(r, k, p)
            \/ PostGameOver(r) \/ Move(r) \/ Reset(r)
       \/ \E p \in Players : RemovalDue(p) \/ Remove(p)
       \/ Tick \/ SendSingle \/ AskCpu \/ CpuMove \/ Return
       \/ CpuSuggest \/ CpuPanic \/ CpuExit

Spec == Init /\ [][Next]_vars

(* Fairness.  Goroutines are scheduled fairly, so a step that only its      *)
(* goroutine can take, or a rendezvous both sides wait for, happens (weak   *)
(* fairness).  The select of the game master picks at random among the      *)
(* channels that are ready, and a channel serves its blocked senders first  *)
(* come first served, so a sender that waits is served even though the      *)
(* master is not always at its select (strong fairness).  Clients need not  *)
(* connect, disconnect or send anything.                                    *)
Fairness ==
    /\ \A c \in Conns :
          /\ WF_vars(LastEvent(c)) /\ WF_vars(SseGameOver(c)) /\ WF_vars(SendNext(c))
          /\ SF_vars(Register(c)) /\ SF_vars(Unregister(c))
    /\ \A r \in Requests : WF_vars(PostGameOver(r)) /\ SF_vars(Move(r) \/ Reset(r))
    /\ \A p \in Players : WF_vars(RemovalDue(p)) /\ SF_vars(Remove(p))
    /\ WF_vars(SendSingle) /\ WF_vars(AskCpu) /\ WF_vars(Return) /\ WF_vars(Tick)
    /\ WF_vars(CpuSuggest) /\ SF_vars(CpuMove) /\ WF_vars(CpuExit)

FairSpec == Spec /\ Fairness

-----------------------------------------------------------------------------
TypeOK ==
    /\ master \in {"select", "send", "askCpu", "closeListeners", "deleteGame",
                   "closeDone", "gone"}
    /\ players \in [Ids -> 0..NumPlayers]
    /\ eventListeners \in [Players -> Conns \cup {NoConn}]
    /\ playerRmCancel \in [Players -> {"none", "armed", "due", "sent"}]
    /\ strayRemovals \subseteq Players
    /\ single \in Conns \cup {NoConn} /\ rest \subseteq Conns
    /\ msg \in {"none", "ping", "board", "over"} /\ eRole \in 0..NumPlayers
    /\ board \in [state : {"Initial", "Running", "Finished"}, turn : 1..NumPlayers]
    /\ conn \in [Conns -> {"idle", "register", "stream", "unregister"}]
    /\ request \in [Requests -> [kind : {"idle", "move", "reset"},
                                  by : Players \cup {Nobody}]]
    /\ cpu \in {"off", "wait", "think", "send", "panic"} /\ cpuStale \in BOOLEAN
    /\ uiRole \in [Conns -> 0..NumPlayers] /\ fresh \subseteq Conns

\* The numbers of the registered players are 1..len(players), each given once:
\* playerNames indexes its slice by playerNum-1 (server.go:367-373) and panics
\* or shows the wrong name otherwise, whoever joins, reconnects or watches.
\* The computer is 2 in a single-player game (server.go:438-441).
SeatsAreDense ==
    /\ \A p, q \in Registered : players[p] = players[q] => p = q
    /\ {players[p] : p \in Registered} = 1..Cardinality(Registered)
    /\ players[Comp] = IF SinglePlayer /\ Registered # {} THEN 2 ELSE 0

\* Until the game ends, the game master only holds channels whose handler will
\* still read them or is about to unregister: it never blocks for good on a
\* channel (ch <- e, server.go:379, 400, 408) whose handler has returned.
ListenersHaveHandlers ==
    ~Ended => \A p \in Players : eventListeners[p] # NoConn =>
        /\ Owner[eventListeners[p]] = p
        /\ conn[eventListeners[p]] \in {"stream", "unregister"}

\* Removals are scheduled for registered players only, one that got through is
\* the end of the game, and the game master is between two events exactly when
\* it has nothing left to send (server.go:463-476, 525-535).
RemovalsAreOfPlayers ==
    /\ \A p \in Players : playerRmCancel[p] # "none" => players[p] > 0
    /\ \A p \in Players : playerRmCancel[p] = "sent" => GameOver
    /\ master = "send" <=> msg # "none"

\* Whenever the game master waits for the next event, every listener has been
\* sent the current board: no accepted move, reset or registration is followed
\* by a partial broadcast (server.go:382-402, 488-508, 517-521).
ListenersUpToDate ==
    master = "select" => Listeners \subseteq fresh

\* A registered player none of whose connections is left is scheduled for
\* removal, in whatever order their connections registered and unregistered
\* (server.go:427-433, 456-476): no abandoned game stays on the server.
AbandonedPlayerIsScheduled ==
    \A p \in Players :
        (players[p] > 0 /\ \A c \in Conns : Owner[c] = p => conn[c] = "idle")
            => Ended \/ playerRmCancel[p] # "none"

\* A page that belongs to a registered player never shows another player's
\* role, although the Role field of a broadcast is shared (server.go:389-401).
PlayersSeeTheirRole ==
    \A c \in Conns : players[Owner[c]] > 0 =>
        /\ uiRole[c] \in {0, players[Owner[c]]}
        /\ (conn[c] = "stream" /\ c \in fresh => uiRole[c] # 0)

\* A player keeps their number for the whole game, across reconnects.
SeatsAreStable ==
    [][\A p \in Ids : players[p] > 0 => players'[p] = players[p]]_players

\* Something the game master is sending is not going to be received: the
\* handler it waits for waits for the game master, or the CPU player does.
Wedged ==
    \/ /\ master = "send"
       /\ IF single # NoConn THEN conn[single] = "unregister"
          ELSE \E c \in rest : conn[c] = "unregister"
    \/ master = "askCpu" /\ cpu # "wait"

\* In a single-player game it is never the computer's turn while the CPU player
\* sits idle: every accepted move that leaves the turn to the computer asks it
\* (server.go:503-506), also after a reset or when it has to move twice.
ComputersTurnIsServed ==
    (SinglePlayer /\ master = "select" /\ board = [state |-> "Running", turn |-> 2])
        => cpu \in {"think", "send", "panic"}

\* A player who left and does not come back is removed, and the game ends
\* (server.go:463-476, 525-535), unless the game master is wedged.
RemovalHappens ==
    \A p \in Players : playerRmCancel[p] = "armed" ~>
        (playerRmCancel[p] = "none" \/ Ended \/ Wedged)

\* Every POST and every new SSE connection gets through to the game master or
\* is turned away when the game is over (sendEvent, server.go:252-259), unless
\* the game master is wedged.
RequestsAreAnswered ==
    /\ \A r \in Requests : request[r] # Idle ~> (request[r] = Idle \/ Wedged)
    /\ \A c \in Conns : conn[c] = "register" ~> (conn[c] # "register" \/ Wedged)

\* Once asked, the CPU player answers and its answer reaches the game master
\* (server.go:312-332), unless the process panics, the game master is wedged or
\* the game ends first.
ComputerMoves ==
    cpu = "think" ~> (cpu \in {"wait", "panic"} \/ Ended \/ Wedged)

-----------------------------------------------------------------------------
(* What a game promises its players, whatever the order of the events       *)
(* (GameSession), and the session a state of the game master stands for.    *)
HumanSeats  == IF SinglePlayer THEN 1 ELSE NumPlayers
HumanNum    == [p \in Players |-> players[p]]
StayedAway  == strayRemovals \cup {p \in Players : playerRmCancel[p] \in {"due", "sent"}}

Session == INSTANCE GameSession WITH
    Capacity <- HumanSeats, seat <- HumanNum, absent <- StayedAway, over <- GameOver

\* The game master implements the session: seats are given in order and for
\* good, and the game only ends after a registered player stayed away for
\* PlayerRemoveDelay (server.go:345-538).
SessionSpec == Session!Spec

-----------------------------------------------------------------------------
(* What comments of the code say and the program does not do.               *)

\* server.go:464-465 "Don't remove them immediately as they might just be
\* reloading their page and rejoin soon.": a player who has rejoined, and is
\* connected, is not scheduled for removal.
ConnectedPlayersStay ==
    \A c \in Conns : conn[c] = "stream" => playerRmCancel[Owner[c]] = "none"

\* server.go:464 "Remove player after timeout."
RemovalAfterTimeout ==
    \A p \in Players : playerRmCancel[p] = "armed" ~> (playerRmCancel[p] = "none" \/ Ended)

\* mcts.go:188-189: the tree search asserts that its moves can be made.
SearchDoesNotPanic == cpu # "panic"
=============================================================================
