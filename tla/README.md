# Verification of the hackz programs

TLA+ models of the programs in `dnswlt/hackz`, model-checked with TLC and, where
noted, proved with TLAPS. The repository is a collection of small programs. The
largest is **hexz**, a multi-player game server on a hexagonal board: its games,
two of its engines, its computer player, its logins and its statistics are modelled. Of the
others, **solaz** (a message receiver) and **network-performance** (a measurement over
TCP) have state and an order of events worth a model.

## 1. The system

### hexz (`src/hexz`)

| Component | State | Operations | Hard because |
|---|---|---|---|
| Game master (`server.go:346-538`), one goroutine per game | registered players and their numbers, listener channels, pending removals, the engine | register / unregister a connection, move, reset, ping, remove a player, return | every channel is unbuffered; it talks to SSE handlers, POST handlers, removal goroutines and a CPU player that also talk to it |
| SSE and POST handlers (`server.go:222-271, 740-839`) | where each request is | open, stream, disconnect; move, reset | a client may leave at any moment, a page may be reloaded or open twice |
| CPU player (`server.go:305-343`, `mcts.go`) | asked / thinking / sending | suggest a move by tree search | it reads the live engine while the game master changes it |
| Flagz engine (`flagz.go`, `engine.go`) | board, scores, flags, and incremental counters | reset, make move, random move, winner | every move adjusts counters that are never recounted |
| Classic engine (`classic.go`) | board with hidden moves, lifetimes, resources | make move, reveal, fire, pest, death, area capture | interplay of reveal, lifetime and score |
| Freeform engine (`freeform.go`) | board | make move | - |
| Tree search (`mcts.go`) | search tree: counts, wins, done flags, live children | expand, descend, random game, propagate | done flags must be propagated consistently or it panics |
| Logins and user database (`server.go:192-220, 627-654, 993-1078`) | logged-in players, saved file | log in, look up, expire, save, load | two lock phases, truncate-then-write |
| Game registry (`server.go:286-303, 540-599, 673-715`) | ongoing games | start, look up, delete, list | id collisions, games that end while looked up |
| Statistics (`stats.go`, `server.go:93-133, 898-971`) | counters, distributions | increment, add, report | two locks and one per counter, a report made of values read at different times |

They interact through channels (`controlEvent`, `playerRm`, `cpuCh`, `done`, one
event channel per listener), through the mutex-protected maps of `Server`, and
through the engine, which the game master owns and the CPU player reads.

### The other programs

| Program | State | Operations | Hard because |
|---|---|---|---|
| solaz (`solace.go`, `topic_match.go`, `config.go`, `solaz.go`) | profile, index of topic patterns, counts by topic, deadline | load a profile, receive, decode or count, time out, finish | overlapping patterns, a loop that may end in five ways |
| network-performance (`netw.py`) | one session at a time on the server | measure throughput, measure latency, shut down | ends must take turns; short reads, ends of streams, timeouts |
| rpz | a map behind a mutex; counters | item services, a database benchmark, counters | - |
| discoverz | - | answer a datagram, print answers | - |
| gosql | - | experiments with transactions of a database | isolation levels of the database |
| binz | - | first-fit packing of pods onto nodes | - |

The rest are single-file scripts, drawings and converters without state worth a
model. The programs share nothing with each other.

What makes each component correct is listed per hazard in `PROJECT.json`; for the
modelled components see section 3.

## 2. Plan

| # | Module | Models | Status |
|---|---|---|---|
| 1 | `GameMaster`, `GameSession`, `GameMasterProofs`, `MCGameMaster` | one running game and what it promises | checked and proved |
| 2 | `HexBoard`, `Flagz`, `FlagzProofs`, `MCFlagz`; `Sums`, `SumsProofs` | board geometry, Flagz engine; sums over finite sets | checked and proved |
| 3 | `Classic` on `HexBoard`, `ClassicProofs`, `MCClassic` | hidden moves, reveal, fire, pest, death, area capture; score and reveal order | checked and proved, the captured areas only checked |
| 4 | `Mcts`, `Statistics`, composed by `CpuPlayer`, `CpuPlayerProofs`, `MCCpuPlayer` | tree search; counters and their report; the goroutine that searches, moves and records | checked and proved |
| 5 | `Logins`, `LoginsProofs`, `MCLogins` | logins, maintenance in two critical sections, user database, crash and restart | checked and proved |
| 6 | `TopicTypes`, `Receiver` on it, `ReceiverProofs`, `MCReceiver` | topic patterns and their index; a run of solaz | checked and proved |
| 7 | `Netw`, `NetwProofs`, `MCNetw` | both ends of a measurement, the server loop | checked and proved |
| 8 | composition of an engine and `GameMaster` | requests in flight at a death piece or a reset | open |

Abstract specifications: `GameSession`, which `GameMaster` implements;
`Found` and `MayTie` in `TopicTypes`, which say without scores or any order what `Lookup`
may find. A game
with turns and an end, that `Flagz` and `Classic` implement and that replaces the
open engine of `GameMaster`, belongs to row 8.
Liveness stays with TLC throughout.

## 3. What is modelled

### GameMaster: one running game

One game of the server as a composition of goroutines:

| Model | Code |
|---|---|
| `master` | where `gameMaster` is: at its `select`, sending a broadcast, sending to `cpuCh`, or in one of its deferred calls |
| `players`, `eventListeners`, `playerRmCancel` | the maps of the same names; a listener channel is named by the connection that reads it |
| `strayRemovals` | removal goroutines that were cancelled after their timer had fired: they stay blocked in `playerRm <- playerId` |
| `single`, `rest`, `msg`, `eRole` | what a `singlecast`/`broadcast` has yet to send and the `Role` field of the event shared by its sends |
| `board` | state and turn of the engine; whether a move is accepted, and what it leads to, is open |
| `conn`, `request` | where each SSE handler is (`handleSse`), what each POST handler is sending |
| `cpu`, `cpuStale` | the CPU player goroutine, and whether the board was reset under its search |
| `uiRole`, `fresh` | observers: the role the page shows (`game.html:177-200`), the connections that were sent the current board |

A send on an unbuffered channel is one step with its receiver; a send whose
receiver is elsewhere waits. `broadcast` iterates over a Go map, so any order is
possible. `Register`, `Unregister`, `Move`, `Reset`, `Tick`, `Remove` are the
cases of the select; `Return` takes the deferred calls one by one (listeners and
`cpuCh` closed, game deleted, `done` closed). `Post` uses the empty id for a
request whose authentication failed, because `handleMove` and `handleReset` carry
on after reporting the error (`server.go:742, 766`).

`GameSession` is what a game promises its players: seats are given in order and
for good, and it ends only after a seated player has stayed away. `absent`
includes stray removals: a player who came back in the last moment counts as
having stayed away, because the code ends the game (`server.go:430` closes a
channel nobody listens to any more).

Properties: `SeatsAreDense` (playerNames never indexes out of range),
`SeatsAreStable`, `ListenersHaveHandlers` (the game master never holds a channel
whose handler has returned), `RemovalsAreOfPlayers`, `AbandonedPlayerIsScheduled`
(no abandoned game stays), `ListenersUpToDate` (no broadcast is partial),
`PlayersSeeTheirRole`, `ComputersTurnIsServed`, `SessionSpec` (refinement), and the
liveness properties `RemovalHappens`, `RequestsAreAnswered`, `ComputerMoves`.

Fairness (`FairSpec`). Go schedules runnable goroutines, so a step that depends on
one goroutine, or a rendezvous both sides are waiting for, has weak fairness. The
`select` of the game master picks at random among ready cases, and senders blocked
on one channel are served in order, so an event that waits for the select has
strong fairness. Timers fire. Clients owe nothing: connecting, disconnecting and
posting have no fairness. A client that stays connected is assumed to read its
stream; the case of a handler that has left its select is modelled, and called
`Wedged` where a liveness property has to except it.

### HexBoard and Flagz: the engine

`HexBoard` gives cells and neighbours of the board (`makeFields`, `valid`,
`neighbors`) for any number of rows and columns.

`Flagz` has the board (`field`, `nextVal`), turn, move number, score, flags, state
and the counters `freeCells` and `normalMoves`. `Blocked[p]` is not a variable: it
is true exactly where `NextVal[p]` is -1. The visibility and lifetime of a cell
are constant in this game and left out. `MakeMove` starts a move, one
`UpdateNeighborCell` is one round of the loop in `updateNeighborCells` (its recursion
adds the neighbours of the collected grass to `todo`), `FinishMove` is the tail of
`MakeMove` with `recomputeState`. No other step is possible in between. The code
visits depth first; the model visits in every order, so what is shown holds for
the code's order too. A board that `PopulateInitialCells` may leave is a member of
`Layouts`; its tries that hit an occupied cell are covered by layouts with fewer
rocks or less grass (`IsLayout`).

`MakeMove` in the code does not ask whether the game is over; its callers do. The
model keeps this, and uses it: moves made after the end must not change the winner
(`WinnerIsFinal`), which is the justification of the early end in
`recomputeState`.

Properties: `CountersMatchBoard`, `NextValMatchesBoard`, `ScoreMatchesBoard`,
`GrassIsCollected`, `RandomMoveIsLegal` (the panic in `RandomMove` and `rnd.Intn(0)`
are unreachable, and the tree search always has a next move), `WinnerIsFinal`.

### Classic: the other engine

`Classic` has the board (type, owner, hidden, lifetime of each cell), turn, move
number, the move of the last reveal, score, state and the pieces left. Unlike in
Flagz a move is one step: its four kinds `Collide` (two hidden moves meet), `Kill`
(a death piece on a cell that is taken), `Fire` and `Occupy` make a new board and
leave the rest, in the order of the code, to `Conclude`: use up the piece, pass the
turn, reveal, let pest spread, clear old special cells, compute the score, and
end the game when no cell is free. Boards are functions from cells to fields, and
the effects are operators on boards; `\E b \in {...}` only names a board. Flood fill
is `Area`, the cells reachable through free cells; of two areas of the same size
the one found first, by direction, is taken, as in the code.

Properties: `HiddenSinceReveal` (the counter that triggers a reveal matches the
hidden cells), `LooksFreeIsPlayable` (with the view of `ViewFor`: a running game
never lacks a move, and a move on a cell that looks free is never refused),
`PiecesStay` (nothing vanishes but by fire, death, pest), `AreasAreCapturedWhole`.
As in Flagz, the engine accepts moves after the end, and in Classic they can change the
score: a death piece still kills. The game master does not make them (`server.go:479`).

### Mcts, Statistics and CpuPlayer: the computer player

`Mcts` is `SuggestMove`. A node is the sequence of moves that leads to it, so
`children`, `r`, `c` and `cellType` of `mcNode` need no variables; `count`, `wins`
(in half points), `done` and `liveChildren` are those of the code. `run` is recursive:
`at` is the node whose call is active, `Descend` calls, `Expand` and `LastMove` end
the descent, `Unwind` returns one call. Which of the live children has the highest
UCT value is open, except that children never played come first. `FlagSamples` is
any choice of flag positions of the right number. The engine is given by operators
(`Over`, `Turn`, `Winner`, moves), and its random games by their possible `Outcomes`.
The time may be over before any batch but the first.

`Statistics` has the counters and distributions of the computer players. A counter is
looked up under `countersMut` (`FindCounter`) and incremented under its own lock
(`Increment`), a distribution is added to in one step; `/statusz` reads counters one by
one in the order of a map, then copies the distributions.

`CpuPlayer` composes both: the goroutine takes a request, searches, sends, and
records step by step, while a computer player of another game records and reports
are made. A search shares nothing with the others before its move is sent, so its
steps commute with theirs, and the model lets it run only while they are quiet. What
happens when the board changes under a search is part of `GameMaster`.

Properties: `LiveChildrenCounted` (a descent always finds a child), `CountsAddUp` (no
game is lost or counted twice on the way back, whatever flags changed on it),
`SureWinIsSuggested` (a full exploration finds a move that wins whatever follows),
`SearchEnds` (without a time limit, too), `ReportIsConsistent`.

### Logins: players, sessions and the user database

`loggedIn` is the map of logged-in players with their `LastActive`; `maint` is where
`updateLoggedInPlayers` is. `Sweep` and `CopyPlayers` are its critical sections;
`Wake` reads the clock before the first one, and requests come between any two of them.
`CreateFile` truncates the file, `EncodeFile` fills it, and both may fail. `Crash`
ends the process at any point, `Restart` loads what can be decoded. The maintenance
may wake at any time, which covers both of its periods. Every reading of the clock
is later than the one before, and a cookie expires counted from the server's reading.

Properties: `SessionsLast` (nobody is logged out within `LoginTtl` of the last
request, or, after a crash, of the last saved one), `CrashLosesOnlyLatest` (what the file
has between two iterations), `LoginLimit` (one more than `maxLoggedInPlayers`, in
memory and on file).

### TopicTypes and Receiver: a run of solaz

`TopicTypes` has patterns as sequences of segments, `Matches` and `Specificity` of
`topic_match.go`, and the index as any order that `sort.Slice` may produce (`Indexes`).
`Lookup` is the scan with its early end. What it is for is said without the scores, by
what patterns match: `Refines(p, q)` holds when `p` is a case of `q`, level by level;
`Found` has the types of the matching patterns that no other one is a case of, `MayTie`
says when there may be a tie instead.

`Receiver` is a run: `LoadProfile` with every check of the configuration in the order
of the code, templates expanded (`Expansions`: when two become the same pattern, either
type may stay), then `Run`: connect, receive with the smaller of `--timeout` and the
time that remains, handle, until the count, the deadline or a failure. Messages,
failures of the broker and of the protobuf library are open. A receive with a negative
timeout waits for ever, as in the library's interface (`waitTill = 0`). Timers fire on time, and
nothing passes between the computation of a timeout and the receive. Variables have
one segment as their value.

Properties: `LookupIsMostSpecific` (the answer is in `Found`, or a tie that `MayTie`
allows, and the same for every order of the index), `DeadlineIsKept` (a timeout at the
deadline is the regular end, one before it an error after a whole `--timeout`; a negative
`--timeout` is excepted), `NothingIsLost` (each message received is in the output or the
totals, with the type of the highest precedence, unless it is the one the run failed
on). Which of two patterns wins that are no cases of one another is left to the score of
the code; the order that solaz's README describes is proved not to hold (section 5).

### Netw: both ends of a measurement

Each process has a script of sends and receives (`todo`), made from what the client
asks for: `ClientScript` follows `run_throughput`, `run_latency` and `run_shutdown`,
`ServerScript` the branches of `run_server`. What is sent is a token, and a stream holds
`Capacity` of them. A loop that receives until it has everything takes whatever
comes; the single receives of the command and of `DONE` may get a part of it, or
nothing at the end of the stream. A number that arrives in two parts is garbled
(`recv_int64` reads the second part to the start of its buffer), so `RecvParams` may
continue with any other session, a loop, or a measurement of no pings. Closing with
unread data, or sending to a closed end, resets the connection; a blocked process
times out; clients may be killed at any point. The number of messages is the same in
both directions.

Properties: `DoneMeansReceived`, `NeverBothWaiting` (in a session without faults no
timeout is needed, however little the streams hold), `ServerIsFreeAgain` (liveness).

## 4. Runs

| Run | Instance | Shows |
|---|---|---|
| `gm_table` | 3 users, 4 connections (one user has two), 2 seats, no POSTs; 1.2 million states | the safety properties of the table and the refinement of `GameSession`, with every interleaving of reloads, two tabs, spectators, pings, timers and the end |
| `gm_cpu` | 1 user, 1 connection, 1 POST handler (moves and resets), CPU player; 5,430 states, `FairSpec` | the CPU player's protocol and the liveness properties |
| `flagz` | 9 cells (rows of 5 and 4), 3 layouts with rocks and chained grass, 2 flags each, values up to 2; 334,000 states | every game, including moves after its end and resets |
| `classic` | 5 cells (rows of 3 and 2), one special piece of each kind per player, 4 numbered moves; 253,000 states | every sequence of up to six moves (death pieces have no number) and resets |
| `cpu_player` | a game of 3 cells with one flag, batches of 4 iterations, one computer player and one suggestion of another; 597,000 states, `FairSpec` | every order of descents and random games, up to full explorations and early ends, and every interleaving of recording and reports |
| `logins` | 2 browsers, 3 ids, a limit of 1, sessions of 3 ticks, 11 ticks; 1.15 million states up to symmetry | logins, requests and expiry around the critical sections of the maintenance, failed saves, crashes and restarts |
| `solaz` | 6 profiles, 4 topics, 3 headers and none, payloads empty or not, up to 2 messages or a negative count, a timeout of 2 or negative, 6 ticks; 1.12 million states | every order of messages, timeouts, failures and the deadline, for every order of the index |
| `netw` | 2 clients, 6 kinds of sessions, streams of one token; 272,000 states, `FairSpec` | both protocols, with and without faults, one client waiting while the other is served |

Bounds. Four connections suffice for a user with two of them to meet an opponent
and a spectator; a third connection of a user adds no new case, since listeners
are keyed by user and the second overwrites the first just as a third overwrites
the second. The board changes of `gm_cpu` reach one listener; that spectators see
them too is proved (`UpToDate`). On the Flagz boards a chain flag-1-2 reaches the
blocking value, grass is collected directly and through other grass, cells get
lowered and blocked, players run out of moves while the other plays on. In four
numbered moves of `classic` a board is revealed for each of the five reasons, it is
split into areas of the same and of different sizes, with and without a dead cell
beside them, the other player gets an area, pest spreads, special cells live and die, and the
game ends and is played on.

In `cpu_player` the human moves first, so a search starts with two free cells or, when the
human leaves itself no move, makes two moves in a row: nodes are reached by both players,
flags change the winner, and the tree is explored completely or not. Three ids are
enough for the limit of one plus the one that `>` admits plus one refused, and eleven
ticks for a session to be saved, expire, and come back after a crash. The patterns of `solaz`
tie, differ in length at the same score, are cases of one another by a literal and by
length, have prefixes that compete with a literal, a `>` in the middle, and expand to one another;
two messages distinguish a topic that repeats from one that does not. In `netw` a
message of two tokens does not fit a stream of one, which is what a large packet and a
socket buffer come to.

Fairness in `CpuPlayer`: the steps of a search, and its return from a completed tree.
That the time is over is not assumed, nor anything of the human. In `Netw`: processes run,
blocked ones time out (`TIMEOUT_SECONDS` is set on every socket), resets arrive; no
client has to connect.

Runs that are expected to fail, each with what a comment or an assertion of the
code says and the program does not do:

| Run | Property | What happens |
|---|---|---|
| `gm_reload` | `ConnectedPlayersStay` | the old connection of a reloaded page unregisters after the new one registered; its player, connected, is scheduled for removal and the game ends |
| `gm_wedge` | `RemovalAfterTimeout` | the game master sends to a client that has just left while the client's handler sends its unregister event: both wait for ever |
| `gm_cpu_panic` | `SearchDoesNotPanic` | a reset while the computer thinks; the search makes a move of the old board on the new one |
| `classic_score` | `FinalScoreCountsBoard` | the last move fills the board while cells are hidden: the score is computed, then the cells are revealed, and the winner is the one of that score |

The models also show, without a run of their own: a player with two connections
unregisters twice, which `server.go:459` says should not happen; the first of two
connections stays open after the game, because its channel was overwritten in
`eventListeners`; a reset while the computer thinks followed by a human move can
leave game master and CPU player waiting for each other (`Wedged`). Further:

* A spectator may be sent, and its page adopt, the role of a player: `broadcast` shares
  one event whose `Role` it sets only for players (`server.go:393`), while `api.go:18` says
  `0: spectator`.
* `/statusz` panics (`server.go:969`, "Cannot serialize my own structs?!") once a value lies
  in the first or last bucket of a distribution, since JSON has no infinity: a move
  suggested in less than a millisecond is enough. `Answer` models it.
* `mcts.go:124` says flag positions are picked "with equal probability among all
  possibilities"; the chance is computed from those accepted, not those seen. The model
  takes any choice. With a thinking time of 0 `SuggestMove` has no child to return.
* A player whose session expired is logged in again when the server crashes between the
  sweep and the save. A save that failed is not tried again before there is activity.
* A login that is refused is still counted as a success (`server.go:649-651`).
* The server of `netw.py`, which "keeps running" (line 5), ends at a measurement of no pings
  (division by zero), and never accepts again after a client left in the middle of its
  upload or its parameters, or asked for chunks of size 0. A client takes the end of the
  stream for `DONE`. The protocol is `SPDT` in the code and `SPDM` in its description.
* Lines 136-137 of solaz's `README.md` say "the most specific match wins (more literal
  segments first, then more segments overall)". The score counts prefixes too
  (`topic_match.go:60-69`): on `a1/b1/c1` the pattern `a*/b*/c*` (no literal, score 3)
  wins over `a1/*/*` (one literal, score 2), and `d*/e*` ties with `*/e1`
  (`PrefixesOutweighLiteral`, `PrefixesTieWithLiteral`). Line 138 promises "a
  per-message error" for a tie, which ends the whole run. Counts are printed when the loop ends regularly only, so an
  error of a timeout loses the statistics. "The loop stops when `--count` is reached *or*
  `--max-runtime` elapses" (lines 43-44), but not with a negative `--timeout`, which the
  flags accept and the time that remains never shortens (`solace.go:84`).

## 5. Proofs

All theorems hold for every value of the constants that satisfies the named
assumptions of the modules.

`GameMasterProofs`. `TypeCorrect`, `SeatsDense`, `SeatsStable`, `ListenersAlive`,
`Removals`, `AbandonedScheduled`, `UpToDate`, `RolesSeen`, `TurnServed`,
`ImplementsSession`. Most properties are conjuncts of an inductive invariant with
`TypeOK`, each lemma using only the conjuncts it needs. Five are not inductive as they
stand. `SeatsAreDense`
needs that the computer's seat is taken with the first human's and that seats
are counted over a finite set. `ListenersUpToDate` says something about the select
only; the invariant `BoardsOnTheirWay` says what holds while a broadcast is under
way: a listener that lacks the current board is still to be sent to.
`PlayersSeeTheirRole` needs to know that a connection shows nothing before it is
registered, and that who is registered without a number came when all were given and
stays a spectator (`RoleInv`). `ComputersTurnIsServed` also holds while the game master
sends (`TurnInv`): the CPU player is asked before the broadcast begins. The
refinement proof maps registering to `Join`, a due timer to `StayAway` and a
received removal to `End`, every other step to a stutter.

`FlagzProofs`. `NeighborsAreMutual` is about the geometry alone. The others rest on
`BoardInv`, which holds after every visit of `updateNeighborCells` and not only
between moves: types, cells with an owner (`CellsOK`), what `todo` may contain
(`TodoOK`: only neighbours of cells of the player on turn), and the three counts
(`CountersOK`). The range of the counters is not assumed but follows from what they
count, so `FlagzTypeCorrect` (no counter below 0) is a consequence of
`CountersMatch`. `NextValuesMatch` is stated over the neighbours *visited so far*
(`Around`), which makes it inductive; its core, `FitsNewVal`, says that one more
neighbour updates "one more than the lowest, or blocked" correctly, so the order
of visits cannot matter. `GrassCollected` uses the same idea: what is not collected
yet has a visit due. `RandomMovesLegal` adds `TurnCanMove`, which `recomputeState`
establishes at the end of each move, and counts cells before a cell in reading
order (`RankBelow`). `WinnerFinal` adds `Decided`: a finished game is one nobody can
move in, or one whose leader is the only one who can move and whose moves never
give the other a move back. `ScoresMatch` follows the score through a move
(`WorthGained`): a cell that was taken adds its value, a patch of grass that is
collected adds the grass's, and no other cell changes what it is worth.

`SumsProofs`. Sums over finite sets are defined as the cardinality of a set of pairs
(`Sums`: as many pairs for each element as its value), not by recursion, so what is
needed of them follows from the theorems about cardinalities: a sum of natural numbers
is one, changes by what one element changes, is 0 if all values are, and is monotonic.
The score, the sizes of messages, the counts of distributions and of the children of a
node are such sums.

`ClassicProofs`. Every step of a move (capture, fire, death, reveal with pest and aging)
is a lemma on boards, whose type tells how long a lifetime may be at that point
(`Boards(n)`): `Aged` brings 3 back to 2 and below. `HiddenCounted` is proved from
`HidInv`: while cells are hidden the players have moved in turn, so the one not on turn
has as many hidden cells as the other or one more, and these are numbered moves that
nothing but a reveal touches. `FreeCellsPlayable` adds `FreeInv`, established where the
game goes on after a move. For `PiecesOnlyFall` it has to be known that an owned normal
cell or flag has no lifetime (`LifeInv`, `Settled`), and that nothing is occupied on a
board without moves, which a new game replaces.

`LoginsProofs` proves all four invariants, from `IdsAssumption` (the ids a server ever
makes are finitely many) and `NumbersAssumption`. `LimitKept` follows the three copies
of the logins, in memory, in the maintenance and in the file (`LimitInv`): each can be
loaded or saved into another. `SessionsAreKept` needs the activity that
keeps a session (`SessionInv`): `until` is at most `LoginTtl` after the `LastActive` of the
player while the server runs, after the saved one while it does not. Since the
maintenance reads its clock before it takes the mutex, what it finds idle has expired.
`SavedUpToLatest` is about the end of an iteration; `SavedInv` says what each place
of `updateLoggedInPlayers` may rely on: a copy has what was not active after
the time the iteration started (`UpTo`), and activity after the copy is later than that time,
so that the next iteration sees it (`ActivityKeepsCopies`).

`ReceiverProofs`. `LookupSpecific` rests on two facts about the operators of `TopicTypes`.
In a sorted index everything between two patterns of one rank is of that rank
(`RankBetween`), so the scan may end at the first change, and what it finds depends on
the ranks only (`LookupFindsBest`, with `BestType` as the answer by rank). A case of a
pattern never ranks lower than the pattern (`RefinedRank`): its literals, and its literals and
prefixes together, are at least those of the pattern. Hence the best rank has no case among
the matches (`LookupAnswers`), whatever `HasPrefix` is. `PrefixesOutweighLiteral` and
`PrefixesTieWithLiteral` show for two patterns each that the rank is not the order of
the README (`LiteralsFirst`). `IndexInv` says the
index is one of the mapping in use. `DeadlineKept`: a receive in progress began before
the deadline and, unless its timeout is negative, waits until it at most (`TimeInv`). `NothingLost`: `ResultInv` compares
what was printed, or the rows by topic (`RowsOf`), with the whole sequence of messages;
one more message adds one to the count of its row, and its size (`Counted`, `RowGrows`),
and the totals are the sums over all rows. `OptionsAssumption` has what the flags
guarantee: a count, a timeout and a runtime are numbers, of either sign.

`CpuPlayerProofs`. `ReportConsistent` holds for any number of computer players. Each
records in the same order, so a value is ahead of a later one by exactly those players
that are between the two (`Balanced`, with the list of steps still to do as the place of
a player). No counter is created while the counters are read, which keeps the second
counter read from having an exploration whose move the first one lacked (`ReportInv`).
`LiveChildrenRight` and `GamesAddUp` hold for any game over a finite set `M` of moves
(`FiniteMoves(M)`: the moves of every position are in `M`), however long, from one
invariant `SearchInv(M)`. Its parts: the tree has every node on the way to its nodes
(`IsTree`); the live children include the one `run` is just returning from (`Live`); a
node without children was played once at most (`GamesInv`). A path that goes on below
a node passes through exactly one of its children (`PathThroughChildren`), so a game
adds one to the node and to one child. `SureWinTaken` proves `SureWinIsSuggested` for
the same games, where besides no move adds a winner to those still possible and the
winner of a game that is over is one of them (`OutcomesFit(M)`; the game of the run
satisfies it, `GameFits` in `MCCpuPlayer`). Its invariant `WinInv` says that a node from
which only the mover can win has full points (`SureInv`), and that every played lost end
costs all nodes on its path points that they never get back (`LostInv`). When the root
is done, everything in the tree is (`AllDone`, by a shortest node that is not), so the
sure win was played and the best child, as good as that, has full points and no lost end.

`NetwProofs` proves both safety properties of `Netw`, for any number of clients, any set
of measurements and streams that hold at least one token (`NetwAssumption`).
`NetSafe` is the inductive invariant `NetInv`: the server serves a client that has
connected and that it has not left (`ConnInv`); what is in its stream lets it
read the command first and the parameters second, whatever fails (`BeginInv`); and
without a fault the server's script is what is left of a download or an upload, what
it received and what is left add up to what it was asked for, and `DONE` goes out
after that (`CountInv`). `DoneReceived` follows. For `NeverWaiting` the two scripts
have to be compared: step by step one sends what the other receives (`Dual`), so a
position is a number of tokens that went in one direction or the other before it
(`Clock`; it is shown to exist part by part, `JoinClock` and `RepeatClock`, which takes no
induction). Without a fault what one side is ahead of the other lies in its stream and
was its own to send (`Sync`). So of two sides at one place one has something to
send, and one that is behind has something to receive (`SyncFree`).

Only model-checked: liveness (`RemovalHappens`, `RequestsAreAnswered`,
`ComputerMoves`, `SearchEnds`, `ServerIsFreeAgain`), which is out of the prover's reach,
and `AreasAreCapturedWhole`, whose areas are closures of a neighbour relation, defined by
recursion on distance.

## 6. Not modelled

Formatting of events and pages, announcements and player names, drawing, flag
parsing, generated code. The Freeform engine accepts every move on the board and has no counters and no end. The
registry of games and the rpz services are maps behind a mutex. discoverz, and the
discovery of network-performance, answer each datagram on its own: nothing relates two
of them. The rpz benchmarks and gosql exercise a database whose rules are not in the
repository. binz packs a list once. `PROJECT.json` lists every component with its status
and the hazards, with the reason where no property covers one.
