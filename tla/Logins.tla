------------------------------- MODULE Logins -------------------------------
(***************************************************************************)
(* The logged-in players of the hexz server: the handlers that log players *)
(* in and look them up, the goroutine updateLoggedInPlayers that logs out  *)
(* idle ones and saves the rest, and the file it saves to, across crashes  *)
(* and restarts of the server.                                             *)
(*                                                                         *)
(* A player is an id, a login is the time of its last activity; 0 stands   *)
(* for "not logged in".  Every reading of the clock is later than the one  *)
(* before.  The maintenance goroutine may wake at any time, which covers   *)
(* both of its periods.                                                    *)
(***************************************************************************)
EXTENDS Integers, FiniteSets

CONSTANTS
    Ids,         \* player ids that generatePlayerId may come up with
    Browsers,    \* clients, each with one cookie
    NoId,        \* no cookie
    MaxLoggedIn, \* maxLoggedInPlayers
    LoginTtl,    \* config.LoginTtl
    MaxClock     \* bound of the clock

ASSUME IdsAssumption == IsFiniteSet(Ids) /\ NoId \notin Ids
ASSUME NumbersAssumption ==
    MaxLoggedIn \in Nat /\ LoginTtl \in Nat \ {0} /\ MaxClock \in Nat

VARIABLES
    up,            \* the server process runs
    clock,         \* the latest reading of the clock
    loggedIn,      \* s.loggedInPlayers: LastActive of each player, or 0
    cookie,        \* the player id in the cookie of each browser
    expires,       \* when the browser drops the cookie
    until,         \* observer: until when the session of a browser must last
    fileState,     \* the user database is "missing", "broken" (empty or partial) or "ok"
    file,          \* the logins in the user database
    maint,         \* where updateLoggedInPlayers is
    lastIteration, \* lastIteration of updateLoggedInPlayers
    iterationNow,  \* now of updateLoggedInPlayers
    snapshot,      \* players of updateLoggedInPlayers
    unsaved        \* observer: a save failed, or a login came before the maintenance

browserVars == <<cookie, expires, until>>
fileVars    == <<fileState, file>>
maintVars   == <<maint, lastIteration, iterationNow, snapshot>>
vars == <<up, clock, loggedIn, browserVars, fileVars, maintVars, unsaved>>

Nobody == [i \in Ids |-> 0]
LoggedIn == {i \in Ids : loggedIn[i] > 0}

\* A reading of the clock.
Now == clock + 1

Init ==
    /\ up = TRUE
    /\ clock = 1
    /\ loggedIn = Nobody
    /\ cookie = [b \in Browsers |-> NoId]
    /\ expires = [b \in Browsers |-> 0]
    /\ until = [b \in Browsers |-> 0]
    /\ fileState = "missing"
    /\ file = Nobody
    /\ maint = "start"
    /\ lastIteration = 0
    /\ iterationNow = 0
    /\ snapshot = Nobody
    /\ unsaved = FALSE

-----------------------------------------------------------------------------
(* Requests.                                                               *)

\* mutant: the limit is never reached
FullNever == Cardinality(LoggedIn) > Cardinality(Ids)
\* Too many players are logged in for another one.
Full == Cardinality(LoggedIn) > MaxLoggedIn

\* Random ids do not repeat: the new one is nowhere in use.
FreshIds ==
    {i \in Ids : loggedIn[i] = 0 /\ snapshot[i] = 0 /\ file[i] = 0
                 /\ \A b \in Browsers : cookie[b] # i}

\* The answer sets the cookie of browser b.
SetCookie(b, i) ==
    /\ cookie' = [cookie EXCEPT ![b] = i]
    /\ expires' = [expires EXCEPT ![b] = Now + LoginTtl]

\* The session of browser b lasts LoginTtl from now on.
Promise(b) ==
    /\ until' = [until EXCEPT ![b] = Now + LoginTtl]
    /\ unsaved' = (unsaved \/ maint = "start")

\* A login that is refused changes nothing: its answer is already written when
\* the handler goes on to set a cookie.
Login(b) ==
    /\ up /\ clock < MaxClock
    /\ ~Full
    /\ \E i \in FreshIds :
           /\ loggedIn' = [loggedIn EXCEPT ![i] = Now]
           /\ SetCookie(b, i)
    /\ Promise(b)
    /\ clock' = Now
    /\ UNCHANGED <<up, fileVars, maintVars>>

\* Browser b sends a cookie that the server knows.
Known(b) ==
    /\ up /\ clock < MaxClock
    /\ cookie[b] # NoId /\ clock < expires[b]
    /\ loggedIn[cookie[b]] > 0

\* mutant: the time of the logout is stored
TouchedAhead(i) == Now + LoginTtl
\* mutant: lookupPlayer updates its copy
TouchedCopy(i) == loggedIn[i]
\* LastActive of player i after a lookup.
Touched(i) == Now

Lookup(b) ==
    /\ Known(b)
    /\ loggedIn' = [loggedIn EXCEPT ![cookie[b]] = Touched(cookie[b])]
    /\ Promise(b)
    /\ clock' = Now
    /\ UNCHANGED <<up, fileVars, maintVars>>

\* A page that prolongs the cookie.
LoadPage(b) ==
    /\ Lookup(b)
    /\ SetCookie(b, cookie[b])

\* Any other request: a move, a reset, a stream of events, a new game.
Request(b) ==
    /\ Lookup(b)
    /\ UNCHANGED <<cookie, expires>>

-----------------------------------------------------------------------------
(* Maintenance.                                                            *)

StartMaintenance ==
    /\ up /\ maint = "start" /\ clock < MaxClock
    /\ clock' = Now
    /\ lastIteration' = Now
    /\ maint' = "sleep"
    /\ UNCHANGED <<up, loggedIn, browserVars, fileVars, iterationNow, snapshot, unsaved>>

\* The period is over; the time is read before the mutex is taken.
Wake ==
    /\ up /\ maint = "sleep" /\ clock < MaxClock
    /\ clock' = Now
    /\ iterationNow' = Now
    /\ maint' = "awake"
    /\ UNCHANGED <<up, loggedIn, browserVars, fileVars, lastIteration, snapshot, unsaved>>

\* Player i has been idle for too long.
Idle(i) == loggedIn[i] > 0 /\ loggedIn[i] < iterationNow - LoginTtl

\* mutant: logouts are not saved
DirtyByActivity == \E i \in LoggedIn : ~Idle(i) /\ loggedIn[i] > lastIteration
\* The user database must be written again.
Dirty == \E i \in LoggedIn : Idle(i) \/ loggedIn[i] > lastIteration

\* The iteration is over.
EndIteration ==
    /\ maint' = "sleep"
    /\ lastIteration' = iterationNow
    /\ snapshot' = Nobody

\* The first critical section: log out idle players.
Sweep ==
    /\ up /\ maint = "awake"
    /\ loggedIn' = [i \in Ids |-> IF Idle(i) THEN 0 ELSE loggedIn[i]]
    /\ \/ Dirty /\ maint' = "swept" /\ UNCHANGED <<lastIteration, snapshot>>
       \/ ~Dirty /\ EndIteration
    /\ UNCHANGED <<up, clock, browserVars, fileVars, iterationNow, unsaved>>

\* The second critical section: copy the players.
CopyPlayers ==
    /\ up /\ maint = "swept"
    /\ maint' = "save"
    /\ snapshot' = loggedIn
    /\ UNCHANGED <<up, clock, loggedIn, browserVars, fileVars, lastIteration, iterationNow, unsaved>>

\* os.Create truncates the file.
CreateFile ==
    /\ up /\ maint = "save"
    /\ maint' = "encode"
    /\ fileState' = "broken"
    /\ file' = Nobody
    /\ UNCHANGED <<up, clock, loggedIn, browserVars, lastIteration, iterationNow, snapshot, unsaved>>

\* os.Create fails: there is no other attempt before the next activity.
CreateFails ==
    /\ up /\ maint = "save"
    /\ EndIteration
    /\ unsaved' = TRUE
    /\ UNCHANGED <<up, clock, loggedIn, browserVars, fileVars, iterationNow>>

EncodeFile ==
    /\ up /\ maint = "encode"
    /\ fileState' = "ok"
    /\ file' = snapshot
    /\ unsaved' = FALSE
    /\ EndIteration
    /\ UNCHANGED <<up, clock, loggedIn, browserVars, iterationNow>>

EncodeFails ==
    /\ up /\ maint = "encode"
    /\ EndIteration
    /\ unsaved' = TRUE
    /\ UNCHANGED <<up, clock, loggedIn, browserVars, fileVars, iterationNow>>

-----------------------------------------------------------------------------
(* Crashes.                                                                *)

\* What the user database remembers of player i; a broken one is not decoded.
Remembered(i) == IF fileState = "ok" THEN file[i] ELSE 0

\* When the session of player i ends that was read from the user database.
RememberedUntil(i) ==
    IF i = NoId \/ Remembered(i) = 0 THEN 0 ELSE Remembered(i) + LoginTtl

\* The process ends; a session lasts as long as the saved activity allows.
Crash ==
    /\ up
    /\ up' = FALSE
    /\ loggedIn' = Nobody
    /\ maint' = "start"
    /\ lastIteration' = 0 /\ iterationNow' = 0 /\ snapshot' = Nobody
    /\ unsaved' = FALSE
    /\ until' = [b \in Browsers |-> RememberedUntil(cookie[b])]
    /\ UNCHANGED <<clock, cookie, expires, fileVars>>

Restart ==
    /\ ~up
    /\ up' = TRUE
    /\ loggedIn' = [i \in Ids |-> Remembered(i)]
    /\ UNCHANGED <<clock, browserVars, fileVars, maintVars, unsaved>>

Tick ==
    /\ clock < MaxClock
    /\ clock' = Now
    /\ UNCHANGED <<up, loggedIn, browserVars, fileVars, maintVars, unsaved>>

Next ==
    \/ \E b \in Browsers : Login(b) \/ LoadPage(b) \/ Request(b)
    \/ StartMaintenance \/ Wake \/ Sweep \/ CopyPlayers
    \/ CreateFile \/ CreateFails \/ EncodeFile \/ EncodeFails
    \/ Crash \/ Restart \/ Tick

Spec == Init /\ [][Next]_vars

-----------------------------------------------------------------------------
(* Properties.                                                             *)

\* Types; nobody was active in the future.
TypeOK ==
    /\ up \in BOOLEAN
    /\ clock \in Nat \ {0}
    /\ loggedIn \in [Ids -> 0..clock]
    /\ cookie \in [Browsers -> Ids \cup {NoId}]
    /\ expires \in [Browsers -> Nat]
    /\ until \in [Browsers -> Nat]
    /\ fileState \in {"missing", "broken", "ok"}
    /\ file \in [Ids -> 0..clock]
    /\ maint \in {"start", "sleep", "awake", "swept", "save", "encode"}
    /\ lastIteration \in 0..clock
    /\ iterationNow \in 0..clock
    /\ snapshot \in [Ids -> 0..clock]
    /\ unsaved \in BOOLEAN

\* A session lasts LoginTtl from the last request (handleHexz prolongs the cookie
\* as long), whatever the maintenance does between its critical sections; across a
\* crash it lasts LoginTtl from the activity that was saved last.
SessionsLast ==
    \A b \in Browsers :
        up /\ cookie[b] # NoId /\ clock =< until[b] => cookie[b] \in LoggedIn

\* Between two iterations of updateLoggedInPlayers the user database has every
\* login that was not active since the last iteration, with its last activity, and
\* nobody who was logged out: a crash loses the activity since then and no more.
CrashLosesOnlyLatest ==
    up /\ maint = "sleep" /\ ~unsaved =>
        /\ \A i \in LoggedIn : loggedIn[i] =< lastIteration => Remembered(i) = loggedIn[i]
        /\ \A i \in Ids : Remembered(i) > 0 => i \in LoggedIn

\* loginPlayer tests the limit with >, so one more than maxLoggedInPlayers can be
\* logged in, but never more; restarts, which do not test it, keep this.
LoginLimit ==
    /\ Cardinality(LoggedIn) =< MaxLoggedIn + 1
    /\ Cardinality({i \in Ids : Remembered(i) > 0}) =< MaxLoggedIn + 1

=============================================================================
