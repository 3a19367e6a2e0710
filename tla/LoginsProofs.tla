---------------------------- MODULE LoginsProofs ----------------------------
(***************************************************************************)
(* Theorems about Logins, for any ids, browsers, limit and time to live.   *)
(***************************************************************************)
EXTENDS Logins, FiniteSetTheorems, TLAPS

(* Abbreviations that are always expanded.                                  *)
USE DEF Now, Nobody, Touched

\* Every variable keeps its type, and nobody was active in the future.
THEOREM LoginsTypeCorrect == Spec => []TypeOK
<1>1. Init => TypeOK
  <2> SUFFICES ASSUME Init PROVE TypeOK
    OBVIOUS
  <2>1. cookie \in [Browsers -> Ids \cup {NoId}] /\ expires \in [Browsers -> Nat]
        /\ until \in [Browsers -> Nat]
    BY DEF Init
  <2>2. loggedIn \in [Ids -> 0..clock] /\ file \in [Ids -> 0..clock]
        /\ snapshot \in [Ids -> 0..clock]
    BY DEF Init
  <2>3. up \in BOOLEAN /\ unsaved \in BOOLEAN
    BY DEF Init
  <2>4. QED
    BY <2>1, <2>2, <2>3 DEF Init, TypeOK
<1>2. TypeOK /\ [Next]_vars => TypeOK'
  <2> SUFFICES ASSUME TypeOK, [Next]_vars PROVE TypeOK'
    OBVIOUS
  <2> USE NumbersAssumption DEF TypeOK
  <2>1. ASSUME NEW b \in Browsers, Login(b) PROVE TypeOK'
    BY <2>1 DEF Login, FreshIds, SetCookie, Promise, fileVars, maintVars
  <2>2. ASSUME NEW b \in Browsers, Lookup(b),
               cookie' = cookie, expires' \in [Browsers -> Nat]
        PROVE  TypeOK'
    BY <2>2 DEF Lookup, Known, Promise, fileVars, maintVars
  <2>3. ASSUME NEW b \in Browsers, LoadPage(b) PROVE TypeOK'
    <3>1. Lookup(b) /\ cookie' = cookie /\ expires' \in [Browsers -> Nat]
      BY <2>3 DEF LoadPage, SetCookie
    <3>2. QED
      BY <3>1, <2>2
  <2>4. ASSUME NEW b \in Browsers, Request(b) PROVE TypeOK'
    <3>1. Lookup(b) /\ cookie' = cookie /\ expires' \in [Browsers -> Nat]
      BY <2>4 DEF Request
    <3>2. QED
      BY <3>1, <2>2
  <2>5. CASE StartMaintenance
    BY <2>5 DEF StartMaintenance, browserVars, fileVars
  <2>6. CASE Wake
    BY <2>6 DEF Wake, browserVars, fileVars
  <2>7. CASE Sweep
    BY <2>7 DEF Sweep, EndIteration, browserVars, fileVars
  <2>8. CASE CopyPlayers
    BY <2>8 DEF CopyPlayers, browserVars, fileVars
  <2>9. CASE CreateFile
    BY <2>9 DEF CreateFile, browserVars
  <2>10. CASE CreateFails
    BY <2>10 DEF CreateFails, EndIteration, browserVars, fileVars
  <2>11. CASE EncodeFile
    <3>1. unsaved' \in BOOLEAN
      BY <2>11 DEF EncodeFile
    <3>2. QED
      BY <2>11, <3>1 DEF EncodeFile, EndIteration, browserVars
  <2>12. CASE EncodeFails
    BY <2>12 DEF EncodeFails, EndIteration, browserVars, fileVars
  <2>13. CASE Crash
    <3>1. \A b \in Browsers : RememberedUntil(cookie[b]) \in Nat
      BY DEF RememberedUntil, Remembered
    <3>2. up' \in BOOLEAN /\ unsaved' \in BOOLEAN
      BY <2>13 DEF Crash
    <3>3. QED
      BY <2>13, <3>1, <3>2 DEF Crash, fileVars
  <2>14. CASE Restart
    BY <2>14 DEF Restart, Remembered, browserVars, fileVars, maintVars
  <2>15. CASE Tick
    BY <2>15 DEF Tick, browserVars, fileVars, maintVars
  <2>16. CASE UNCHANGED vars
    BY <2>16 DEF vars, browserVars, fileVars, maintVars
  <2>17. QED
    BY <2>1, <2>3, <2>4, <2>5, <2>6, <2>7, <2>8, <2>9, <2>10, <2>11, <2>12,
       <2>13, <2>14, <2>15, <2>16 DEF Next
<1>3. QED
  BY <1>1, <1>2, PTL DEF Spec

-----------------------------------------------------------------------------
(* The limit.                                                              *)

\* The players a map of logins has.
Present(logins) == {i \in Ids : logins[i] > 0}

\* A map of logins has at most one player more than the limit.
Limited(logins) == Cardinality(Present(logins)) =< MaxLoggedIn + 1

\* Logins are copied from memory to the maintenance, to the file, and back, and each
\* copy keeps the limit.
LimitInv == Limited(loggedIn) /\ Limited(snapshot) /\ Limited(file)

LEMMA PresentFinite ==
    ASSUME NEW logins
    PROVE  IsFiniteSet(Present(logins)) /\ Cardinality(Present(logins)) \in Nat
BY IdsAssumption, FS_Subset, FS_CardinalityType DEF Present

LEMMA NobodyLimited == Limited([i \in Ids |-> 0])
<1>1. Present([i \in Ids |-> 0]) = {}
  BY DEF Present
<1>2. QED
  BY <1>1, FS_EmptySet, NumbersAssumption DEF Limited

LEMMA FewerLimited ==
    ASSUME NEW old, Limited(old), NEW new, Present(new) \subseteq Present(old)
    PROVE  Limited(new)
<1>1. Cardinality(Present(new)) =< Cardinality(Present(old))
  BY PresentFinite, FS_Subset
<1>2. QED
  BY <1>1, PresentFinite, NumbersAssumption DEF Limited

LEMMA OneMoreLimited ==
    ASSUME NEW old, Cardinality(Present(old)) =< MaxLoggedIn,
           NEW i, NEW new, Present(new) = Present(old) \cup {i}
    PROVE  Limited(new)
<1>1. Cardinality(Present(new)) =< Cardinality(Present(old)) + 1
  BY PresentFinite, FS_AddElement
<1>2. QED
  BY <1>1, PresentFinite, NumbersAssumption DEF Limited

LEMMA LimitStep == TypeOK /\ LimitInv /\ [Next]_vars => LimitInv'
<1> SUFFICES ASSUME TypeOK, LimitInv, [Next]_vars PROVE LimitInv'
  OBVIOUS
<1> USE DEF LimitInv
<1>1. ASSUME NEW b \in Browsers, Login(b) PROVE LimitInv'
  <2>1. Cardinality(Present(loggedIn)) =< MaxLoggedIn
    <3>1. ~(Cardinality(Present(loggedIn)) > MaxLoggedIn)
      BY <1>1 DEF Login, Full, LoggedIn, Present
    <3>2. Cardinality(Present(loggedIn)) \in Nat
      BY PresentFinite
    <3>3. QED
      BY <3>1, <3>2, NumbersAssumption
  <2>2. PICK i \in Ids : loggedIn' = [loggedIn EXCEPT ![i] = Now]
    BY <1>1 DEF Login, FreshIds
  <2>3. Present(loggedIn') = Present(loggedIn) \cup {i}
    BY <2>2 DEF TypeOK, Present
  <2>4. Limited(loggedIn')
    BY <2>1, <2>3, OneMoreLimited
  <2>5. QED
    BY <1>1, <2>4 DEF Login, fileVars, maintVars, Limited, Present
<1>2. ASSUME NEW b \in Browsers, Lookup(b) PROVE LimitInv'
  <2>1. Present(loggedIn') = Present(loggedIn)
    BY <1>2 DEF Lookup, Known, TypeOK, Present
  <2>2. QED
    BY <1>2, <2>1 DEF Lookup, fileVars, maintVars, Limited, Present
<1>3. CASE Sweep
  <2>1. Present(loggedIn') \subseteq Present(loggedIn)
    BY <1>3 DEF Sweep, TypeOK, Present
  <2>2. Limited(loggedIn')
    BY <2>1, FewerLimited
  <2>3. snapshot' = snapshot \/ snapshot' = [i \in Ids |-> 0]
    BY <1>3 DEF Sweep, EndIteration
  <2>4. Limited(snapshot')
    BY <2>3, NobodyLimited
  <2>5. QED
    BY <1>3, <2>2, <2>4 DEF Sweep, fileVars, Limited, Present
<1>4. CASE CopyPlayers
  BY <1>4 DEF CopyPlayers, fileVars, Limited, Present
<1>5. CASE CreateFile
  BY <1>5, NobodyLimited DEF CreateFile, Limited, Present
<1>6. CASE CreateFails \/ EncodeFails
  BY <1>6, NobodyLimited DEF CreateFails, EncodeFails, EndIteration, fileVars, Limited, Present
<1>7. CASE EncodeFile
  BY <1>7, NobodyLimited DEF EncodeFile, EndIteration, Limited, Present
<1>8. CASE Crash
  BY <1>8, NobodyLimited DEF Crash, fileVars, Limited, Present
<1>9. CASE Restart
  <2>1. Present(loggedIn') \subseteq Present(file)
    BY <1>9 DEF Restart, Remembered, TypeOK, Present
  <2>2. Limited(loggedIn')
    BY <2>1, FewerLimited
  <2>3. QED
    BY <1>9, <2>2 DEF Restart, fileVars, maintVars, Limited, Present
<1>10. CASE StartMaintenance \/ Wake \/ Tick \/ UNCHANGED vars
  BY <1>10 DEF StartMaintenance, Wake, Tick, vars, fileVars, maintVars, Limited, Present
<1>11. QED
  BY <1>1, <1>2, <1>3, <1>4, <1>5, <1>6, <1>7, <1>8, <1>9, <1>10
     DEF Next, LoadPage, Request

\* However logins, the maintenance, saves, crashes and restarts interleave, at most one
\* player more than maxLoggedInPlayers is logged in, or remembered by the file.
THEOREM LimitKept == Spec => []LoginLimit
<1>1. Init => LimitInv
  BY NobodyLimited DEF Init, LimitInv
<1>2. TypeOK /\ LimitInv => LoginLimit
  <2> SUFFICES ASSUME TypeOK, LimitInv PROVE LoginLimit
    OBVIOUS
  <2>1. Limited([i \in Ids |-> Remembered(i)])
    <3>1. Present([i \in Ids |-> Remembered(i)]) \subseteq Present(file)
      BY DEF Remembered, Present, TypeOK
    <3>2. QED
      BY <3>1, FewerLimited DEF LimitInv
  <2>2. Present([i \in Ids |-> Remembered(i)]) = {i \in Ids : Remembered(i) > 0}
    BY DEF Present
  <2>3. QED
    BY <2>1, <2>2 DEF LoginLimit, LimitInv, Limited, Present, LoggedIn
<1>3. QED
  BY <1>1, <1>2, LimitStep, LoginsTypeCorrect, PTL DEF Spec

-----------------------------------------------------------------------------
(* Sessions.                                                               *)

\* What keeps the session of browser b: the activity in memory while the server runs,
\* and the saved one while it does not.
Kept(b) ==
    IF up THEN loggedIn[cookie[b]] > 0 /\ until[b] =< loggedIn[cookie[b]] + LoginTtl
          ELSE until[b] =< RememberedUntil(cookie[b])

SessionInv ==
    \A b \in Browsers : cookie[b] # NoId /\ clock =< until[b] => Kept(b)

LEMMA SessionStep == TypeOK /\ SessionInv /\ [Next]_vars => SessionInv'
<1> SUFFICES ASSUME TypeOK, SessionInv, [Next]_vars,
                    NEW b \in Browsers, cookie'[b] # NoId, clock' =< until'[b]
             PROVE  Kept(b)'
  BY DEF SessionInv
<1> USE NumbersAssumption, IdsAssumption
<1>0. /\ clock \in Nat \ {0} /\ iterationNow \in 0..clock
      /\ loggedIn \in [Ids -> 0..clock] /\ file \in [Ids -> 0..clock]
      /\ cookie \in [Browsers -> Ids \cup {NoId}] /\ until \in [Browsers -> Nat]
  BY DEF TypeOK
<1>00. \A d \in Browsers : cookie[d] # NoId /\ clock =< until[d] => Kept(d)
  BY DEF SessionInv
<1> USE <1>0, <1>00 DEF Kept
<1>1. ASSUME NEW c \in Browsers, Login(c) PROVE Kept(b)'
  <2>1. PICK i \in Ids : /\ loggedIn' = [loggedIn EXCEPT ![i] = Now]
                         /\ cookie' = [cookie EXCEPT ![c] = i]
                         /\ \A d \in Browsers : cookie[d] # i
    BY <1>1 DEF Login, FreshIds, SetCookie
  <2>2. up /\ up' /\ until' = [until EXCEPT ![c] = Now + LoginTtl] /\ clock' = Now
    BY <1>1 DEF Login, Promise
  <2>3. CASE b = c
    BY <2>1, <2>2, <2>3
  <2>4. CASE b # c
    BY <2>1, <2>2, <2>4
  <2>5. QED
    BY <2>3, <2>4
<1>2. ASSUME NEW c \in Browsers, Lookup(c), cookie' = cookie PROVE Kept(b)'
  <2>1. /\ up /\ up' /\ cookie[c] \in Ids /\ loggedIn[cookie[c]] > 0
        /\ loggedIn' = [loggedIn EXCEPT ![cookie[c]] = Now]
        /\ until' = [until EXCEPT ![c] = Now + LoginTtl] /\ clock' = Now
    BY <1>2 DEF Lookup, Known, Promise
  <2>2. CASE cookie[b] = cookie[c]
    BY <1>2, <2>1, <2>2
  <2>3. CASE cookie[b] # cookie[c]
    BY <1>2, <2>1, <2>3
  <2>4. QED
    BY <2>2, <2>3
<1>3. ASSUME NEW c \in Browsers, LoadPage(c) \/ Request(c) PROVE Kept(b)'
  <2>1. Lookup(c) /\ cookie' = cookie
    BY <1>3 DEF LoadPage, Request, SetCookie
  <2>2. QED
    BY <2>1, <1>2
<1>4. CASE Sweep
  <2>1. /\ up /\ up' /\ cookie' = cookie /\ until' = until /\ clock' = clock
        /\ loggedIn' = [i \in Ids |-> IF Idle(i) THEN 0 ELSE loggedIn[i]]
    BY <1>4 DEF Sweep, browserVars
  <2>2. cookie[b] \in Ids /\ loggedIn[cookie[b]] > 0
        /\ until[b] =< loggedIn[cookie[b]] + LoginTtl
    BY <2>1
  <2>3. ~Idle(cookie[b])
    BY <2>1, <2>2 DEF Idle
  <2>4. QED
    BY <2>1, <2>2, <2>3
<1>5. CASE Crash
  <2>1. /\ ~up' /\ until'[b] = RememberedUntil(cookie[b]) /\ cookie' = cookie
        /\ file' = file /\ fileState' = fileState
    BY <1>5 DEF Crash, fileVars
  <2>2. RememberedUntil(cookie[b]) \in Nat
    BY DEF RememberedUntil, Remembered
  <2>3. RememberedUntil(cookie[b])' = RememberedUntil(cookie[b])
    BY <2>1 DEF RememberedUntil, Remembered
  <2>4. QED
    BY <2>1, <2>2, <2>3
<1>6. CASE Restart
  <2>1. /\ ~up /\ up' /\ cookie' = cookie /\ until' = until /\ clock' = clock
        /\ loggedIn' = [i \in Ids |-> Remembered(i)]
    BY <1>6 DEF Restart, browserVars
  <2>2. cookie[b] \in Ids /\ until[b] =< RememberedUntil(cookie[b]) /\ until[b] > 0
    BY <2>1
  <2>3. Remembered(cookie[b]) \in Nat
    BY <2>2 DEF Remembered
  <2>4. Remembered(cookie[b]) > 0 /\ until[b] =< Remembered(cookie[b]) + LoginTtl
    BY <2>2, <2>3 DEF RememberedUntil
  <2>5. QED
    BY <2>1, <2>2, <2>4
<1>7. CASE StartMaintenance \/ Wake \/ CopyPlayers \/ CreateFile \/ CreateFails
           \/ EncodeFile \/ EncodeFails
  <2>1. /\ up /\ up' /\ cookie' = cookie /\ until' = until /\ loggedIn' = loggedIn
        /\ clock' \in Nat /\ clock =< clock'
    BY <1>7 DEF StartMaintenance, Wake, CopyPlayers, CreateFile, CreateFails,
                EncodeFile, EncodeFails, browserVars
  <2>2. QED
    BY <2>1
<1>8. CASE Tick \/ UNCHANGED vars
  <2>1. /\ up' = up /\ cookie' = cookie /\ until' = until /\ loggedIn' = loggedIn
        /\ file' = file /\ fileState' = fileState
    BY <1>8 DEF Tick, vars, browserVars, fileVars
  <2>7. clock' \in Nat /\ clock =< clock'
    BY <1>8 DEF Tick, vars
  <2>2. RememberedUntil(cookie[b])' = RememberedUntil(cookie[b])
    BY <2>1 DEF RememberedUntil, Remembered
  <2>3. Kept(b)
    BY <2>1, <2>7
  <2>4. CASE up
    BY <2>1, <2>3, <2>4
  <2>5. CASE ~up
    BY <2>1, <2>2, <2>3, <2>5
  <2>6. QED
    BY <2>4, <2>5
<1>9. QED
  BY <1>1, <1>3, <1>4, <1>5, <1>6, <1>7, <1>8 DEF Next

\* Nothing that happens between the critical sections of updateLoggedInPlayers ends a
\* session early, and a crash and restart ends none that the file still remembers.
THEOREM SessionsAreKept == Spec => []SessionsLast
<1>1. Init => SessionInv
  BY DEF Init, SessionInv
<1>2. TypeOK /\ SessionInv => SessionsLast
  BY IdsAssumption DEF TypeOK, SessionInv, Kept, SessionsLast, LoggedIn
<1>3. QED
  BY <1>1, <1>2, SessionStep, LoginsTypeCorrect, PTL DEF Spec

-----------------------------------------------------------------------------
(* The user database.                                                      *)

\* saved has every one of the logins that was not active after t, and nobody else.
UpTo(saved, t, logins) ==
    \A i \in Ids :
        /\ logins[i] > 0 /\ logins[i] =< t => saved[i] = logins[i]
        /\ saved[i] > 0 => logins[i] > 0

\* The logins a restart would load.
InFile == [i \in Ids |-> Remembered(i)]

\* What is saved, or on its way into the file, at each place of updateLoggedInPlayers.
SavedInv ==
    /\ ~up => maint = "start"
    /\ up /\ maint = "start" /\ ~unsaved => loggedIn = InFile
    /\ maint \in {"sleep", "awake"} /\ ~unsaved => UpTo(InFile, lastIteration, loggedIn)
    /\ maint \in {"save", "encode"} => UpTo(snapshot, iterationNow, loggedIn)

\* A login, or a lookup, is later than what a copy must have.
LEMMA ActivityKeepsCopies ==
    ASSUME NEW logins \in [Ids -> Nat], NEW saved \in [Ids -> Nat], NEW t \in Nat, UpTo(saved, t, logins),
           NEW now \in Nat, t < now, NEW i \in Ids
    PROVE  UpTo(saved, t, [logins EXCEPT ![i] = now])
BY DEF UpTo

LEMMA SavedActivity ==
    ASSUME TypeOK, SavedInv, up, unsaved' = (unsaved \/ maint = "start"), up' = up,
           UNCHANGED fileVars, UNCHANGED maintVars,
           NEW i \in Ids, loggedIn' = [loggedIn EXCEPT ![i] = Now]
    PROVE  SavedInv'
<1>1. /\ maint' = maint /\ lastIteration' = lastIteration /\ iterationNow' = iterationNow
      /\ snapshot' = snapshot /\ InFile' = InFile
  BY DEF fileVars, maintVars, InFile, Remembered
<1>2. /\ loggedIn \in [Ids -> Nat] /\ snapshot \in [Ids -> Nat] /\ InFile \in [Ids -> Nat]
      /\ clock \in Nat /\ Now \in Nat
  BY DEF TypeOK, InFile, Remembered
<1>3. ASSUME NEW saved \in [Ids -> Nat], NEW t \in 0..clock, UpTo(saved, t, loggedIn)
      PROVE  UpTo(saved, t, loggedIn')
  <2>1. t \in Nat /\ t < Now
    BY <1>2
  <2>2. UpTo(saved, t, [loggedIn EXCEPT ![i] = Now])
    BY <1>2, <1>3, <2>1, ActivityKeepsCopies
  <2>3. QED
    BY <2>2
<1>4. ASSUME maint \in {"sleep", "awake"}, ~unsaved'
      PROVE  UpTo(InFile, lastIteration, loggedIn')
  BY <1>2, <1>3, <1>4 DEF SavedInv, TypeOK
<1>5. ASSUME maint \in {"save", "encode"}
      PROVE  UpTo(snapshot, iterationNow, loggedIn')
  BY <1>2, <1>3, <1>5 DEF SavedInv, TypeOK
<1>6. up' /\ (maint = "start" => unsaved')
  OBVIOUS
<1>7. maint' \in {"sleep", "awake"} /\ ~unsaved' => UpTo(InFile, lastIteration, loggedIn)'
  BY <1>1, <1>4
<1>8. maint' \in {"save", "encode"} => UpTo(snapshot, iterationNow, loggedIn)'
  BY <1>1, <1>5
<1>9. QED
  BY <1>1, <1>6, <1>7, <1>8 DEF SavedInv

LEMMA SavedStep == TypeOK /\ SavedInv /\ [Next]_vars => SavedInv'
<1> SUFFICES ASSUME TypeOK, SavedInv, [Next]_vars PROVE SavedInv'
  OBVIOUS
<1>0. /\ loggedIn \in [Ids -> 0..clock] /\ snapshot \in [Ids -> 0..clock]
      /\ InFile \in [Ids -> 0..clock] /\ clock \in Nat
      /\ lastIteration \in 0..clock /\ iterationNow \in 0..clock
  BY DEF TypeOK, InFile, Remembered
<1>1. ASSUME NEW b \in Browsers, Login(b) \/ Lookup(b) PROVE SavedInv'
  <2>1. /\ up /\ up' = up /\ unsaved' = (unsaved \/ maint = "start")
        /\ UNCHANGED fileVars /\ UNCHANGED maintVars
    BY <1>1 DEF Login, Lookup, Known, Promise
  <2>2. PICK i \in Ids : loggedIn' = [loggedIn EXCEPT ![i] = Now]
    <3>1. CASE Login(b)
      BY <3>1 DEF Login, FreshIds
    <3>2. CASE Lookup(b)
      <4>1. cookie[b] \in Ids
        BY <3>2 DEF Lookup, Known, TypeOK
      <4>2. QED
        BY <3>2, <4>1 DEF Lookup
    <3>3. QED
      BY <1>1, <3>1, <3>2
  <2>3. QED
    BY <2>1, <2>2, SavedActivity
<1>2. CASE StartMaintenance
  <2>1. /\ up /\ up' /\ maint = "start" /\ maint' = "sleep" /\ unsaved' = unsaved
        /\ loggedIn' = loggedIn /\ InFile' = InFile
    BY <1>2 DEF StartMaintenance, fileVars, InFile, Remembered
  <2>2. ~unsaved => UpTo(InFile, lastIteration', loggedIn)
    BY <2>1 DEF SavedInv, UpTo
  <2>3. QED
    BY <2>1, <2>2 DEF SavedInv
<1>3. CASE Wake
  <2>1. /\ up /\ up' /\ maint = "sleep" /\ maint' = "awake" /\ unsaved' = unsaved
        /\ loggedIn' = loggedIn /\ InFile' = InFile /\ lastIteration' = lastIteration
    BY <1>3 DEF Wake, fileVars, InFile, Remembered
  <2>2. QED
    BY <2>1 DEF SavedInv
<1>4. CASE Sweep
  <2>1. /\ up /\ up' /\ maint = "awake" /\ unsaved' = unsaved /\ InFile' = InFile
        /\ loggedIn' = [i \in Ids |-> IF Idle(i) THEN 0 ELSE loggedIn[i]]
    BY <1>4 DEF Sweep, fileVars, InFile, Remembered
  <2>2. CASE maint' = "swept"
    BY <2>1, <2>2 DEF SavedInv
  <2>3. CASE ~Dirty /\ EndIteration
    <3>1. \A i \in Ids : loggedIn[i] > 0 => ~Idle(i) /\ loggedIn[i] =< lastIteration
      BY <1>0, <2>3 DEF Dirty, LoggedIn
    <3>2. loggedIn' = loggedIn
      BY <1>0, <2>1, <3>1 DEF Idle
    <3>3. ~unsaved => UpTo(InFile, iterationNow, loggedIn)
      BY <1>0, <2>1, <3>1 DEF SavedInv, UpTo
    <3>4. QED
      BY <2>1, <2>3, <3>2, <3>3 DEF EndIteration, SavedInv
  <2>4. QED
    BY <1>4, <2>2, <2>3 DEF Sweep
<1>5. CASE CopyPlayers
  <2>1. /\ up /\ up' /\ maint' = "save" /\ snapshot' = loggedIn /\ loggedIn' = loggedIn
        /\ iterationNow' = iterationNow
    BY <1>5 DEF CopyPlayers
  <2>2. UpTo(loggedIn, iterationNow, loggedIn)
    BY DEF UpTo
  <2>3. QED
    BY <2>1, <2>2 DEF SavedInv
<1>6. CASE CreateFile
  <2>1. /\ up /\ up' /\ maint = "save" /\ maint' = "encode" /\ loggedIn' = loggedIn
        /\ snapshot' = snapshot /\ iterationNow' = iterationNow
    BY <1>6 DEF CreateFile
  <2>2. QED
    BY <2>1 DEF SavedInv
<1>7. CASE CreateFails \/ EncodeFails
  <2>1. up /\ up' /\ maint' = "sleep" /\ unsaved'
    BY <1>7 DEF CreateFails, EncodeFails, EndIteration
  <2>2. QED
    BY <2>1 DEF SavedInv
<1>8. CASE EncodeFile
  <2>1. /\ up /\ up' /\ maint = "encode" /\ maint' = "sleep" /\ loggedIn' = loggedIn
        /\ lastIteration' = iterationNow /\ file' = snapshot /\ fileState' = "ok"
    BY <1>8 DEF EncodeFile, EndIteration
  <2>2. InFile' = snapshot
    BY <1>0, <2>1 DEF InFile, Remembered
  <2>3. UpTo(snapshot, iterationNow, loggedIn)
    BY <2>1 DEF SavedInv
  <2>4. QED
    BY <2>1, <2>2, <2>3 DEF SavedInv
<1>9. CASE Crash
  BY <1>9 DEF Crash, SavedInv
<1>10. CASE Restart
  <2>1. /\ up' /\ maint = "start" /\ maint' = maint /\ loggedIn' = InFile
        /\ InFile' = InFile
    BY <1>10 DEF Restart, SavedInv, maintVars, fileVars, InFile, Remembered
  <2>2. QED
    BY <2>1 DEF SavedInv
<1>11. CASE Tick \/ UNCHANGED vars
  <2>1. /\ up' = up /\ maint' = maint /\ unsaved' = unsaved /\ loggedIn' = loggedIn
        /\ InFile' = InFile /\ lastIteration' = lastIteration
        /\ iterationNow' = iterationNow /\ snapshot' = snapshot
    BY <1>11 DEF Tick, vars, maintVars, fileVars, InFile, Remembered
  <2>2. QED
    BY <2>1 DEF SavedInv
<1>12. QED
  BY <1>1, <1>2, <1>3, <1>4, <1>5, <1>6, <1>7, <1>8, <1>9, <1>10, <1>11
     DEF Next, LoadPage, Request

\* A crash loses no activity that the latest iteration of updateLoggedInPlayers has
\* seen, and brings nobody back who was logged out, unless a save failed: what the
\* iteration copied after the mutex was free is what it has to save.
THEOREM SavedUpToLatest == Spec => []CrashLosesOnlyLatest
<1>1. Init => SavedInv
  BY DEF Init, SavedInv, InFile, Remembered
<1>2. TypeOK /\ SavedInv => CrashLosesOnlyLatest
  BY DEF SavedInv, CrashLosesOnlyLatest, UpTo, InFile, LoggedIn
<1>3. QED
  BY <1>1, <1>2, SavedStep, LoginsTypeCorrect, PTL DEF Spec

=============================================================================
