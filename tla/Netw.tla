-------------------------------- MODULE Netw --------------------------------
(***************************************************************************)
(* The network speed measurement of network-performance/netw.py: a server  *)
(* that serves one client at a time, and clients that ask it for a         *)
(* measurement (throughput or latency) or to shut down, over TCP.          *)
(*                                                                         *)
(* Both ends of a session run a script of sends and receives.  What is     *)
(* sent is a token: a command, the parameters, a part of the data, or      *)
(* DONE.  A stream holds a few tokens; a send into a full stream and a     *)
(* receive from an empty one block, and may time out.  A socket that is    *)
(* closed with unread data, or sent to after it was closed, resets its     *)
(* connection.                                                             *)
(***************************************************************************)
EXTENDS Integers, Sequences, FiniteSets

CONSTANTS
    Clients,  \* client processes
    Server,   \* the server process
    None,     \* no client, no session
    Sessions, \* what a client may ask for: [cmd, n, size]
    Capacity  \* tokens a stream holds

ASSUME NetwAssumption ==
    /\ IsFiniteSet(Clients) /\ Server \notin Clients /\ None \notin Clients
    /\ Capacity \in Nat \ {0}
    /\ None \notin Sessions
    /\ \A s \in Sessions : s.cmd \in {"SPDT", "LATN", "SHUT"} /\ s.n \in Nat /\ s.size \in Nat

VARIABLES
    server,   \* the server process is "up", "stopped" or "crashed"
    serving,  \* the client whose connection the server has accepted
    session,  \* what each client asks for
    todo,     \* the script of each process, from its current step on
    toServer, \* streams from the clients to the server
    toClient, \* streams from the server to the clients
    closed,   \* who has closed the connection of each client
    rst,      \* a reset of the connection is "none", "coming" or "arrived"
    received, \* observer: tokens of data the server received in this session
    finished, \* observer: what ended the upload of a client: "DONE", "eof" or "no"
    fault     \* observer: a short read, a timeout or a killed client

netVars == <<toServer, toClient, closed, rst>>
vars == <<server, serving, session, todo, netVars, received, finished, fault>>

Parties == Clients \cup {Server}
Connected(c) == session[c] # None

\* The connection of a process, the other end, and the streams between them.
Conn(p) == IF p = Server THEN serving ELSE p
Peer(p) == IF p = Server THEN serving ELSE Server
In(p)   == IF p = Server THEN toServer[serving] ELSE toClient[p]
Out(p)  == IF p = Server THEN toClient[serving] ELSE toServer[p]
Active(p) == IF p = Server THEN serving # None ELSE Connected(p) /\ p \notin closed[p]

-----------------------------------------------------------------------------
(* Scripts: a step is to send or receive n tokens.                         *)

Step(do, tok, n) == IF n = 0 THEN <<>> ELSE <<[do |-> do, tok |-> tok, n |-> n]>>
Send(tok, n) == Step("send", tok, n)
Recv(n) == Step("recv", "data", n)         \* a loop until n tokens have arrived
RecvDone == Step("once", "DONE", 1)   \* one receive, whatever it returns
Stats(n) == Step("stats", n, 1)            \* divides by the number of pings
Repeat(n, steps) == [k \in 1..(n * Len(steps)) |-> steps[((k - 1) % Len(steps)) + 1]]

Spin == Step("spin", "none", 1)            \* a loop without end

\* Chunks of size 0 never come to the amount of data asked for.
SendData(s) ==
    IF s.n > 0 /\ s.size = 0 THEN Spin ELSE Send("data", s.n) \o RecvDone
\* mutant: DONE is sent before the data is received
RecvDataLate(s) ==
    IF s.n > 0 /\ s.size = 0 THEN Spin ELSE Send("DONE", 1) \o Recv(s.n)
RecvData(s) ==
    IF s.n > 0 /\ s.size = 0 THEN Spin ELSE Recv(s.n) \o Send("DONE", 1)
SendPings(n, size) == Repeat(n, Send("data", size) \o Recv(size)) \o Stats(n)
\* mutant: both ends send first
RecvPingsSendFirst(n, size) == Repeat(n, Send("data", size) \o Recv(size)) \o Stats(n)
RecvPings(n, size) == Repeat(n, Recv(size) \o Send("data", size)) \o Stats(n)

Request(s) == Send(s.cmd, 1) \o Send(s, 1)

ClientScript(s) ==
    CASE s.cmd = "SPDT" -> Request(s) \o RecvData(s) \o SendData(s)
      [] s.cmd = "LATN" -> Request(s) \o RecvPings(s.n, s.size) \o SendPings(s.n, s.size)
      [] s.cmd = "SHUT" -> Send("SHUT", 1)

ServerScript(s) ==
    CASE s.cmd = "SPDT" -> SendData(s) \o RecvData(s)
      [] s.cmd = "LATN" -> SendPings(s.n, s.size) \o RecvPings(s.n, s.size)

-----------------------------------------------------------------------------
Init ==
    /\ server = "up"
    /\ serving = None
    /\ session = [c \in Clients |-> None]
    /\ todo = [p \in Parties |-> <<>>]
    /\ toServer = [c \in Clients |-> <<>>]
    /\ toClient = [c \in Clients |-> <<>>]
    /\ closed = [c \in Clients |-> {}]
    /\ rst = [c \in Clients |-> "none"]
    /\ received = [c \in Clients |-> 0]
    /\ finished = [c \in Clients |-> "no"]
    /\ fault = [c \in Clients |-> FALSE]

\* A client connects; the connection waits to be accepted.
Connect(c) ==
    /\ server = "up" /\ ~Connected(c)
    /\ \E s \in Sessions :
           /\ session' = [session EXCEPT ![c] = s]
           /\ todo' = [todo EXCEPT ![c] = ClientScript(s)]
    /\ UNCHANGED <<server, serving, netVars, received, finished, fault>>

Accept ==
    /\ server = "up" /\ serving = None
    /\ \E c \in Clients :
           /\ Connected(c) /\ Server \notin closed[c]
           /\ serving' = c
    /\ todo' = [todo EXCEPT ![Server] = Step("command", "any", 1)]
    /\ UNCHANGED <<server, session, netVars, received, finished, fault>>

-----------------------------------------------------------------------------
(* Steps of a script.                                                      *)

Doing(p, what) == Active(p) /\ todo[p] # <<>> /\ Head(todo[p]).do = what

\* One token of the current step is done.
Advanced(p) ==
    LET step == Head(todo[p]) IN Step(step.do, step.tok, step.n - 1) \o Tail(todo[p])
Advance(p) == todo' = [todo EXCEPT ![p] = Advanced(p)]

\* The other end has closed, and everything it sent was received.
Eof(p) == In(p) = <<>> /\ Peer(p) \in closed[Conn(p)] /\ rst[Conn(p)] # "arrived"

SetIn(p, q) ==
    IF p = Server
    THEN toServer' = [toServer EXCEPT ![serving] = q] /\ UNCHANGED toClient
    ELSE toClient' = [toClient EXCEPT ![p] = q] /\ UNCHANGED toServer
SetOut(p, q) ==
    IF p = Server
    THEN toClient' = [toClient EXCEPT ![serving] = q] /\ UNCHANGED toServer
    ELSE toServer' = [toServer EXCEPT ![p] = q] /\ UNCHANGED toClient

\* A token is sent; the other end answers with a reset if it has closed.
SendToken(p) ==
    /\ Doing(p, "send") /\ rst[Conn(p)] # "arrived"
    /\ IF Peer(p) \in closed[Conn(p)]
       THEN /\ rst' = [rst EXCEPT ![Conn(p)] = "coming"]
            /\ UNCHANGED <<toServer, toClient>>
       ELSE /\ Len(Out(p)) < Capacity
            /\ SetOut(p, Append(Out(p), Head(todo[p]).tok))
            /\ UNCHANGED rst
    /\ Advance(p)
    /\ UNCHANGED <<server, serving, session, closed, received, finished, fault>>

\* A loop receives a token, whatever it is; at the end of the stream it receives
\* nothing, again and again.
RecvToken(p) ==
    /\ Doing(p, "recv") /\ In(p) # <<>>
    /\ SetIn(p, Tail(In(p)))
    /\ Advance(p)
    /\ received' = IF p = Server THEN [received EXCEPT ![serving] = @ + 1] ELSE received
    /\ UNCHANGED <<server, serving, session, closed, rst, finished, fault>>

\* A single receive gets DONE, or a part of it, or nothing at the end.
RecvOnce(p) ==
    /\ Doing(p, "once")
    /\ \/ /\ In(p) # <<>>
          /\ \/ SetIn(p, Tail(In(p))) /\ UNCHANGED fault
             \/ SetIn(p, <<"rest">> \o Tail(In(p))) /\ fault' = [fault EXCEPT ![Conn(p)] = TRUE]
          /\ finished' = [finished EXCEPT ![Conn(p)] = IF p # Server THEN Head(In(p)) ELSE @]
       \/ /\ Eof(p)
          /\ finished' = [finished EXCEPT ![Conn(p)] = IF p # Server THEN "eof" ELSE @]
          /\ UNCHANGED <<toServer, toClient, fault>>
    /\ Advance(p)
    /\ UNCHANGED <<server, serving, session, closed, rst, received>>

\* The average of no pings is a division by zero, which no handler catches.
ComputeStats(p) ==
    /\ Doing(p, "stats") /\ Head(todo[p]).tok > 0
    /\ Advance(p)
    /\ UNCHANGED <<server, serving, session, netVars, received, finished, fault>>

\* What the server does after it received command tok.
AfterCommand(tok) ==
    IF tok \in {"SPDT", "LATN"} THEN Step("params", tok, 1) ELSE <<>>

\* The server reads a command; a part of one, or nothing, is no command.
RecvCommand ==
    /\ Doing(Server, "command")
    /\ \/ /\ In(Server) # <<>> /\ In(Server)[1] # "SHUT"
          /\ SetIn(Server, Tail(In(Server)))
          /\ todo' = [todo EXCEPT ![Server] = AfterCommand(In(Server)[1])]
          /\ UNCHANGED fault
       \/ /\ In(Server) # <<>>
          /\ SetIn(Server, <<"rest">> \o Tail(In(Server)))
          /\ todo' = [todo EXCEPT ![Server] = <<>>]
          /\ fault' = [fault EXCEPT ![serving] = TRUE]
       \/ /\ Eof(Server)
          /\ todo' = [todo EXCEPT ![Server] = <<>>]
          /\ UNCHANGED <<toServer, toClient, fault>>
    /\ UNCHANGED <<server, serving, session, closed, rst, received, finished>>

\* The server reads the numbers.  A number that arrives in two parts is wrong: the
\* second part overwrites the first one.  A negative one makes a loop without end
\* or an exception that is not caught.
RecvParams ==
    /\ Doing(Server, "params") /\ In(Server) # <<>>
    /\ SetIn(Server, Tail(In(Server)))
    /\ \/ /\ todo' = [todo EXCEPT ![Server] = ServerScript(In(Server)[1])]
          /\ UNCHANGED fault
       \/ /\ \E script \in {Spin, Stats(0)} \cup
                {ServerScript(s) : s \in {x \in Sessions : x.cmd = Head(todo[Server]).tok}} :
                    todo' = [todo EXCEPT ![Server] = script]
          /\ fault' = [fault EXCEPT ![serving] = TRUE]
    /\ UNCHANGED <<server, serving, session, closed, rst, received, finished>>

RstArrives(c) ==
    /\ rst[c] = "coming"
    /\ rst' = [rst EXCEPT ![c] = "arrived"]
    /\ UNCHANGED <<server, serving, session, todo, toServer, toClient, closed,
                   received, finished, fault>>

-----------------------------------------------------------------------------
(* The end of a session.                                                   *)

\* Process p can do nothing but wait for its peer.
Blocked(p) ==
    /\ Active(p) /\ todo[p] # <<>> /\ rst[Conn(p)] # "arrived"
    /\ Peer(p) \notin closed[Conn(p)]
    /\ IF Head(todo[p]).do = "send" THEN Len(Out(p)) = Capacity
       ELSE Head(todo[p]).do \notin {"stats", "spin"} /\ In(p) = <<>>

\* The socket of p is closed; what p has not read resets the connection.
CloseSocket(p) ==
    /\ closed' = [closed EXCEPT ![Conn(p)] = @ \cup {p}]
    /\ rst' = [rst EXCEPT ![Conn(p)] = IF In(p) # <<>> /\ @ = "none" THEN "coming" ELSE @]
    /\ SetIn(p, <<>>)
    /\ todo' = [todo EXCEPT ![p] = <<>>]

\* mutant: a connection reset by the client is waited for
EndsByScript(p) == todo[p] = <<>>
\* The script is over, or a socket operation fails; an exception ends a client.
Ends(p) ==
    \/ todo[p] = <<>>
    \/ todo[p] # <<>> /\ rst[Conn(p)] = "arrived" /\ Head(todo[p]).do \notin {"stats", "spin"}


ClientEnds(c) ==
    /\ Active(c)
    /\ Ends(c) \/ (Doing(c, "stats") /\ Head(todo[c]).tok = 0)
    /\ CloseSocket(c)
    /\ UNCHANGED <<server, serving, session, received, finished, fault>>

\* The client is killed, or waits for longer than TIMEOUT_SECONDS.
ClientGivesUp(c) ==
    /\ Active(c)
    /\ CloseSocket(c)
    /\ fault' = [fault EXCEPT ![c] = TRUE]
    /\ UNCHANGED <<server, serving, session, received, finished>>

ClientTimesOut(c) == Blocked(c) /\ ClientGivesUp(c)

ServerEnds ==
    /\ serving # None /\ Ends(Server)
    /\ CloseSocket(Server)
    /\ serving' = None
    /\ UNCHANGED <<server, session, received, finished, fault>>

\* Every receive and send of the server is in a try statement for this.
ServerTimesOut ==
    /\ Blocked(Server)
    /\ CloseSocket(Server)
    /\ serving' = None
    /\ fault' = [fault EXCEPT ![serving] = TRUE]
    /\ UNCHANGED <<server, session, received, finished>>

\* The process ends, and with it every connection.
ServerExits(how) ==
    /\ server' = how
    /\ serving' = None
    /\ closed' = [c \in Clients |-> IF Connected(c) THEN closed[c] \cup {Server} ELSE closed[c]]
    /\ rst' = [c \in Clients |->
                  IF toServer[c] # <<>> /\ Server \notin closed[c] THEN "coming" ELSE rst[c]]
    /\ toServer' = [c \in Clients |-> <<>>]
    /\ todo' = [todo EXCEPT ![Server] = <<>>]
    /\ UNCHANGED <<session, toClient, received, finished, fault>>

Shutdown ==
    /\ Doing(Server, "command") /\ In(Server) # <<>> /\ In(Server)[1] = "SHUT"
    /\ ServerExits("stopped")

ServerCrash ==
    /\ Doing(Server, "stats") /\ Head(todo[Server]).tok = 0
    /\ ServerExits("crashed")

ScriptStep(p) == SendToken(p) \/ RecvToken(p) \/ RecvOnce(p) \/ ComputeStats(p)
ServerStep == ScriptStep(Server) \/ RecvCommand \/ RecvParams \/ ServerEnds \/ Shutdown \/ ServerCrash
ClientStep(c) == ScriptStep(c) \/ ClientEnds(c)

Next ==
    \/ Accept \/ ServerStep \/ ServerTimesOut
    \/ \E c \in Clients : Connect(c) \/ ClientStep(c) \/ ClientGivesUp(c) \/ RstArrives(c)

Spec == Init /\ [][Next]_vars

\* Processes run, resets arrive, and who waits for too long times out.  No client
\* has to connect.
FairSpec ==
    /\ Spec
    /\ WF_vars(Accept) /\ WF_vars(ServerStep) /\ WF_vars(ServerTimesOut)
    /\ \A c \in Clients :
           WF_vars(ClientStep(c)) /\ WF_vars(ClientTimesOut(c)) /\ WF_vars(RstArrives(c))

-----------------------------------------------------------------------------
(* Properties.                                                             *)

\* The server is in a loop that does not end: it receives from a client that has
\* left, or has no size to send or receive data in.
Spins ==
    \/ Doing(Server, "spin")
    \/ (Doing(Server, "recv") \/ Doing(Server, "params")) /\ Eof(Server)

\* A client that stays away, is slow or breaks off does not keep the server from
\* the next one: it is free again (netw.py:330-382), unless it is told to stop, is
\* killed by a measurement of no pings, or is caught in a loop.
ServerIsFreeAgain == (serving # None) ~> (serving = None \/ Spins)

\* A client that is sent DONE at the end of its upload (netw.py:160) was so after the
\* server had received everything: the time it measures is that of the whole upload.
DoneMeansReceived ==
    \A c \in Clients :
        finished[c] = "DONE" /\ ~fault[c] => received[c] = session[c].n

\* Client and server never wait for each other, however little the streams hold:
\* no timeout is needed in a session in which nothing goes wrong.
NeverBothWaiting ==
    \A c \in Clients :
        serving = c /\ ~fault[c] => ~(Blocked(Server) /\ Blocked(c))

=============================================================================
