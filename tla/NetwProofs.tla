----------------------------- MODULE NetwProofs -----------------------------
(***************************************************************************)
(* Proofs about Netw, for any number of clients, of messages and of tokens *)
(* that a stream holds.                                                    *)
(***************************************************************************)
EXTENDS Netw, SequenceTheorems, TLAPS

Words == {"SPDT", "LATN", "SHUT", "data", "DONE", "rest", "none", "any", "no", "eof"}
Tok == Words \cup Sessions \cup Nat
Dos == {"send", "recv", "once", "stats", "spin", "command", "params"}
Steps == [do : Dos, tok : Tok, n : Nat \ {0}]

\* A script after one token of its first step.
Rest(t) == Step(Head(t).do, Head(t).tok, Head(t).n - 1) \o Tail(t)

TypeInv ==
    /\ serving \in Clients \cup {None}
    /\ session \in [Clients -> Sessions \cup {None}]
    /\ todo \in [Parties -> Seq(Steps)]
    /\ toServer \in [Clients -> Seq(Tok)]
    /\ toClient \in [Clients -> Seq(Tok)]
    /\ closed \in [Clients -> SUBSET Parties]
    /\ rst \in [Clients -> {"none", "coming", "arrived"}]
    /\ received \in [Clients -> Nat]
    /\ finished \in [Clients -> Tok]
    /\ fault \in [Clients -> BOOLEAN]

\* The server serves a client that has connected and that it has not left; nothing
\* has happened to a client that has not connected.
ConnInv ==
    /\ serving # None => session[serving] # None /\ Server \notin closed[serving]
    /\ \A c \in Clients : session[c] = None =>
          /\ toServer[c] = <<>> /\ toClient[c] = <<>> /\ closed[c] = {}
          /\ received[c] = 0 /\ finished[c] = "no"

-----------------------------------------------------------------------------
(* One session: s is what the client asks for, t and ts what it and the     *)
(* server have left to do, q and r the streams to the server and back, f    *)
(* what ended the upload, n what the server received.  The client is gone,  *)
(* the server has not closed the connection (open), or serves it (here).    *)

\* The server has not read the command, or not the parameters.
Asking(s, t, q, gone) ==
    \/ (t = ClientScript(s) \/ gone) /\ q = <<>>
    \/ (t = Tail(ClientScript(s)) \/ gone) /\ q = <<s.cmd>>
    \/ s.cmd # "SHUT" /\ Len(q) >= 2 /\ q[1] = s.cmd /\ q[2] = s
AtParams(s, t, q, gone) ==
    /\ s.cmd # "SHUT"
    /\ \/ (t = Tail(ClientScript(s)) \/ gone) /\ q = <<>>
       \/ Len(q) >= 1 /\ q[1] = s

CommandStep   == [do |-> "command", tok |-> "any", n |-> 1]
ParamsStep(s) == [do |-> "params", tok |-> s.cmd, n |-> 1]
OnceStep      == [do |-> "once", tok |-> "DONE", n |-> 1]
DoneStep      == [do |-> "send", tok |-> "DONE", n |-> 1]

\* The steps of a measurement, and those that send no DONE.
DataSteps == {x \in Steps : x.do \notin {"command", "params"}}
NoDone    == {x \in DataSteps : x.do = "send" => x.tok # "DONE"}

Begun(s, t, ts, q, gone, open, here) ==
    /\ open /\ ~here => Asking(s, t, q, gone)
    /\ here => \/ ts = <<CommandStep>> /\ Asking(s, t, q, gone)
               \/ ts = <<ParamsStep(s)>> /\ AtParams(s, t, q, gone)
               \/ ts \in Seq(DataSteps)

\* The server reads the command first and the parameters second, whatever fails.
BeginInv(c) ==
    session[c] # None =>
        Begun(session[c], todo[c], todo[Server], toServer[c],
              c \in closed[c], Server \notin closed[c], serving = c)

\* What the server does while k tokens of the upload, or of the download, are left.
UploadRest(k)      == Step("recv", "data", k) \o <<DoneStep>>
DownloadRest(k, n) == Step("send", "data", k) \o (<<OnceStep>> \o UploadRest(n))

\* DONE was sent, whether the client has received it or not.
HasDone(r, f) == f = "DONE" \/ \E k \in 1..Len(r) : r[k] = "DONE"
Fresh(r, f, n) == n = 0 /\ ~HasDone(r, f)

Served(s, ts, r, f, n) ==
    \/ ts \in {<<CommandStep>>, <<ParamsStep(s)>>} /\ Fresh(r, f, n)
    \/ \E k \in 0..s.n : ts = DownloadRest(k, s.n) /\ Fresh(r, f, n)
    \/ \E k \in 0..s.n : ts = UploadRest(k) /\ n = s.n - k /\ ~HasDone(r, f)
    \/ ts = <<>> /\ n = s.n
    \/ ts \in Seq(NoDone) /\ ~HasDone(r, f)

Counted(s, ts, r, f, n, open, here) ==
    /\ HasDone(r, f) => n = s.n
    /\ open /\ ~here => Fresh(r, f, n)
    /\ here => Served(s, ts, r, f, n)

\* Without a fault, what the server received and has yet to receive is what it was
\* asked to, and it sends DONE after that.
CountInv(c) ==
    session[c] # None /\ ~fault[c] =>
        Counted(session[c], todo[Server], toClient[c], finished[c], received[c],
                Server \notin closed[c], serving = c)

SessionsInv == \A c \in Clients : BeginInv(c) /\ CountInv(c)

NetInv == TypeInv /\ ConnInv /\ SessionsInv

-----------------------------------------------------------------------------
(* Scripts.                                                                *)

IsCons(t, a, R) == t = <<a>> \o R

LEMMA ConsFacts ==
    ASSUME NEW S, NEW a \in S, NEW R \in Seq(S), NEW t, IsCons(t, a, R)
    PROVE  /\ t \in Seq(S) /\ Len(t) = Len(R) + 1 /\ Head(t) = a /\ Tail(t) = R
           /\ Len(R) \in Nat
<1> DEFINE one == <<a>>
<1>1. one \in Seq(S) /\ Len(one) = 1 /\ one[1] = a
  OBVIOUS
<1>2. t = one \o R
  BY DEF IsCons
<1> HIDE DEF one
<1>3. /\ t \in Seq(S) /\ Len(t) = Len(R) + 1 /\ Len(R) \in Nat
      /\ \A k \in 1..Len(t) : t[k] = IF k =< 1 THEN one[k] ELSE R[k - 1]
  BY <1>1, <1>2, ConcatProperties
<1>4. t[1] = a
  BY <1>1, <1>3
<1>5. Tail(t) \in Seq(S) /\ Len(Tail(t)) = Len(R) /\ \A k \in 1..Len(R) : Tail(t)[k] = R[k]
  <2>1. t # <<>>
    BY <1>3
  <2>2. /\ Tail(t) \in Seq(S) /\ Len(Tail(t)) = Len(t) - 1
        /\ \A k \in 1..Len(Tail(t)) : Tail(t)[k] = t[k + 1]
    BY <1>3, <2>1, HeadTailProperties
  <2>3. QED
    BY <1>3, <2>2
<1>6. Tail(t) = R
  BY <1>5, SeqEqual
<1>7. QED
  BY <1>3, <1>4, <1>6

LEMMA OneStep ==
    ASSUME NEW S, NEW a \in S, NEW t, t = <<a>>
    PROVE  t \in Seq(S) /\ Len(t) = 1 /\ Head(t) = a /\ Tail(t) = <<>> /\ t[1] = a
OBVIOUS

\* A script that begins with a step of k tokens.
Begins(t, do, tok, k, R) == t = Step(do, tok, k) \o R

LEMMA StepBegins ==
    ASSUME NEW do \in Dos, NEW tok \in Tok, NEW k \in Nat, NEW R \in Seq(Steps), NEW t,
           Begins(t, do, tok, k, R)
    PROVE  /\ t \in Seq(Steps)
           /\ k = 0 => t = R
           /\ k > 0 => /\ Len(t) = Len(R) + 1 /\ Len(R) \in Nat
                       /\ Head(t) = [do |-> do, tok |-> tok, n |-> k] /\ Tail(t) = R
                       /\ Rest(t) = Step(do, tok, k - 1) \o R
<1>1. CASE k = 0
  <2>1. t = <<>> \o R
    BY <1>1 DEF Begins, Step
  <2>2. t = R
    BY <2>1, ConcatEmptySeq
  <2>3. QED
    BY <1>1, <2>2
<1>2. CASE k > 0
  <2> DEFINE a == [do |-> do, tok |-> tok, n |-> k]
  <2>1. a \in Steps /\ a.do = do /\ a.tok = tok /\ a.n = k
    BY <1>2 DEF Steps
  <2>2. IsCons(t, a, R)
    BY <1>2 DEF Begins, Step, IsCons
  <2> HIDE DEF a
  <2>3. t \in Seq(Steps) /\ Len(t) = Len(R) + 1 /\ Head(t) = a /\ Tail(t) = R /\ Len(R) \in Nat
    BY <2>1, <2>2, ConsFacts
  <2>4. Rest(t) = Step(do, tok, k - 1) \o R
    BY <2>1, <2>3 DEF Rest
  <2>5. QED
    BY <1>2, <2>3, <2>4 DEF a
<1>3. QED
  BY <1>1, <1>2

\* Any script goes on.
LEMMA RestType ==
    ASSUME NEW t \in Seq(Steps), t # <<>>
    PROVE  /\ Head(t) \in Steps /\ Tail(t) \in Seq(Steps) /\ Rest(t) \in Seq(Steps)
           /\ Len(t) \in Nat \ {0} /\ Head(t) = t[1]
           /\ Begins(Rest(t), Head(t).do, Head(t).tok, Head(t).n - 1, Tail(t))
<1>1. /\ Head(t) \in Steps /\ Tail(t) \in Seq(Steps) /\ Len(t) \in Nat \ {0} /\ Head(t) = t[1]
  BY HeadTailProperties
<1>2. Begins(Rest(t), Head(t).do, Head(t).tok, Head(t).n - 1, Tail(t))
  BY DEF Begins, Rest
<1>3. PICK do, tok, k, R, u : /\ do = Head(t).do /\ tok = Head(t).tok /\ k = Head(t).n - 1
                              /\ R = Tail(t) /\ u = Rest(t)
  OBVIOUS
<1>4. Rest(t) \in Seq(Steps)
  <2>1. do \in Dos /\ tok \in Tok /\ k \in Nat /\ R \in Seq(Steps)
    BY <1>1, <1>3 DEF Steps
  <2>2. Begins(u, do, tok, k, R)
    BY <1>2, <1>3
  <2>3. u \in Seq(Steps)
    BY ONLY <2>1, <2>2, StepBegins
  <2>4. QED
    BY <1>3, <2>3
<1>5. QED
  BY <1>1, <1>2, <1>4

\* The scripts that a step in progress stands for.
LEMMA Downloading ==
    ASSUME NEW k \in Nat, NEW n \in Nat
    PROVE  /\ UploadRest(k) \in Seq(Steps) /\ DownloadRest(k, n) \in Seq(Steps)
           /\ k = 0 => UploadRest(k) = <<DoneStep>>
           /\ k > 0 => /\ UploadRest(k) # <<>>
                       /\ Head(UploadRest(k)) = [do |-> "recv", tok |-> "data", n |-> k]
                       /\ Rest(UploadRest(k)) = UploadRest(k - 1)
           /\ DownloadRest(k, n) # <<>>
           /\ k = 0 => /\ Head(DownloadRest(k, n)) = OnceStep
                       /\ Rest(DownloadRest(k, n)) = UploadRest(n)
           /\ k > 0 => /\ Head(DownloadRest(k, n)) = [do |-> "send", tok |-> "data", n |-> k]
                       /\ Rest(DownloadRest(k, n)) = DownloadRest(k - 1, n)
<1> DEFINE last == <<DoneStep>>
<1>1. /\ "data" \in Tok /\ "DONE" \in Tok /\ DoneStep \in Steps /\ OnceStep \in Steps
      /\ "send" \in Dos /\ "recv" \in Dos
  BY DEF Tok, Words, Dos, Steps, DoneStep, OnceStep
<1>2. last \in Seq(Steps) /\ Len(last) = 1
  BY <1>1
<1>3. \A j \in Nat : Begins(UploadRest(j), "recv", "data", j, last)
  BY DEF UploadRest, Begins
<1>13. \A j \in Nat : UploadRest(j - 1) = Step("recv", "data", j - 1) \o last
  BY DEF UploadRest
<1> HIDE DEF last
<1>4. \A j \in Nat : /\ UploadRest(j) \in Seq(Steps)
                     /\ j = 0 => UploadRest(j) = last
                     /\ j > 0 => /\ Len(UploadRest(j)) = 2
                                 /\ Head(UploadRest(j)) = [do |-> "recv", tok |-> "data", n |-> j]
                                 /\ Rest(UploadRest(j)) = UploadRest(j - 1)
  <2> TAKE j \in Nat
  <2>1. PICK u : u = UploadRest(j) /\ Begins(u, "recv", "data", j, last)
    BY <1>3
  <2>2. "recv" \in Dos /\ "data" \in Tok /\ last \in Seq(Steps)
    BY <1>1, <1>2
  <2>3. /\ u \in Seq(Steps)
        /\ j = 0 => u = last
        /\ j > 0 => /\ Len(u) = Len(last) + 1
                    /\ Head(u) = [do |-> "recv", tok |-> "data", n |-> j]
                    /\ Rest(u) = Step("recv", "data", j - 1) \o last
    BY ONLY j \in Nat, <2>1, <2>2, StepBegins
  <2>4. Rest(u) = Step("recv", "data", j - 1) \o last => Rest(u) = UploadRest(j - 1)
    BY <1>13
  <2>5. Len(u) = Len(last) + 1 => Len(u) = 2
    BY <1>2
  <2>6. QED
    BY <2>1, <2>3, <2>4, <2>5
<1> DEFINE R == <<OnceStep>> \o UploadRest(n)
<1>5. IsCons(R, OnceStep, UploadRest(n)) /\ \A j \in Nat : Begins(DownloadRest(j, n), "send", "data", j, R)
  BY DEF IsCons, Begins, DownloadRest
<1>6. DownloadRest(k, n) = Step("send", "data", k) \o R
      /\ DownloadRest(k - 1, n) = Step("send", "data", k - 1) \o R
  BY DEF DownloadRest
<1> HIDE DEF R
<1>7. R \in Seq(Steps) /\ Len(R) > 0 /\ Head(R) = OnceStep /\ Tail(R) = UploadRest(n)
  <2>1. R \in Seq(Steps) /\ Len(R) = Len(UploadRest(n)) + 1 /\ Head(R) = OnceStep
        /\ Tail(R) = UploadRest(n) /\ Len(UploadRest(n)) \in Nat
    BY <1>1, <1>4, <1>5, ConsFacts
  <2>2. QED
    BY <2>1
<1>8. Rest(R) = UploadRest(n)
  <2>1. PICK u : u = UploadRest(n) /\ u \in Seq(Steps)
    BY <1>4
  <2>2. PICK do \in Dos, j \in Nat : do = "once" /\ j = 1
    BY DEF Dos
  <2>3. R = <<OnceStep>> \o u
    BY <1>5, <2>1 DEF IsCons
  <2>4. Step(do, "DONE", 1) = <<OnceStep>>
    BY <2>2 DEF Step, OnceStep
  <2>5. Begins(R, do, "DONE", j, u)
    BY <2>2, <2>3, <2>4 DEF Begins
  <2>6. do \in Dos /\ "DONE" \in Tok /\ j \in Nat /\ j > 0 /\ u \in Seq(Steps)
    BY <1>1, <2>1, <2>2
  <2>7. Rest(R) = Step(do, "DONE", j - 1) \o u
    BY ONLY <2>5, <2>6, StepBegins
  <2>8. Step(do, "DONE", j - 1) = <<>>
    BY <2>2 DEF Step
  <2>9. <<>> \o u = u
    BY <2>1, ConcatEmptySeq
  <2>10. QED
    BY <2>1, <2>7, <2>8, <2>9
<1>9. /\ DownloadRest(k, n) \in Seq(Steps)
      /\ k = 0 => DownloadRest(k, n) = R
      /\ k > 0 => /\ Len(DownloadRest(k, n)) = Len(R) + 1
                  /\ Head(DownloadRest(k, n)) = [do |-> "send", tok |-> "data", n |-> k]
                  /\ Rest(DownloadRest(k, n)) = Step("send", "data", k - 1) \o R
  <2>1. Begins(DownloadRest(k, n), "send", "data", k, R)
    BY <1>5
  <2>2. QED
    BY <1>1, <1>7, <2>1, StepBegins
<1>10. DownloadRest(k, n) # <<>>
  BY <1>7, <1>9
<1>11. k > 0 => UploadRest(k) # <<>>
  BY <1>4
<1>12. QED
  BY <1>4, <1>6, <1>7, <1>8, <1>9, <1>10, <1>11 DEF last

\* Scripts are sequences of steps of one set or another.
LEMMA StepIn ==
    ASSUME NEW S, NEW do, NEW tok, NEW n \in Nat, n > 0 => [do |-> do, tok |-> tok, n |-> n] \in S
    PROVE  /\ Step(do, tok, n) \in Seq(S) /\ Len(Step(do, tok, n)) \in {0, 1}
           /\ n = 0 => Len(Step(do, tok, n)) = 0
           /\ n > 0 => Len(Step(do, tok, n)) = 1
<1>1. CASE n = 0
  BY <1>1 DEF Step
<1>2. CASE n > 0
  <2> DEFINE a == [do |-> do, tok |-> tok, n |-> n]
  <2>1. a \in S
    BY <1>2
  <2>2. Step(do, tok, n) = <<a>>
    BY <1>2 DEF Step
  <2> HIDE DEF a
  <2>3. <<a>> \in Seq(S) /\ Len(<<a>>) = 1
    BY <2>1
  <2>4. QED
    BY <1>2, <2>2, <2>3
<1>3. QED
  BY <1>1, <1>2

LEMMA Repeated ==
    ASSUME NEW S, NEW n \in Nat, NEW steps \in Seq(S), Len(steps) \in {0, 2}
    PROVE  Repeat(n, steps) \in Seq(S)
<1> DEFINE L == Len(steps)
           m == n * L
           at(k) == ((k - 1) % L) + 1
<1>1. m \in Nat /\ (L = 0 => m = 0)
  BY DEF m
<1>2. \A k \in 1..m : at(k) \in 1..L
  <2>1. CASE L = 0
    BY <1>1, <2>1
  <2>2. CASE L = 2
    BY <1>1, <2>2
  <2>3. QED
    BY <2>1, <2>2
<1>3. Repeat(n, steps) = [k \in 1..m |-> steps[at(k)]]
  BY DEF Repeat
<1> HIDE DEF m, at
<1>4. \A k \in 1..m : steps[at(k)] \in S
  BY <1>2
<1>5. Repeat(n, steps) \in [1..m -> S]
  BY <1>3, <1>4
<1>6. QED
  BY <1>1, <1>5

\* What is left of a script has steps of the same kinds.
LEMMA RestIn ==
    ASSUME NEW t \in Seq(Steps), t # <<>>
    PROVE  /\ t \in Seq(DataSteps) => Rest(t) \in Seq(DataSteps)
           /\ t \in Seq(NoDone) => Rest(t) \in Seq(NoDone) /\ Head(t) \in NoDone
<1>1. ASSUME NEW S \in {DataSteps, NoDone}, t \in Seq(S)
      PROVE  Rest(t) \in Seq(S) /\ Head(t) \in S
  <2>1. Head(t) \in S /\ Tail(t) \in Seq(S)
    BY <1>1, HeadTailProperties
  <2>2. PICK do, tok, n : Head(t) = [do |-> do, tok |-> tok, n |-> n] /\ do \in Dos /\ tok \in Tok /\ n \in Nat \ {0}
    BY RestType DEF Steps
  <2>3. n - 1 \in Nat /\ (n - 1 > 0 => [do |-> do, tok |-> tok, n |-> n - 1] \in S)
    BY <2>1, <2>2 DEF DataSteps, NoDone, Steps
  <2>4. Step(do, tok, n - 1) \in Seq(S)
    BY <2>3, StepIn
  <2>5. Rest(t) = Step(do, tok, n - 1) \o Tail(t)
    BY <2>2 DEF Rest
  <2>6. QED
    BY <2>1, <2>4, <2>5, ConcatProperties
<1>2. QED
  BY <1>1

LEMMA SubSteps ==
    ASSUME NEW x
    PROVE  /\ x \in Seq(NoDone) => x \in Seq(DataSteps)
           /\ x \in Seq(DataSteps) => x \in Seq(Steps)
BY DEF NoDone, DataSteps

LEMMA SessionFacts ==
    ASSUME NEW s \in Sessions
    PROVE  /\ s # None /\ s.cmd \in {"SPDT", "LATN", "SHUT"} /\ s.n \in Nat /\ s.size \in Nat
           /\ s \in Tok /\ s.cmd \in Tok /\ s.n \in Tok
BY NetwAssumption DEF Tok, Words

\* The parts of the scripts.
LEMMA PartTypes ==
    ASSUME NEW s \in Sessions
    PROVE  /\ SendData(s) \in Seq(DataSteps) /\ RecvData(s) \in Seq(DataSteps)
           /\ SendPings(s.n, s.size) \in Seq(NoDone) /\ RecvPings(s.n, s.size) \in Seq(NoDone)
           /\ Spin \in Seq(NoDone) /\ \A n \in Nat : Stats(n) \in Seq(NoDone)
<1>1. s.n \in Nat /\ s.size \in Nat
  BY SessionFacts
<1>2. /\ "data" \in Tok /\ "DONE" \in Tok /\ "none" \in Tok /\ \A n \in Nat : n \in Tok
      /\ "send" \in Dos /\ "recv" \in Dos /\ "once" \in Dos /\ "stats" \in Dos /\ "spin" \in Dos
  BY DEF Tok, Words, Dos
<1>3. ASSUME NEW n \in Nat
      PROVE  /\ Send("data", n) \in Seq(NoDone) /\ Len(Send("data", n)) = (IF n = 0 THEN 0 ELSE 1)
             /\ Recv(n) \in Seq(NoDone) /\ Len(Recv(n)) = (IF n = 0 THEN 0 ELSE 1)
  <2>1. n > 0 => /\ [do |-> "send", tok |-> "data", n |-> n] \in NoDone
                 /\ [do |-> "recv", tok |-> "data", n |-> n] \in NoDone
    BY <1>2 DEF NoDone, DataSteps, Steps
  <2>2. QED
    BY <2>1, StepIn DEF Send, Recv
<1>4. DoneStep \in DataSteps /\ OnceStep \in DataSteps
  BY <1>2 DEF DataSteps, Steps, DoneStep, OnceStep
<1>5. Send("DONE", 1) \in Seq(DataSteps) /\ RecvDone \in Seq(DataSteps)
  BY <1>4, StepIn DEF Send, RecvDone, DoneStep, OnceStep
<1>6. Spin \in Seq(NoDone)
  <2>1. [do |-> "spin", tok |-> "none", n |-> 1] \in NoDone
    BY <1>2 DEF NoDone, DataSteps, Steps
  <2>2. QED
    BY <2>1, StepIn DEF Spin
<1>7. ASSUME NEW n \in Nat PROVE Stats(n) \in Seq(NoDone)
  <2>1. [do |-> "stats", tok |-> n, n |-> 1] \in NoDone
    BY <1>2 DEF NoDone, DataSteps, Steps
  <2>2. QED
    BY <2>1, StepIn DEF Stats
<1>8. \A x \in Seq(NoDone) : x \in Seq(DataSteps)
  BY DEF NoDone
<1>9. SendData(s) \in Seq(DataSteps)
  BY <1>1, <1>3, <1>5, <1>6, <1>8, ConcatProperties DEF SendData
<1>10. RecvData(s) \in Seq(DataSteps)
  BY <1>1, <1>3, <1>5, <1>6, <1>8, ConcatProperties DEF RecvData
<1>11. PICK z \in Nat : z = s.size
  BY <1>1
<1>12. PICK a \in Seq(NoDone), b \in Seq(NoDone) :
          /\ a = Send("data", z) /\ b = Recv(z)
          /\ Len(a) = (IF z = 0 THEN 0 ELSE 1) /\ Len(b) = (IF z = 0 THEN 0 ELSE 1)
  BY <1>3
<1>13. a \o b \in Seq(NoDone) /\ Len(a \o b) \in {0, 2} /\ b \o a \in Seq(NoDone) /\ Len(b \o a) \in {0, 2}
  <2>1. /\ a \o b \in Seq(NoDone) /\ Len(a \o b) = Len(a) + Len(b)
        /\ b \o a \in Seq(NoDone) /\ Len(b \o a) = Len(b) + Len(a)
    BY <1>12, ConcatProperties
  <2>2. z = 0 \/ z # 0
    OBVIOUS
  <2>3. QED
    BY <1>12, <2>1, <2>2
<1>14. PICK x \in Seq(NoDone) : x = Repeat(s.n, a \o b)
  BY <1>1, <1>13, Repeated
<1>15. PICK y \in Seq(NoDone) : y = Repeat(s.n, b \o a)
  BY <1>1, <1>13, Repeated
<1>16. PICK w \in Seq(NoDone) : w = Stats(s.n)
  BY <1>1, <1>7
<1>17. SendPings(s.n, s.size) = x \o w /\ RecvPings(s.n, s.size) = y \o w
  BY <1>11, <1>12, <1>14, <1>15, <1>16 DEF SendPings, RecvPings
<1>18. x \o w \in Seq(NoDone) /\ y \o w \in Seq(NoDone)
  BY ConcatProperties
<1>19. QED
  BY <1>6, <1>7, <1>9, <1>10, <1>17, <1>18

\* A script that begins with two steps.
IsCons2(t, a, b, R) == t = (<<a>> \o <<b>>) \o R

LEMMA Cons2Facts ==
    ASSUME NEW a \in Steps, NEW b \in Steps, NEW R \in Seq(Steps), NEW t, IsCons2(t, a, b, R)
    PROVE  /\ t \in Seq(Steps) /\ t # <<>> /\ Head(t) = a
           /\ Tail(t) \in Seq(Steps) /\ Tail(t) # <<>> /\ Head(Tail(t)) = b
<1> DEFINE one == <<a>>
           two == <<b>>
<1>1. one \in Seq(Steps) /\ two \in Seq(Steps)
  OBVIOUS
<1>2. (one \o two) \o R = one \o (two \o R)
  BY <1>1, ConcatAssociative
<1>3. PICK u : u = two \o R
  OBVIOUS
<1>4. IsCons(u, b, R) /\ IsCons(t, a, u)
  BY <1>2, <1>3 DEF IsCons, IsCons2
<1> HIDE DEF one, two
<1>5. u \in Seq(Steps) /\ Len(u) = Len(R) + 1 /\ Head(u) = b /\ Len(R) \in Nat
  BY <1>4, ConsFacts
<1>6. t \in Seq(Steps) /\ Len(t) = Len(u) + 1 /\ Head(t) = a /\ Tail(t) = u
  BY <1>4, <1>5, ConsFacts
<1>7. QED
  BY <1>5, <1>6

\* A client sends its command, then its parameters.
LEMMA ClientShape ==
    ASSUME NEW s \in Sessions, NEW t, t = ClientScript(s)
    PROVE  /\ t \in Seq(Steps) /\ t # <<>>
           /\ Head(t) = [do |-> "send", tok |-> s.cmd, n |-> 1] /\ Rest(t) = Tail(t)
           /\ s.cmd = "SHUT" => Tail(t) = <<>>
           /\ s.cmd # "SHUT" => /\ Tail(t) # <<>> /\ Tail(t) \in Seq(Steps)
                                /\ Head(Tail(t)) = [do |-> "send", tok |-> s, n |-> 1]
<1> DEFINE a == [do |-> "send", tok |-> s.cmd, n |-> 1]
           b == [do |-> "send", tok |-> s, n |-> 1]
<1>1. /\ a \in Steps /\ b \in Steps /\ a.do = "send" /\ a.tok = s.cmd /\ a.n = 1
  BY SessionFacts DEF Steps, Dos
<1>2. Send(s.cmd, 1) = <<a>> /\ Send(s, 1) = <<b>>
  BY DEF Send, Step
<1>3. s.cmd = "SHUT" => t = <<a>>
  BY <1>2 DEF ClientScript
<1>4. s.cmd = "SPDT" => t = ((<<a>> \o <<b>>) \o RecvData(s)) \o SendData(s)
  BY <1>2 DEF ClientScript, Request
<1>5. s.cmd = "LATN" =>
          t = ((<<a>> \o <<b>>) \o RecvPings(s.n, s.size)) \o SendPings(s.n, s.size)
  BY <1>2 DEF ClientScript, Request
<1> HIDE DEF a, b
<1>6. ASSUME NEW R1 \in Seq(Steps), NEW R2 \in Seq(Steps), t = ((<<a>> \o <<b>>) \o R1) \o R2
      PROVE  IsCons2(t, a, b, R1 \o R2) /\ R1 \o R2 \in Seq(Steps)
  <2> DEFINE two == <<a>> \o <<b>>
  <2>1. two \in Seq(Steps)
    BY <1>1
  <2>2. t = (two \o R1) \o R2
    BY <1>6
  <2> HIDE DEF two
  <2>3. t = two \o (R1 \o R2) /\ R1 \o R2 \in Seq(Steps)
    BY <2>1, <2>2, ConcatAssociative, ConcatProperties
  <2>4. QED
    BY <2>3 DEF two, IsCons2
<1>7. s.cmd # "SHUT" => /\ t \in Seq(Steps) /\ t # <<>> /\ Head(t) = a
                        /\ Tail(t) \in Seq(Steps) /\ Tail(t) # <<>> /\ Head(Tail(t)) = b
  <2>1. CASE s.cmd = "SPDT"
    <3>1. PICK R1 \in Seq(Steps), R2 \in Seq(Steps) : t = ((<<a>> \o <<b>>) \o R1) \o R2
      <4>1. RecvData(s) \in Seq(Steps) /\ SendData(s) \in Seq(Steps)
        BY PartTypes, SubSteps
      <4>2. QED
        BY <1>4, <2>1, <4>1
    <3>2. PICK R \in Seq(Steps) : IsCons2(t, a, b, R)
      BY <1>6, <3>1
    <3>3. QED
      BY <1>1, <3>2, Cons2Facts
  <2>2. CASE s.cmd = "LATN"
    <3>1. PICK R1 \in Seq(Steps), R2 \in Seq(Steps) : t = ((<<a>> \o <<b>>) \o R1) \o R2
      <4>1. RecvPings(s.n, s.size) \in Seq(Steps) /\ SendPings(s.n, s.size) \in Seq(Steps)
        BY PartTypes, SubSteps
      <4>2. QED
        BY <1>5, <2>2, <4>1
    <3>2. PICK R \in Seq(Steps) : IsCons2(t, a, b, R)
      BY <1>6, <3>1
    <3>3. QED
      BY <1>1, <3>2, Cons2Facts
  <2>3. QED
    BY <2>1, <2>2, SessionFacts
<1>8. s.cmd = "SHUT" => t \in Seq(Steps) /\ t # <<>> /\ Head(t) = a /\ Tail(t) = <<>>
  <2>1. ASSUME s.cmd = "SHUT" PROVE t \in Seq(Steps) /\ t # <<>> /\ Head(t) = a /\ Tail(t) = <<>>
    <3>1. t = <<a>>
      BY <1>3, <2>1
    <3>2. t \in Seq(Steps) /\ Len(t) = 1 /\ Head(t) = a /\ Tail(t) = <<>>
      BY <1>1, <3>1, OneStep
    <3>3. QED
      BY <3>2
  <2>2. QED
    BY <2>1
<1>9. /\ t \in Seq(Steps) /\ t # <<>> /\ Head(t) = a /\ Tail(t) \in Seq(Steps)
  BY <1>7, <1>8
<1>10. Rest(t) = Tail(t)
  <2>1. Rest(t) = <<>> \o Tail(t)
    BY <1>1, <1>9 DEF Rest, Step
  <2>2. QED
    BY <1>9, <2>1, ConcatEmptySeq
<1>11. QED
  BY <1>7, <1>8, <1>9, <1>10 DEF a, b

\* The server sends the download and gets the upload, or does nothing like it.
LEMMA ServerShape ==
    ASSUME NEW s \in Sessions, s.cmd # "SHUT"
    PROVE  /\ ServerScript(s) \in Seq(DataSteps)
           /\ ServerScript(s) = DownloadRest(s.n, s.n) \/ ServerScript(s) \in Seq(NoDone)
<1>1. PICK a, b, x, y : /\ a = SendData(s) /\ b = RecvData(s)
                        /\ x = SendPings(s.n, s.size) /\ y = RecvPings(s.n, s.size)
  OBVIOUS
<1>2. /\ a \in Seq(DataSteps) /\ b \in Seq(DataSteps) /\ x \in Seq(NoDone) /\ y \in Seq(NoDone)
      /\ Spin \in Seq(NoDone)
  BY <1>1, PartTypes
<1>3. \A z \in Seq(NoDone) : z \in Seq(DataSteps)
  BY DEF NoDone
<1>4. CASE s.cmd = "LATN"
  <2>1. ServerScript(s) = x \o y
    BY <1>1, <1>4 DEF ServerScript
  <2>2. x \o y \in Seq(NoDone)
    BY <1>2, ConcatProperties
  <2>3. QED
    BY <1>3, <2>1, <2>2
<1>5. CASE s.cmd = "SPDT"
  <2>1. ServerScript(s) = a \o b
    BY <1>1, <1>5 DEF ServerScript
  <2>2. a \o b \in Seq(DataSteps)
    BY <1>2, ConcatProperties
  <2>3. CASE s.n > 0 /\ s.size = 0
    <3>1. a = Spin /\ b = Spin
      BY <1>1, <2>3 DEF SendData, RecvData
    <3>2. a \o b \in Seq(NoDone)
      BY <1>2, <3>1, ConcatProperties
    <3>3. QED
      BY <2>1, <2>2, <3>2
  <2>4. CASE ~(s.n > 0 /\ s.size = 0)
    <3>1. PICK u, v : u = Step("send", "data", s.n) /\ v = <<OnceStep>>
      OBVIOUS
    <3>2. a = u \o v
      BY <1>1, <2>4, <3>1 DEF SendData, Send, RecvDone, Step, OnceStep
    <3>3. b = UploadRest(s.n)
      BY <1>1, <2>4 DEF RecvData, Recv, UploadRest, Send, Step, DoneStep
    <3>4. DownloadRest(s.n, s.n) = u \o (v \o b)
      BY <3>1, <3>3 DEF DownloadRest
    <3>5. u \in Seq(Steps) /\ v \in Seq(Steps) /\ b \in Seq(Steps)
      <4>1. OnceStep \in Steps /\ s.n \in Nat
        BY SessionFacts DEF OnceStep, Steps, Dos, Tok, Words
      <4>2. v \in Seq(Steps)
        BY <3>1, <4>1
      <4>3. s.n > 0 => [do |-> "send", tok |-> "data", n |-> s.n] \in Steps
        BY <4>1 DEF Steps, Dos, Tok, Words
      <4>4. u \in Seq(Steps)
        BY <3>1, <4>1, <4>3, StepIn
      <4>5. QED
        BY <1>2, <4>2, <4>4 DEF DataSteps
    <3>6. (u \o v) \o b = u \o (v \o b)
      BY <3>5, ConcatAssociative
    <3>7. QED
      BY <2>1, <2>2, <3>2, <3>4, <3>6
  <2>5. QED
    BY <2>3, <2>4
<1>6. QED
  BY <1>4, <1>5, SessionFacts

-----------------------------------------------------------------------------
(* What the steps of the two ends do to a session.                         *)

\* A client that takes DONE, or what is in front of it, out of a stream.
LEMMA TailDone ==
    ASSUME NEW r \in Seq(Tok), r # <<>>, NEW f
    PROVE  /\ HasDone(Tail(r), f) => HasDone(r, f)
           /\ HasDone(Tail(r), Head(r)) => HasDone(r, f)
<1>1. /\ Len(Tail(r)) = Len(r) - 1 /\ Len(r) \in Nat \ {0} /\ Head(r) = r[1]
      /\ \A k \in 1..Len(Tail(r)) : Tail(r)[k] = r[k + 1]
  BY HeadTailProperties
<1>2. \A k \in 1..Len(Tail(r)) : k + 1 \in 1..Len(r)
  BY <1>1
<1>3. \A k \in 1..Len(Tail(r)) : Tail(r)[k] = "DONE" => HasDone(r, f)
  BY <1>1, <1>2 DEF HasDone
<1>4. r[1] = "DONE" => HasDone(r, f)
  BY <1>1 DEF HasDone
<1>5. QED
  BY <1>1, <1>3, <1>4 DEF HasDone

\* A part of a token is received.
LEMMA RestOf ==
    ASSUME NEW r \in Seq(Tok), r # <<>>
    PROVE  Tail(r) \in Seq(Tok) /\ <<"rest">> \o Tail(r) \in Seq(Tok)
<1>1. PICK x \in Tok : x = "rest"
  BY DEF Tok, Words
<1>2. PICK one \in Seq(Tok) : one = <<x>>
  BY OneStep
<1>3. one \o Tail(r) \in Seq(Tok) /\ Tail(r) \in Seq(Tok)
  BY HeadTailProperties, ConcatProperties
<1>4. QED
  BY <1>1, <1>2, <1>3

LEMMA AppendDone ==
    ASSUME NEW r \in Seq(Tok), NEW x \in Tok, NEW f
    PROVE  HasDone(Append(r, x), f) => HasDone(r, f) \/ x = "DONE"
<1>1. /\ Len(Append(r, x)) = Len(r) + 1 /\ Len(r) \in Nat
      /\ \A k \in 1..Len(r) : Append(r, x)[k] = r[k]
      /\ Append(r, x)[Len(r) + 1] = x
  BY AppendProperties
<1>2. \A k \in 1..Len(Append(r, x)) : k \in 1..Len(r) \/ k = Len(r) + 1
  BY <1>1
<1>3. QED
  BY <1>1, <1>2 DEF HasDone

\* The client sends its command and its parameters before anything else, and does
\* nothing else until it has.
LEMMA ClientSends ==
    ASSUME NEW s \in Sessions, NEW t \in Seq(Steps), t # <<>>, NEW q \in Seq(Tok),
           Head(t).do = "send"
    PROVE  /\ Asking(s, t, q, FALSE) => Asking(s, Rest(t), Append(q, Head(t).tok), FALSE)
           /\ AtParams(s, t, q, FALSE) => AtParams(s, Rest(t), Append(q, Head(t).tok), FALSE)
<1>1. PICK w : w = ClientScript(s)
  OBVIOUS
<1>2. /\ w \in Seq(Steps) /\ w # <<>>
      /\ Head(w) = [do |-> "send", tok |-> s.cmd, n |-> 1] /\ Rest(w) = Tail(w)
      /\ s.cmd = "SHUT" => Tail(w) = <<>>
      /\ s.cmd # "SHUT" => /\ Tail(w) # <<>> /\ Tail(w) \in Seq(Steps)
                           /\ Head(Tail(w)) = [do |-> "send", tok |-> s, n |-> 1]
  BY <1>1, ClientShape
<1>3. PICK x \in Tok : x = Head(t).tok
  BY RestType DEF Steps
<1>4. PICK u : u = Append(q, x)
  OBVIOUS
<1>5. /\ u \in Seq(Tok) /\ Len(u) = Len(q) + 1 /\ Len(q) \in Nat /\ u[Len(q) + 1] = x
      /\ \A k \in 1..Len(q) : u[k] = q[k]
  BY <1>4, AppendProperties
<1>6. t = w => x = s.cmd /\ Rest(t) = Tail(w)
  BY <1>2, <1>3
<1>7. t = Tail(w) => s.cmd # "SHUT" /\ x = s
  BY <1>2, <1>3
<1>8. ASSUME Asking(s, t, q, FALSE) PROVE Asking(s, Rest(t), u, FALSE)
  <2>1. CASE t = w /\ q = <<>>
    <3>1. u = <<s.cmd>>
      BY <1>4, <1>6, <2>1
    <3>2. QED
      BY <1>1, <1>6, <2>1, <3>1 DEF Asking
  <2>2. CASE t = Tail(w) /\ q = <<s.cmd>>
    <3>1. s.cmd # "SHUT" /\ x = s /\ Len(q) = 1 /\ q[1] = s.cmd
      BY <1>7, <2>2
    <3>2. Len(u) >= 2 /\ u[1] = s.cmd /\ u[2] = s
      BY <1>5, <3>1
    <3>3. QED
      BY <3>1, <3>2 DEF Asking
  <2>3. CASE s.cmd # "SHUT" /\ Len(q) >= 2 /\ q[1] = s.cmd /\ q[2] = s
    <3>1. Len(u) >= 2 /\ u[1] = s.cmd /\ u[2] = s
      BY <1>5, <2>3
    <3>2. QED
      BY <2>3, <3>1 DEF Asking
  <2>4. QED
    BY <1>1, <1>8, <2>1, <2>2, <2>3 DEF Asking
<1>9. ASSUME AtParams(s, t, q, FALSE) PROVE AtParams(s, Rest(t), u, FALSE)
  <2>1. CASE t = Tail(w) /\ q = <<>>
    <3>1. Len(u) >= 1 /\ u[1] = s
      BY <1>5, <1>7, <2>1
    <3>2. QED
      BY <1>9, <3>1 DEF AtParams
  <2>2. CASE Len(q) >= 1 /\ q[1] = s
    <3>1. Len(u) >= 1 /\ u[1] = s
      BY <1>5, <2>2
    <3>2. QED
      BY <1>9, <3>1 DEF AtParams
  <2>3. QED
    BY <1>1, <1>9, <2>1, <2>2 DEF AtParams
<1>10. QED
  BY <1>3, <1>4, <1>8, <1>9

LEMMA ClientDoesOther ==
    ASSUME NEW s \in Sessions, NEW t \in Seq(Steps), t # <<>>, NEW q \in Seq(Tok),
           Head(t).do # "send", NEW u
    PROVE  /\ Asking(s, t, q, FALSE) => Asking(s, u, q, FALSE)
           /\ AtParams(s, t, q, FALSE) => AtParams(s, u, q, FALSE)
<1>1. PICK w : w = ClientScript(s)
  OBVIOUS
<1>2. /\ Head(w) = [do |-> "send", tok |-> s.cmd, n |-> 1]
      /\ s.cmd = "SHUT" => Tail(w) = <<>>
      /\ s.cmd # "SHUT" => Head(Tail(w)) = [do |-> "send", tok |-> s, n |-> 1]
  BY <1>1, ClientShape
<1>3. t # w /\ t # Tail(w)
  <2>1. [do |-> "send", tok |-> s.cmd, n |-> 1].do = "send" /\ [do |-> "send", tok |-> s, n |-> 1].do = "send"
    OBVIOUS
  <2>2. PICK a, b : /\ a = [do |-> "send", tok |-> s.cmd, n |-> 1] /\ a.do = "send"
                    /\ b = [do |-> "send", tok |-> s, n |-> 1] /\ b.do = "send"
    BY <2>1
  <2>3. Head(w) = a /\ (s.cmd = "SHUT" => Tail(w) = <<>>) /\ (s.cmd # "SHUT" => Head(Tail(w)) = b)
    BY <1>2, <2>2
  <2>4. QED
    BY ONLY <2>2, <2>3, t # <<>>, Head(t).do # "send"
<1>4. QED
  BY <1>1, <1>3 DEF Asking, AtParams

\* A client that leaves will send no more of it.
LEMMA ClientLeaves ==
    ASSUME NEW s, NEW t, NEW q, NEW u
    PROVE  /\ Asking(s, t, q, FALSE) => Asking(s, u, q, TRUE)
           /\ AtParams(s, t, q, FALSE) => AtParams(s, u, q, TRUE)
BY DEF Asking, AtParams

\* The server reads the command, and then the parameters.
LEMMA CommandRead ==
    ASSUME NEW s \in Sessions, NEW t, NEW q \in Seq(Tok), q # <<>>, q[1] # "SHUT",
           NEW gone, Asking(s, t, q, gone)
    PROVE  AtParams(s, t, Tail(q), gone) /\ AfterCommand(q[1]) = <<ParamsStep(s)>>
<1>1. /\ Len(Tail(q)) = Len(q) - 1 /\ Len(q) \in Nat \ {0}
      /\ \A k \in 1..Len(Tail(q)) : Tail(q)[k] = q[k + 1]
  BY HeadTailProperties
<1>2. CASE (t = Tail(ClientScript(s)) \/ gone) /\ q = <<s.cmd>>
  <2>1. Tail(q) = <<>> /\ q[1] = s.cmd
    BY <1>2
  <2>2. s.cmd \in {"SPDT", "LATN"} /\ s.cmd # "SHUT"
    BY <2>1, SessionFacts
  <2>3. AfterCommand(q[1]) = <<ParamsStep(s)>>
    BY <2>1, <2>2 DEF AfterCommand, ParamsStep, Step
  <2>4. QED
    BY <1>2, <2>1, <2>2, <2>3 DEF AtParams
<1>3. CASE s.cmd # "SHUT" /\ Len(q) >= 2 /\ q[1] = s.cmd /\ q[2] = s
  <2>1. Len(Tail(q)) >= 1 /\ Tail(q)[1] = s
    BY <1>1, <1>3
  <2>2. s.cmd \in {"SPDT", "LATN"}
    BY <1>3, SessionFacts
  <2>3. AfterCommand(q[1]) = <<ParamsStep(s)>>
    BY <1>3, <2>2 DEF AfterCommand, ParamsStep, Step
  <2>4. QED
    BY <1>3, <2>1, <2>3 DEF AtParams
<1>4. QED
  BY <1>2, <1>3 DEF Asking

LEMMA ParamsRead ==
    ASSUME NEW s \in Sessions, NEW r, NEW f, NEW n, Fresh(r, f, n), s.cmd # "SHUT"
    PROVE  Served(s, ServerScript(s), r, f, n)
<1>1. ServerScript(s) = DownloadRest(s.n, s.n) \/ ServerScript(s) \in Seq(NoDone)
  BY ServerShape
<1>2. s.n \in 0..s.n
  BY SessionFacts
<1>3. QED
  BY <1>1, <1>2 DEF Served, Fresh

\* The other steps of the server: it sends, receives or computes.
LEMMA ServedRest ==
    ASSUME NEW s \in Sessions, NEW ts \in Seq(Steps), ts # <<>>,
           Head(ts).do \notin {"command", "params"},
           NEW r, NEW f, NEW n \in Nat, Served(s, ts, r, f, n), NEW r2, NEW n2,
           n2 = IF Head(ts).do = "recv" THEN n + 1 ELSE n,
           HasDone(r2, f) => HasDone(r, f) \/ (Head(ts).do = "send" /\ Head(ts).tok = "DONE")
    PROVE  Served(s, Rest(ts), r2, f, n2) /\ (HasDone(r2, f) => n2 = s.n)
<1>1. ts # <<CommandStep>> /\ ts # <<ParamsStep(s)>>
  <2>1. Head(<<CommandStep>>).do = "command" /\ Head(<<ParamsStep(s)>>).do = "params"
    BY DEF CommandStep, ParamsStep
  <2>2. QED
    BY <2>1
<1>2. s.n \in Nat
  BY SessionFacts
<1>3. OnceStep.do = "once" /\ DoneStep.do = "send"
  BY DEF OnceStep, DoneStep
<1>4. ASSUME NEW k \in 0..s.n, ts = DownloadRest(k, s.n), Fresh(r, f, n)
      PROVE  Served(s, Rest(ts), r2, f, n2) /\ (HasDone(r2, f) => n2 = s.n)
  <2>1. k \in Nat
    BY <1>2
  <2>2. CASE k = 0
    <3>1. Head(ts) = OnceStep /\ Rest(ts) = UploadRest(s.n)
      BY <1>2, <1>4, <2>1, <2>2, Downloading
    <3>2. n2 = 0 /\ ~HasDone(r2, f)
      BY <1>3, <1>4, <3>1 DEF Fresh
    <3>3. s.n \in 0..s.n /\ n2 = s.n - s.n
      BY <1>2, <3>2
    <3>4. QED
      BY <3>1, <3>2, <3>3 DEF Served
  <2>3. CASE k > 0
    <3>1. Head(ts) = [do |-> "send", tok |-> "data", n |-> k] /\ Rest(ts) = DownloadRest(k - 1, s.n)
      BY <1>2, <1>4, <2>1, <2>3, Downloading
    <3>2. Head(ts).do = "send" /\ Head(ts).tok = "data"
      BY <3>1
    <3>3. Fresh(r2, f, n2)
      BY <1>4, <3>2 DEF Fresh
    <3>4. k - 1 \in 0..s.n
      BY <1>2, <2>1, <2>3
    <3>5. QED
      BY <3>1, <3>3, <3>4 DEF Served, Fresh
  <2>4. QED
    BY <2>1, <2>2, <2>3
<1>5. ASSUME NEW k \in 0..s.n, ts = UploadRest(k), n = s.n - k, ~HasDone(r, f)
      PROVE  Served(s, Rest(ts), r2, f, n2) /\ (HasDone(r2, f) => n2 = s.n)
  <2>1. k \in Nat
    BY <1>2
  <2>2. CASE k = 0
    <3>1. ts = <<DoneStep>>
      BY <1>2, <1>5, <2>1, <2>2, Downloading
    <3>2. Head(ts) = DoneStep /\ Tail(ts) = <<>> /\ Rest(ts) = <<>> \o Tail(ts)
      BY <3>1 DEF Rest, DoneStep, Step
    <3>3. Rest(ts) = <<>>
      BY <3>2
    <3>4. n2 = s.n
      BY <1>2, <1>3, <1>5, <2>2, <3>2
    <3>5. QED
      BY <3>3, <3>4 DEF Served
  <2>3. CASE k > 0
    <3>1. /\ Head(ts) = [do |-> "recv", tok |-> "data", n |-> k] /\ Rest(ts) = UploadRest(k - 1)
      BY <1>2, <1>5, <2>1, <2>3, Downloading
    <3>2. Head(ts).do = "recv"
      BY <3>1
    <3>3. n2 = s.n - (k - 1) /\ k - 1 \in 0..s.n
      BY <1>2, <1>5, <2>1, <2>3, <3>2
    <3>4. ~HasDone(r2, f)
      BY <1>5, <3>2
    <3>5. QED
      BY <3>1, <3>3, <3>4 DEF Served
  <2>4. QED
    BY <2>1, <2>2, <2>3
<1>6. ASSUME ts \in Seq(NoDone), ~HasDone(r, f)
      PROVE  Served(s, Rest(ts), r2, f, n2) /\ (HasDone(r2, f) => n2 = s.n)
  <2>1. Rest(ts) \in Seq(NoDone) /\ Head(ts) \in NoDone
    BY <1>6, RestIn
  <2>2. ~HasDone(r2, f)
    BY <1>6, <2>1 DEF NoDone
  <2>3. QED
    BY <2>1, <2>2 DEF Served
<1>7. QED
  BY <1>1, <1>4, <1>5, <1>6 DEF Served

-----------------------------------------------------------------------------
(* What a step may touch.                                                  *)

LEMMA PartyFacts == Server \notin Clients /\ None \notin Clients /\ None \notin Sessions /\ Server \in Parties
BY NetwAssumption DEF Parties

\* A session that nothing happens to.
Held(c) ==
    /\ session'[c] = session[c] /\ todo'[c] = todo[c]
    /\ toServer'[c] = toServer[c] /\ toClient'[c] = toClient[c]
    /\ closed'[c] = closed[c]
    /\ received'[c] = received[c] /\ finished'[c] = finished[c] /\ fault'[c] = fault[c]

LEMMA HeldKeeps ==
    ASSUME NEW c \in Clients, BeginInv(c), CountInv(c), Held(c),
           (serving' = c) <=> (serving = c), serving = c => todo'[Server] = todo[Server]
    PROVE  BeginInv(c)' /\ CountInv(c)'
<1>1. PICK s, t, q, r, f, n : /\ s = session[c] /\ t = todo[c] /\ q = toServer[c] /\ r = toClient[c]
                              /\ f = finished[c] /\ n = received[c]
  OBVIOUS
<1>2. /\ session'[c] = s /\ todo'[c] = t /\ toServer'[c] = q /\ toClient'[c] = r
      /\ finished'[c] = f /\ received'[c] = n /\ closed'[c] = closed[c] /\ fault'[c] = fault[c]
  BY <1>1 DEF Held
<1>3. BeginInv(c)'
  BY <1>1, <1>2 DEF BeginInv, Begun
<1>4. CountInv(c)'
  BY <1>1, <1>2 DEF CountInv, Counted
<1>5. QED
  BY <1>3, <1>4

\* A step of a client is about its own session.
LEMMA ClientFrame ==
    ASSUME TypeInv, ConnInv, SessionsInv, NEW c \in Clients, session[c] # None, c \notin closed[c],
           serving' = serving, session' = session, received' = received,
           todo'[Server] = todo[Server],
           \A d \in Clients \ {c} : Held(d),
           Server \in closed'[c] <=> Server \in closed[c],
           Server \notin closed[c] =>
              /\ Asking(session[c], todo[c], toServer[c], FALSE) =>
                    Asking(session[c], todo'[c], toServer'[c], c \in closed'[c])
              /\ AtParams(session[c], todo[c], toServer[c], FALSE) =>
                    AtParams(session[c], todo'[c], toServer'[c], c \in closed'[c]),
           ~fault'[c] => /\ ~fault[c]
                         /\ HasDone(toClient'[c], finished'[c]) => HasDone(toClient[c], finished[c])
    PROVE  ConnInv' /\ SessionsInv'
<1>1. ConnInv'
  <2>1. serving' # None => session'[serving'] # None /\ Server \notin closed'[serving']
    <3>1. serving # None => session[serving] # None /\ Server \notin closed[serving]
      BY DEF ConnInv
    <3>2. serving # None => closed'[serving] = closed[serving] \/ serving = c
      BY DEF Held, TypeInv
    <3>3. QED
      BY <3>1, <3>2
  <2>2. ASSUME NEW d \in Clients, session'[d] = None
        PROVE  /\ toServer'[d] = <<>> /\ toClient'[d] = <<>> /\ closed'[d] = {}
               /\ received'[d] = 0 /\ finished'[d] = "no"
    <3>1. d # c
      BY <2>2
    <3>2. QED
      BY <2>2, <3>1 DEF ConnInv, Held
  <2>3. QED
    BY <2>1, <2>2 DEF ConnInv
<1>2. \A d \in Clients \ {c} : BeginInv(d)' /\ CountInv(d)'
  BY HeldKeeps DEF SessionsInv
<1>3. PICK s, t, ts, q, r, f, n :
          /\ s = session[c] /\ t = todo[c] /\ ts = todo[Server] /\ q = toServer[c]
          /\ r = toClient[c] /\ f = finished[c] /\ n = received[c]
  OBVIOUS
<1>4. PICK t2, q2, r2, f2 :
          /\ t2 = todo'[c] /\ q2 = toServer'[c] /\ r2 = toClient'[c] /\ f2 = finished'[c]
  OBVIOUS
<1>6. serving = c => Server \notin closed[c]
  BY PartyFacts DEF ConnInv
<1>7. BeginInv(c)'
  <2>1. Begun(s, t, ts, q, FALSE, Server \notin closed[c], serving = c)
    <3>1. Begun(s, t, ts, q, c \in closed[c], Server \notin closed[c], serving = c)
      BY <1>3 DEF SessionsInv, BeginInv
    <3>2. QED
      BY <3>1 DEF Begun, Asking, AtParams
  <2>2. Server \notin closed[c] => /\ Asking(s, t, q, FALSE) => Asking(s, t2, q2, c \in closed'[c])
                                   /\ AtParams(s, t, q, FALSE) => AtParams(s, t2, q2, c \in closed'[c])
    BY <1>3, <1>4
  <2>3. Begun(s, t2, ts, q2, c \in closed'[c], Server \notin closed'[c], serving' = c)
    BY <1>6, <2>1, <2>2 DEF Begun
  <2>4. session'[c] = s /\ todo'[Server] = ts
    BY <1>3
  <2>5. QED
    BY <1>4, <2>3, <2>4 DEF BeginInv
<1>8. CountInv(c)'
  <2>1. SUFFICES ASSUME ~fault'[c]
                 PROVE  Counted(s, ts, r2, f2, n, Server \notin closed'[c], serving' = c)
    BY <1>3, <1>4 DEF CountInv
  <2>2. Counted(s, ts, r, f, n, Server \notin closed[c], serving = c)
    BY <1>3, <2>1 DEF SessionsInv, CountInv
  <2>3. HasDone(r2, f2) => HasDone(r, f)
    BY <1>3, <1>4, <2>1
  <2>4. QED
    BY <2>2, <2>3 DEF Counted, Served, Fresh
<1>9. QED
  BY <1>1, <1>2, <1>7, <1>8 DEF SessionsInv

\* A step of the server is about the session that it serves.
LEMMA ServerFrame ==
    ASSUME ConnInv, SessionsInv, NEW c \in Clients, serving = c,
           serving' = serving, session' = session, closed' = closed,
           todo'[c] = todo[c], finished' = finished,
           \A d \in Clients \ {c} : Held(d),
           Begun(session[c], todo[c], todo'[Server], toServer'[c], c \in closed[c], TRUE, TRUE),
           ~fault'[c] => /\ ~fault[c]
                         /\ Served(session[c], todo'[Server], toClient'[c], finished[c], received'[c])
                         /\ HasDone(toClient'[c], finished[c]) => received'[c] = session[c].n
    PROVE  ConnInv' /\ SessionsInv'
<1>1. session[c] # None /\ Server \notin closed[c]
  BY PartyFacts DEF ConnInv
<1>2. ConnInv'
  BY <1>1 DEF ConnInv, Held
<1>3. \A d \in Clients \ {c} : BeginInv(d)' /\ CountInv(d)'
  BY HeldKeeps DEF SessionsInv
<1>4. BeginInv(c)'
  BY <1>1 DEF BeginInv, Begun
<1>5. CountInv(c)'
  BY <1>1 DEF CountInv, Counted
<1>6. QED
  BY <1>2, <1>3, <1>4, <1>5 DEF SessionsInv

\* The server leaves one session, or all of them.
LEMMA ServerLeavesFrame ==
    ASSUME ConnInv, SessionsInv, serving' = None, session' = session,
           received' = received, finished' = finished, toClient' = toClient,
           \A d \in Clients : /\ todo'[d] = todo[d]
                              /\ ~fault'[d] => ~fault[d]
                              /\ \/ Server \in closed'[d] /\ session[d] # None
                                 \/ /\ serving # d /\ closed'[d] = closed[d]
                                    /\ toServer'[d] = toServer[d] \/ (session[d] = None /\ toServer'[d] = <<>>)
    PROVE  ConnInv' /\ SessionsInv'
<1>1. ConnInv'
  BY DEF ConnInv
<1>2. ASSUME NEW d \in Clients, session[d] # None PROVE BeginInv(d)' /\ CountInv(d)'
  <2>1. d # None
    BY PartyFacts
  <2>2. CASE Server \in closed'[d]
    <3>1. BeginInv(d)'
      BY <2>1, <2>2 DEF BeginInv, Begun
    <3>2. CountInv(d)'
      BY <2>1, <2>2 DEF CountInv, Counted, SessionsInv
    <3>3. QED
      BY <3>1, <3>2
  <2>3. CASE serving # d /\ closed'[d] = closed[d] /\ toServer'[d] = toServer[d]
    <3>1. BeginInv(d)'
      BY <1>2, <2>1, <2>3 DEF BeginInv, Begun, SessionsInv
    <3>2. CountInv(d)'
      BY <1>2, <2>1, <2>3 DEF CountInv, Counted, SessionsInv
    <3>3. QED
      BY <3>1, <3>2
  <2>4. QED
    BY <1>2, <2>2, <2>3
<1>3. ASSUME NEW d \in Clients, session[d] = None PROVE BeginInv(d)' /\ CountInv(d)'
  BY <1>3 DEF BeginInv, CountInv
<1>4. QED
  BY <1>1, <1>2, <1>3 DEF SessionsInv

-----------------------------------------------------------------------------
(* The steps of a client.                                                  *)

LEMMA Advances ==
    ASSUME TypeInv, NEW p \in Parties, todo[p] # <<>>, Advance(p)
    PROVE  /\ todo' \in [Parties -> Seq(Steps)] /\ todo'[p] = Rest(todo[p])
           /\ \A x \in Parties \ {p} : todo'[x] = todo[x]
           /\ Head(todo[p]) \in Steps /\ todo[p] \in Seq(Steps)
<1>1. PICK t \in Seq(Steps) : t = todo[p]
  BY DEF TypeInv
<1>2. Rest(t) \in Seq(Steps) /\ Head(t) \in Steps
  BY <1>1, RestType
<1>3. todo' = [todo EXCEPT ![p] = Rest(t)]
  BY <1>1 DEF Advance, Advanced, Rest
<1>4. QED
  BY <1>1, <1>2, <1>3 DEF TypeInv

LEMMA ClientFacts ==
    ASSUME TypeInv, NEW c \in Clients, Active(c)
    PROVE  /\ c # Server /\ c \in Parties /\ session[c] \in Sessions /\ session[c] # None
           /\ c \notin closed[c] /\ Conn(c) = c /\ Peer(c) = Server
           /\ In(c) = toClient[c] /\ Out(c) = toServer[c]
           /\ toServer[c] \in Seq(Tok) /\ toClient[c] \in Seq(Tok) /\ todo[c] \in Seq(Steps)
<1>1. c # Server /\ c \in Parties
  BY PartyFacts DEF Parties
<1>2. QED
  BY <1>1 DEF Active, Connected, Conn, Peer, In, Out, TypeInv

LEMMA ClientSendStep ==
    ASSUME TypeInv, ConnInv, SessionsInv, NEW c \in Clients, SendToken(c)
    PROVE  TypeInv' /\ ConnInv' /\ SessionsInv'
<1>1. Active(c) /\ todo[c] # <<>> /\ Head(todo[c]).do = "send" /\ Advance(c)
  BY DEF SendToken, Doing
<1>2. /\ c # Server /\ c \in Parties /\ session[c] \in Sessions /\ session[c] # None
      /\ c \notin closed[c] /\ Conn(c) = c /\ Peer(c) = Server
      /\ In(c) = toClient[c] /\ Out(c) = toServer[c]
      /\ toServer[c] \in Seq(Tok) /\ toClient[c] \in Seq(Tok) /\ todo[c] \in Seq(Steps)
  BY <1>1, ClientFacts
<1>3. /\ todo' \in [Parties -> Seq(Steps)] /\ todo'[c] = Rest(todo[c])
      /\ \A x \in Parties \ {c} : todo'[x] = todo[x]
      /\ Head(todo[c]) \in Steps
  BY <1>1, <1>2, Advances
<1>4. PICK x \in Tok : x = Head(todo[c]).tok
  BY <1>3 DEF Steps
<1>5. UNCHANGED <<server, serving, session, closed, received, finished, fault, toClient>>
  BY <1>2 DEF SendToken, SetOut
<1>6. \/ /\ Server \in closed[c] /\ toServer' = toServer
         /\ rst' = [rst EXCEPT ![c] = "coming"]
      \/ /\ Server \notin closed[c] /\ rst' = rst
         /\ toServer' = [toServer EXCEPT ![c] = Append(toServer[c], x)]
  BY <1>2, <1>4 DEF SendToken, SetOut
<1>7. Append(toServer[c], x) \in Seq(Tok)
  BY <1>2, <1>4, AppendProperties
<1>8. TypeInv'
  BY <1>3, <1>5, <1>6, <1>7 DEF TypeInv
<1>9. \A d \in Clients \ {c} : Held(d)
  BY <1>3, <1>5, <1>6 DEF Held, TypeInv, Parties
<1>10. todo'[Server] = todo[Server]
  BY <1>2, <1>3, PartyFacts
<1>11. Server \notin closed[c] =>
          /\ Asking(session[c], todo[c], toServer[c], FALSE) =>
                Asking(session[c], todo'[c], toServer'[c], c \in closed'[c])
          /\ AtParams(session[c], todo[c], toServer[c], FALSE) =>
                AtParams(session[c], todo'[c], toServer'[c], c \in closed'[c])
  <2>1. SUFFICES ASSUME Server \notin closed[c]
                 PROVE  /\ Asking(session[c], todo[c], toServer[c], FALSE) =>
                              Asking(session[c], todo'[c], toServer'[c], c \in closed'[c])
                        /\ AtParams(session[c], todo[c], toServer[c], FALSE) =>
                              AtParams(session[c], todo'[c], toServer'[c], c \in closed'[c])
    OBVIOUS
  <2>2. PICK s \in Sessions, t \in Seq(Steps), q \in Seq(Tok) :
            s = session[c] /\ t = todo[c] /\ q = toServer[c]
    BY <1>2
  <2>3. toServer'[c] = Append(q, Head(t).tok) /\ todo'[c] = Rest(t) /\ c \notin closed'[c]
    BY <1>2, <1>3, <1>4, <1>5, <1>6, <2>1, <2>2 DEF TypeInv
  <2>4. t # <<>> /\ Head(t).do = "send"
    BY <1>1, <2>2
  <2>5. /\ Asking(s, t, q, FALSE) => Asking(s, Rest(t), Append(q, Head(t).tok), FALSE)
        /\ AtParams(s, t, q, FALSE) => AtParams(s, Rest(t), Append(q, Head(t).tok), FALSE)
    BY <2>4, ClientSends
  <2>6. PICK t2, q2 : t2 = Rest(t) /\ q2 = Append(q, Head(t).tok)
    OBVIOUS
  <2>7. /\ Asking(s, t2, q2, FALSE) => Asking(s, t2, q2, c \in closed'[c])
        /\ AtParams(s, t2, q2, FALSE) => AtParams(s, t2, q2, c \in closed'[c])
    BY DEF Asking, AtParams
  <2>8. QED
    BY <2>2, <2>3, <2>5, <2>6, <2>7
<1>12. ~fault'[c] => /\ ~fault[c]
                     /\ HasDone(toClient'[c], finished'[c]) => HasDone(toClient[c], finished[c])
  BY <1>5
<1>13. /\ serving' = serving /\ session' = session /\ received' = received
       /\ Server \in closed'[c] <=> Server \in closed[c]
  BY <1>5
<1>14. ConnInv' /\ SessionsInv'
  BY <1>2, <1>9, <1>10, <1>11, <1>12, <1>13, ClientFrame
<1>15. QED
  BY <1>8, <1>14

\* What a client does but send leaves what it asks for as it is.
LEMMA ClientOtherStep ==
    ASSUME TypeInv, ConnInv, SessionsInv, NEW c \in Clients, Active(c), TypeInv',
           \/ todo[c] # <<>> /\ Head(todo[c]).do # "send" /\ closed' = closed
           \/ closed' = [closed EXCEPT ![c] = @ \cup {c}],
           UNCHANGED <<serving, session, received, toServer>>,
           todo'[Server] = todo[Server],
           \A d \in Clients \ {c} : Held(d),
           ~fault'[c] => /\ ~fault[c]
                         /\ HasDone(toClient'[c], finished'[c]) => HasDone(toClient[c], finished[c])
    PROVE  ConnInv' /\ SessionsInv'
<1>1. /\ c # Server /\ c \in Parties /\ session[c] \in Sessions /\ session[c] # None
      /\ c \notin closed[c]
      /\ toServer[c] \in Seq(Tok) /\ toClient[c] \in Seq(Tok) /\ todo[c] \in Seq(Steps)
  BY ClientFacts
<1>2. Server \in closed'[c] <=> Server \in closed[c]
  BY <1>1 DEF TypeInv
<1>3. /\ Asking(session[c], todo[c], toServer[c], FALSE) =>
            Asking(session[c], todo'[c], toServer'[c], c \in closed'[c])
      /\ AtParams(session[c], todo[c], toServer[c], FALSE) =>
            AtParams(session[c], todo'[c], toServer'[c], c \in closed'[c])
  <2>1. PICK s \in Sessions, t \in Seq(Steps), q \in Seq(Tok), u \in Seq(Steps) :
            s = session[c] /\ t = todo[c] /\ q = toServer[c] /\ u = todo'[c]
    BY <1>1 DEF TypeInv
  <2>2. toServer'[c] = q
    BY <2>1
  <2>3. CASE todo[c] # <<>> /\ Head(todo[c]).do # "send" /\ closed' = closed
    <3>1. /\ Asking(s, t, q, FALSE) => Asking(s, u, q, FALSE)
          /\ AtParams(s, t, q, FALSE) => AtParams(s, u, q, FALSE)
      BY <2>1, <2>3, ClientDoesOther
    <3>2. /\ Asking(s, u, q, FALSE) => Asking(s, u, q, c \in closed'[c])
          /\ AtParams(s, u, q, FALSE) => AtParams(s, u, q, c \in closed'[c])
      BY DEF Asking, AtParams
    <3>3. QED
      BY <2>1, <2>2, <3>1, <3>2
  <2>4. CASE closed' = [closed EXCEPT ![c] = @ \cup {c}]
    <3>1. /\ Asking(s, t, q, FALSE) => Asking(s, u, q, TRUE)
          /\ AtParams(s, t, q, FALSE) => AtParams(s, u, q, TRUE)
      BY ClientLeaves
    <3>2. c \in closed'[c]
      BY <2>4 DEF TypeInv
    <3>3. /\ Asking(s, u, q, TRUE) => Asking(s, u, q, c \in closed'[c])
          /\ AtParams(s, u, q, TRUE) => AtParams(s, u, q, c \in closed'[c])
      BY <3>2 DEF Asking, AtParams
    <3>4. QED
      BY <2>1, <2>2, <3>1, <3>3
  <2>5. QED
    BY <2>3, <2>4
<1>4. /\ session[c] # None /\ c \notin closed[c]
      /\ serving' = serving /\ session' = session /\ received' = received
  BY <1>1
<1>5. QED
  BY <1>2, <1>3, <1>4, ClientFrame

\* DONE cannot come to be in a stream that shrinks.
LEMMA RecvTokenStep ==
    ASSUME TypeInv, ConnInv, SessionsInv, NEW c \in Clients, RecvToken(c)
    PROVE  TypeInv' /\ ConnInv' /\ SessionsInv'
<1>1. Active(c) /\ todo[c] # <<>> /\ Head(todo[c]).do = "recv" /\ Advance(c)
  BY DEF RecvToken, Doing
<1>2. /\ c # Server /\ c \in Parties /\ session[c] \in Sessions /\ session[c] # None
      /\ In(c) = toClient[c] /\ toClient[c] \in Seq(Tok)
  BY <1>1, ClientFacts
<1>3. /\ todo' \in [Parties -> Seq(Steps)] /\ \A x \in Parties \ {c} : todo'[x] = todo[x]
  BY <1>1, <1>2, Advances
<1>4. /\ UNCHANGED <<server, serving, session, closed, rst, received, finished, fault, toServer>>
      /\ toClient' = [toClient EXCEPT ![c] = Tail(toClient[c])] /\ toClient[c] # <<>>
  BY <1>2 DEF RecvToken, SetIn
<1>5. PICK r \in Seq(Tok) : r = toClient[c]
  BY <1>2
<1>6. Tail(r) \in Seq(Tok)
  BY <1>4, <1>5, HeadTailProperties
<1>7. TypeInv'
  BY <1>3, <1>4, <1>5, <1>6 DEF TypeInv
<1>8. \A d \in Clients \ {c} : Held(d)
  BY <1>3, <1>4 DEF Held, TypeInv, Parties
<1>9. toClient'[c] = Tail(r) /\ finished'[c] = finished[c] /\ fault'[c] = fault[c]
  BY <1>4, <1>5 DEF TypeInv
<1>10. HasDone(Tail(r), finished[c]) => HasDone(r, finished[c])
  BY <1>4, <1>5, TailDone
<1>11. ~fault'[c] => /\ ~fault[c]
                     /\ HasDone(toClient'[c], finished'[c]) => HasDone(toClient[c], finished[c])
  BY <1>5, <1>9, <1>10
<1>12. todo'[Server] = todo[Server]
  BY <1>2, <1>3, PartyFacts
<1>13. QED
  BY <1>1, <1>4, <1>7, <1>8, <1>11, <1>12, ClientOtherStep

LEMMA RecvOnceStep ==
    ASSUME TypeInv, ConnInv, SessionsInv, NEW c \in Clients, RecvOnce(c)
    PROVE  TypeInv' /\ ConnInv' /\ SessionsInv'
<1>1. Active(c) /\ todo[c] # <<>> /\ Head(todo[c]).do = "once" /\ Advance(c)
  BY DEF RecvOnce, Doing
<1>2. /\ c # Server /\ c \in Parties /\ session[c] \in Sessions /\ session[c] # None
      /\ In(c) = toClient[c] /\ toClient[c] \in Seq(Tok) /\ Conn(c) = c
  BY <1>1, ClientFacts
<1>3. /\ todo' \in [Parties -> Seq(Steps)] /\ \A x \in Parties \ {c} : todo'[x] = todo[x]
  BY <1>1, <1>2, Advances
<1>4. UNCHANGED <<server, serving, session, closed, rst, received, toServer>>
  BY <1>2 DEF RecvOnce, SetIn
<1>5. PICK r, rest : r \in Seq(Tok) /\ r = toClient[c] /\ rest = <<"rest">> \o Tail(r)
  BY <1>2
<1>6. \/ /\ r # <<>> /\ finished' = [finished EXCEPT ![c] = Head(r)] /\ fault' = fault
         /\ toClient' = [toClient EXCEPT ![c] = Tail(r)]
      \/ /\ r # <<>> /\ finished' = [finished EXCEPT ![c] = Head(r)]
         /\ toClient' = [toClient EXCEPT ![c] = rest] /\ fault' = [fault EXCEPT ![c] = TRUE]
      \/ toClient' = toClient /\ finished' = [finished EXCEPT ![c] = "eof"] /\ fault' = fault
  BY <1>2, <1>5 DEF RecvOnce, SetIn
<1>7. r # <<>> => Head(r) \in Tok /\ Tail(r) \in Seq(Tok) /\ rest \in Seq(Tok)
  BY <1>5, RestOf, HeadTailProperties
<1>8. "eof" \in Tok
  BY DEF Tok, Words
<1>9. TypeInv'
  <2>1. /\ toClient' \in [Clients -> Seq(Tok)] /\ finished' \in [Clients -> Tok]
        /\ fault' \in [Clients -> BOOLEAN]
    BY <1>6, <1>7, <1>8 DEF TypeInv
  <2>2. QED
    BY <1>3, <1>4, <2>1 DEF TypeInv
<1>10. \A d \in Clients \ {c} : Held(d)
  BY <1>3, <1>4, <1>6 DEF Held, TypeInv, Parties
<1>11. \/ r # <<>> /\ toClient'[c] = Tail(r) /\ finished'[c] = Head(r) /\ fault'[c] = fault[c]
       \/ fault'[c] = TRUE
       \/ toClient'[c] = r /\ finished'[c] = "eof" /\ fault'[c] = fault[c]
  BY <1>5, <1>6 DEF TypeInv
<1>12. r # <<>> => (HasDone(Tail(r), Head(r)) => HasDone(r, finished[c]))
  BY <1>5, TailDone
<1>13. HasDone(r, "eof") => HasDone(r, finished[c])
  BY DEF HasDone
<1>14. ~fault'[c] => /\ ~fault[c]
                     /\ HasDone(toClient'[c], finished'[c]) => HasDone(toClient[c], finished[c])
  BY <1>5, <1>11, <1>12, <1>13
<1>15. todo'[Server] = todo[Server]
  BY <1>2, <1>3, PartyFacts
<1>16. QED
  BY <1>1, <1>4, <1>9, <1>10, <1>14, <1>15, ClientOtherStep

LEMMA ComputeStatsStep ==
    ASSUME TypeInv, ConnInv, SessionsInv, NEW c \in Clients, ComputeStats(c)
    PROVE  TypeInv' /\ ConnInv' /\ SessionsInv'
<1>1. Active(c) /\ todo[c] # <<>> /\ Head(todo[c]).do = "stats" /\ Advance(c)
  BY DEF ComputeStats, Doing
<1>2. c # Server /\ c \in Parties
  BY <1>1, ClientFacts
<1>3. /\ todo' \in [Parties -> Seq(Steps)] /\ \A x \in Parties \ {c} : todo'[x] = todo[x]
  BY <1>1, <1>2, Advances
<1>4. UNCHANGED <<server, serving, session, netVars, received, finished, fault>>
  BY DEF ComputeStats
<1>5. TypeInv'
  BY <1>3, <1>4 DEF TypeInv, netVars
<1>6. \A d \in Clients \ {c} : Held(d)
  BY <1>3, <1>4 DEF Held, Parties, netVars
<1>7. todo'[Server] = todo[Server]
  BY <1>2, <1>3, PartyFacts
<1>8. QED
  BY <1>1, <1>4, <1>5, <1>6, <1>7, ClientOtherStep DEF netVars

\* A client closes its socket at the end of its script, by an exception, because it
\* waits for too long, or because it is killed.
LEMMA ClientCloses ==
    ASSUME TypeInv, ConnInv, SessionsInv, NEW c \in Clients, Active(c), CloseSocket(c),
           UNCHANGED <<server, serving, session, received, finished>>,
           fault' = fault \/ fault' = [fault EXCEPT ![c] = TRUE]
    PROVE  TypeInv' /\ ConnInv' /\ SessionsInv'
<1>1. c # Server /\ c \in Parties /\ Conn(c) = c /\ In(c) = toClient[c]
  BY ClientFacts
<1>2. /\ closed' = [closed EXCEPT ![c] = @ \cup {c}]
      /\ \E x \in {"none", "coming", "arrived"} : rst' = [rst EXCEPT ![c] = x]
      /\ toClient' = [toClient EXCEPT ![c] = <<>>] /\ toServer' = toServer
      /\ todo' = [todo EXCEPT ![c] = <<>>]
  BY <1>1 DEF CloseSocket, SetIn, TypeInv
<1>3. TypeInv'
  <2>1. /\ closed' \in [Clients -> SUBSET Parties]
        /\ rst' \in [Clients -> {"none", "coming", "arrived"}]
    BY <1>1, <1>2 DEF TypeInv
  <2>2. toClient' \in [Clients -> Seq(Tok)]
    <3>1. <<>> \in Seq(Tok)
      OBVIOUS
    <3>2. QED
      BY <1>2, <3>1 DEF TypeInv
  <2>5. todo' \in [Parties -> Seq(Steps)]
    <3>1. <<>> \in Seq(Steps)
      OBVIOUS
    <3>2. QED
      BY <1>2, <3>1 DEF TypeInv
  <2>3. fault' \in [Clients -> BOOLEAN]
    BY DEF TypeInv
  <2>4. QED
    BY <1>2, <2>1, <2>2, <2>3, <2>5 DEF TypeInv
<1>4. \A d \in Clients \ {c} : Held(d)
  BY <1>2 DEF Held, TypeInv, Parties
<1>5. todo'[Server] = todo[Server]
  BY <1>1, <1>2
<1>6. toClient'[c] = <<>> /\ finished'[c] = finished[c] /\ (fault'[c] = fault[c] \/ fault'[c] = TRUE)
  BY <1>2 DEF TypeInv
<1>7. HasDone(<<>>, finished[c]) => HasDone(toClient[c], finished[c])
  BY DEF HasDone
<1>8. ~fault'[c] => /\ ~fault[c]
                    /\ HasDone(toClient'[c], finished'[c]) => HasDone(toClient[c], finished[c])
  BY <1>6, <1>7
<1>9. QED
  BY <1>2, <1>3, <1>4, <1>5, <1>8, ClientOtherStep

LEMMA ConnectStep ==
    ASSUME TypeInv, ConnInv, SessionsInv, NEW c \in Clients, Connect(c)
    PROVE  TypeInv' /\ ConnInv' /\ SessionsInv'
<1>1. PICK s \in Sessions : /\ session' = [session EXCEPT ![c] = s]
                            /\ todo' = [todo EXCEPT ![c] = ClientScript(s)]
  BY DEF Connect
<1>2. UNCHANGED <<server, serving, netVars, received, finished, fault>> /\ session[c] = None
  BY DEF Connect, Connected
<1>3. ClientScript(s) \in Seq(Steps)
  BY ClientShape
<1>4. c # None /\ c # Server /\ c \in Parties /\ s # None
  BY PartyFacts DEF Parties
<1>5. TypeInv'
  BY <1>1, <1>2, <1>3, <1>4 DEF TypeInv, netVars
<1>6. serving # c
  BY <1>2, <1>4 DEF ConnInv
<1>7. ConnInv'
  BY <1>1, <1>2, <1>4, <1>6 DEF ConnInv, netVars, TypeInv
<1>8. ASSUME NEW d \in Clients \ {c} PROVE BeginInv(d)' /\ CountInv(d)'
  <2>1. Held(d)
    BY <1>1, <1>2 DEF Held, netVars, TypeInv, Parties
  <2>2. (serving' = d) <=> (serving = d)
    BY <1>2
  <2>3. todo'[Server] = todo[Server]
    BY <1>1, <1>4, PartyFacts DEF TypeInv
  <2>4. BeginInv(d) /\ CountInv(d)
    BY DEF SessionsInv
  <2>5. QED
    BY <2>1, <2>2, <2>3, <2>4, HeldKeeps
<1>9. /\ session'[c] = s /\ todo'[c] = ClientScript(s) /\ toServer'[c] = <<>> /\ serving' # c
      /\ toClient'[c] = <<>> /\ received'[c] = 0 /\ finished'[c] = "no"
  BY <1>1, <1>2, <1>4, <1>6 DEF TypeInv, ConnInv, netVars
<1>10. BeginInv(c)'
  BY <1>9 DEF BeginInv, Begun, Asking
<1>11. CountInv(c)'
  <2>1. ~HasDone(<<>>, "no")
    BY DEF HasDone
  <2>2. QED
    BY <1>9, <2>1 DEF CountInv, Counted, Fresh
<1>12. QED
  BY <1>5, <1>7, <1>8, <1>10, <1>11 DEF SessionsInv

LEMMA RstStep ==
    ASSUME TypeInv, ConnInv, SessionsInv, NEW c \in Clients, RstArrives(c)
    PROVE  TypeInv' /\ ConnInv' /\ SessionsInv'
<1>1. rst' = [rst EXCEPT ![c] = "arrived"]
      /\ UNCHANGED <<server, serving, session, todo, toServer, toClient, closed,
                     received, finished, fault>>
  BY DEF RstArrives
<1>2. TypeInv' /\ ConnInv'
  BY <1>1 DEF TypeInv, ConnInv
<1>3. SessionsInv'
  BY <1>1 DEF SessionsInv, BeginInv, CountInv
<1>4. QED
  BY <1>2, <1>3

-----------------------------------------------------------------------------
(* The steps of the server.                                                *)

LEMMA AcceptStep ==
    ASSUME TypeInv, ConnInv, SessionsInv, Accept
    PROVE  TypeInv' /\ ConnInv' /\ SessionsInv'
<1>1. PICK c \in Clients : session[c] # None /\ Server \notin closed[c] /\ serving' = c
  BY DEF Accept, Connected
<1>2. /\ serving = None /\ todo' = [todo EXCEPT ![Server] = <<CommandStep>>]
      /\ UNCHANGED <<server, session, netVars, received, finished, fault>>
  BY DEF Accept, Step, CommandStep
<1>3. CommandStep \in Steps
  BY DEF CommandStep, Steps, Dos, Tok, Words
<1>4. PICK ts : ts = <<CommandStep>> /\ ts \in Seq(Steps)
  BY <1>3, OneStep
<1>5. todo' = [todo EXCEPT ![Server] = ts]
  BY <1>2, <1>4
<1>6. TypeInv'
  BY <1>1, <1>2, <1>4, <1>5 DEF TypeInv, netVars
<1>7. ConnInv'
  BY <1>1, <1>2 DEF ConnInv, netVars
<1>8. todo'[Server] = ts /\ \A d \in Clients : todo'[d] = todo[d] /\ d # None
  BY <1>5, PartyFacts DEF TypeInv, Parties
<1>9. ASSUME NEW d \in Clients \ {c} PROVE BeginInv(d)' /\ CountInv(d)'
  <2>1. Held(d)
    BY <1>2, <1>8 DEF Held, netVars
  <2>2. ~(serving' = d) /\ ~(serving = d)
    BY <1>1, <1>2, <1>8
  <2>3. BeginInv(d) /\ CountInv(d)
    BY DEF SessionsInv
  <2>4. QED
    BY <2>1, <2>2, <2>3, HeldKeeps
<1>10. BeginInv(c) /\ CountInv(c) /\ serving # c
  BY <1>2, <1>8 DEF SessionsInv
<1>11. /\ session'[c] = session[c] /\ todo'[c] = todo[c] /\ toServer'[c] = toServer[c]
       /\ toClient'[c] = toClient[c] /\ closed'[c] = closed[c] /\ received'[c] = received[c]
       /\ finished'[c] = finished[c] /\ fault'[c] = fault[c]
  BY <1>2, <1>8 DEF netVars
<1>12. BeginInv(c)'
  BY <1>1, <1>4, <1>8, <1>10, <1>11 DEF BeginInv, Begun
<1>13. CountInv(c)'
  BY <1>1, <1>4, <1>8, <1>10, <1>11 DEF CountInv, Counted, Served
<1>14. QED
  BY <1>6, <1>7, <1>9, <1>12, <1>13 DEF SessionsInv

LEMMA ServerFacts ==
    ASSUME TypeInv, ConnInv, SessionsInv, serving # None, NEW c, c = serving
    PROVE  /\ c \in Clients /\ c # None /\ session[c] \in Sessions /\ session[c] # None
           /\ Server \notin closed[c] /\ BeginInv(c) /\ CountInv(c)
           /\ Conn(Server) = c /\ Peer(Server) = c
           /\ In(Server) = toServer[c] /\ Out(Server) = toClient[c]
           /\ toServer[c] \in Seq(Tok) /\ toClient[c] \in Seq(Tok)
           /\ todo[Server] \in Seq(Steps) /\ received[c] \in Nat
<1>1. c \in Clients /\ Server \in Parties /\ c # Server
  BY PartyFacts DEF TypeInv
<1>2. session[c] \in Sessions /\ session[c] # None /\ Server \notin closed[c]
  BY <1>1 DEF TypeInv, ConnInv
<1>3. QED
  BY <1>1, <1>2 DEF TypeInv, SessionsInv, Conn, Peer, In, Out

\* A step of a measurement: the server sends, receives or computes.
LEMMA ServerDataStep ==
    ASSUME TypeInv, ConnInv, SessionsInv, NEW c, c = serving, serving # None, TypeInv',
           todo[Server] # <<>>, Head(todo[Server]).do \notin {"command", "params"},
           todo'[Server] = Rest(todo[Server]), todo'[c] = todo[c],
           UNCHANGED <<serving, session, closed, finished>>,
           \A d \in Clients \ {c} : Held(d),
           ~fault'[c] =>
              /\ ~fault[c]
              /\ received'[c] = IF Head(todo[Server]).do = "recv" THEN received[c] + 1 ELSE received[c]
              /\ HasDone(toClient'[c], finished[c]) =>
                     \/ HasDone(toClient[c], finished[c])
                     \/ Head(todo[Server]).do = "send" /\ Head(todo[Server]).tok = "DONE"
    PROVE  ConnInv' /\ SessionsInv'
<1>1. /\ c \in Clients /\ c # None /\ session[c] \in Sessions /\ session[c] # None
      /\ Server \notin closed[c] /\ BeginInv(c) /\ CountInv(c)
      /\ toServer[c] \in Seq(Tok) /\ toClient[c] \in Seq(Tok)
      /\ todo[Server] \in Seq(Steps) /\ received[c] \in Nat
  BY ServerFacts
<1>2. PICK s \in Sessions, ts \in Seq(Steps), n \in Nat :
          s = session[c] /\ ts = todo[Server] /\ n = received[c]
  BY <1>1
<1>3. PICK t, q, r, f : t = todo[c] /\ q = toServer[c] /\ r = toClient[c] /\ f = finished[c]
  OBVIOUS
<1>4. ts # <<>> /\ Head(ts).do \notin {"command", "params"}
  BY <1>2
<1>5. ts # <<CommandStep>> /\ ts # <<ParamsStep(s)>>
  <2>1. Head(<<CommandStep>>).do = "command" /\ Head(<<ParamsStep(s)>>).do = "params"
    BY DEF CommandStep, ParamsStep
  <2>2. QED
    BY <1>4, <2>1
<1>6. Begun(s, t, ts, q, c \in closed[c], Server \notin closed[c], serving = c)
  BY <1>1, <1>2, <1>3 DEF BeginInv
<1>7. ts \in Seq(DataSteps)
  BY <1>5, <1>6 DEF Begun
<1>8. Rest(ts) \in Seq(DataSteps)
  BY <1>4, <1>7, RestIn
<1>9. Begun(session[c], todo[c], todo'[Server], toServer'[c], c \in closed[c], TRUE, TRUE)
  BY <1>2, <1>8 DEF Begun
<1>10. ASSUME ~fault'[c]
       PROVE  /\ ~fault[c]
              /\ Served(session[c], todo'[Server], toClient'[c], finished[c], received'[c])
              /\ HasDone(toClient'[c], finished[c]) => received'[c] = session[c].n
  <2>1. ~fault[c]
    BY <1>10
  <2>2. Served(s, ts, r, f, n)
    BY <1>1, <1>2, <1>3, <2>1 DEF CountInv, Counted
  <2>3. PICK r2, n2 : r2 = toClient'[c] /\ n2 = received'[c]
    OBVIOUS
  <2>4. /\ n2 = IF Head(ts).do = "recv" THEN n + 1 ELSE n
        /\ HasDone(r2, f) => HasDone(r, f) \/ (Head(ts).do = "send" /\ Head(ts).tok = "DONE")
    BY <1>2, <1>3, <1>10, <2>3
  <2>5. Served(s, Rest(ts), r2, f, n2) /\ (HasDone(r2, f) => n2 = s.n)
    BY <1>4, <2>2, <2>4, ServedRest
  <2>6. QED
    BY <1>2, <1>3, <2>1, <2>3, <2>5
<1>11. QED
  BY <1>1, <1>9, <1>10, ServerFrame

LEMMA ServerSendStep ==
    ASSUME TypeInv, ConnInv, SessionsInv, SendToken(Server)
    PROVE  TypeInv' /\ ConnInv' /\ SessionsInv'
<1>1. /\ serving # None /\ todo[Server] # <<>> /\ Head(todo[Server]).do = "send" /\ Advance(Server)
  BY DEF SendToken, Doing, Active
<1>2. PICK c : c = serving
  OBVIOUS
<1>3. /\ c \in Clients /\ Conn(Server) = c /\ Peer(Server) = c /\ Out(Server) = toClient[c]
      /\ toClient[c] \in Seq(Tok)
  BY <1>1, <1>2, ServerFacts
<1>4. /\ todo' \in [Parties -> Seq(Steps)] /\ todo'[Server] = Rest(todo[Server])
      /\ \A x \in Parties \ {Server} : todo'[x] = todo[x]
      /\ Head(todo[Server]) \in Steps
  BY <1>1, PartyFacts, Advances
<1>5. PICK r \in Seq(Tok), x \in Tok : r = toClient[c] /\ x = Head(todo[Server]).tok
  BY <1>3, <1>4 DEF Steps
<1>6. UNCHANGED <<server, serving, session, closed, received, finished, fault, toServer>>
  BY DEF SendToken, SetOut
<1>7. \/ toClient' = toClient /\ rst' = [rst EXCEPT ![c] = "coming"]
      \/ toClient' = [toClient EXCEPT ![c] = Append(r, x)] /\ rst' = rst
  BY <1>2, <1>3, <1>5 DEF SendToken, SetOut
<1>8. Append(r, x) \in Seq(Tok)
  BY AppendProperties
<1>9. TypeInv'
  BY <1>4, <1>6, <1>7, <1>8 DEF TypeInv
<1>10. \A d \in Clients : todo'[d] = todo[d]
  BY <1>4, PartyFacts DEF Parties
<1>11. \A d \in Clients \ {c} : Held(d)
  BY <1>6, <1>7, <1>10 DEF Held, TypeInv
<1>12. toClient'[c] = r \/ toClient'[c] = Append(r, x)
  BY <1>3, <1>5, <1>7 DEF TypeInv
<1>13. HasDone(Append(r, x), finished[c]) => HasDone(r, finished[c]) \/ x = "DONE"
  BY AppendDone
<1>14. HasDone(toClient'[c], finished[c]) =>
           \/ HasDone(toClient[c], finished[c])
           \/ Head(todo[Server]).do = "send" /\ Head(todo[Server]).tok = "DONE"
  BY <1>1, <1>5, <1>12, <1>13
<1>15. received'[c] = (IF Head(todo[Server]).do = "recv" THEN received[c] + 1 ELSE received[c])
  BY <1>1, <1>6
<1>16. ConnInv' /\ SessionsInv'
  BY <1>1, <1>2, <1>3, <1>4, <1>6, <1>9, <1>10, <1>11, <1>14, <1>15, ServerDataStep
<1>17. QED
  BY <1>9, <1>16

LEMMA ServerRecvStep ==
    ASSUME TypeInv, ConnInv, SessionsInv, RecvToken(Server)
    PROVE  TypeInv' /\ ConnInv' /\ SessionsInv'
<1>1. /\ serving # None /\ todo[Server] # <<>> /\ Head(todo[Server]).do = "recv" /\ Advance(Server)
  BY DEF RecvToken, Doing, Active
<1>2. PICK c : c = serving
  OBVIOUS
<1>3. /\ c \in Clients /\ In(Server) = toServer[c] /\ toServer[c] \in Seq(Tok) /\ received[c] \in Nat
  BY <1>1, <1>2, ServerFacts
<1>4. /\ todo' \in [Parties -> Seq(Steps)] /\ todo'[Server] = Rest(todo[Server])
      /\ \A x \in Parties \ {Server} : todo'[x] = todo[x]
  BY <1>1, PartyFacts, Advances
<1>5. /\ UNCHANGED <<server, serving, session, closed, rst, finished, fault, toClient>>
      /\ toServer' = [toServer EXCEPT ![c] = Tail(toServer[c])] /\ toServer[c] # <<>>
      /\ received' = [received EXCEPT ![c] = @ + 1]
  BY <1>2, <1>3 DEF RecvToken, SetIn
<1>6. Tail(toServer[c]) \in Seq(Tok)
  BY <1>3, <1>5, HeadTailProperties
<1>7. TypeInv'
  BY <1>3, <1>4, <1>5, <1>6 DEF TypeInv
<1>8. \A d \in Clients : todo'[d] = todo[d]
  BY <1>4, PartyFacts DEF Parties
<1>9. \A d \in Clients \ {c} : Held(d)
  BY <1>5, <1>8 DEF Held, TypeInv
<1>10. received'[c] = (IF Head(todo[Server]).do = "recv" THEN received[c] + 1 ELSE received[c])
  BY <1>1, <1>3, <1>5 DEF TypeInv
<1>11. ConnInv' /\ SessionsInv'
  BY <1>1, <1>2, <1>3, <1>4, <1>5, <1>7, <1>8, <1>9, <1>10, ServerDataStep
<1>12. QED
  BY <1>7, <1>11

LEMMA ServerOnceStep ==
    ASSUME TypeInv, ConnInv, SessionsInv, RecvOnce(Server)
    PROVE  TypeInv' /\ ConnInv' /\ SessionsInv'
<1>1. /\ serving # None /\ todo[Server] # <<>> /\ Head(todo[Server]).do = "once" /\ Advance(Server)
  BY DEF RecvOnce, Doing, Active
<1>2. PICK c : c = serving
  OBVIOUS
<1>3. /\ c \in Clients /\ In(Server) = toServer[c] /\ toServer[c] \in Seq(Tok) /\ Conn(Server) = c
  BY <1>1, <1>2, ServerFacts
<1>4. /\ todo' \in [Parties -> Seq(Steps)] /\ todo'[Server] = Rest(todo[Server])
      /\ \A x \in Parties \ {Server} : todo'[x] = todo[x]
  BY <1>1, PartyFacts, Advances
<1>5. PICK q, rest : q \in Seq(Tok) /\ q = toServer[c] /\ rest = <<"rest">> \o Tail(q)
  BY <1>3
<1>6. UNCHANGED <<server, serving, session, closed, rst, received, toClient>>
  BY DEF RecvOnce, SetIn
<1>7. finished' = finished
  <2>1. finished' = [finished EXCEPT ![c] = finished[c]]
    BY <1>3 DEF RecvOnce
  <2>2. QED
    BY <2>1 DEF TypeInv
<1>8. \/ q # <<>> /\ toServer' = [toServer EXCEPT ![c] = Tail(q)] /\ fault' = fault
      \/ /\ q # <<>> /\ toServer' = [toServer EXCEPT ![c] = rest]
         /\ fault' = [fault EXCEPT ![c] = TRUE]
      \/ toServer' = toServer /\ fault' = fault
  BY <1>2, <1>3, <1>5 DEF RecvOnce, SetIn
<1>9. q # <<>> => Tail(q) \in Seq(Tok) /\ rest \in Seq(Tok)
  BY <1>5, RestOf
<1>10. TypeInv'
  <2>1. toServer' \in [Clients -> Seq(Tok)] /\ fault' \in [Clients -> BOOLEAN]
    BY <1>8, <1>9 DEF TypeInv
  <2>2. QED
    BY <1>4, <1>6, <1>7, <2>1 DEF TypeInv
<1>11. \A d \in Clients : todo'[d] = todo[d]
  BY <1>4, PartyFacts DEF Parties
<1>12. \A d \in Clients \ {c} : Held(d)
  BY <1>6, <1>7, <1>8, <1>11 DEF Held, TypeInv
<1>13. ~fault'[c] => ~fault[c]
  BY <1>3, <1>8 DEF TypeInv
<1>14. received'[c] = (IF Head(todo[Server]).do = "recv" THEN received[c] + 1 ELSE received[c])
  BY <1>1, <1>6
<1>15. ConnInv' /\ SessionsInv'
  BY <1>1, <1>2, <1>3, <1>4, <1>6, <1>7, <1>10, <1>11, <1>12, <1>13, <1>14, ServerDataStep
<1>16. QED
  BY <1>10, <1>15

LEMMA ServerStatsStep ==
    ASSUME TypeInv, ConnInv, SessionsInv, ComputeStats(Server)
    PROVE  TypeInv' /\ ConnInv' /\ SessionsInv'
<1>1. /\ serving # None /\ todo[Server] # <<>> /\ Head(todo[Server]).do = "stats" /\ Advance(Server)
  BY DEF ComputeStats, Doing, Active
<1>2. PICK c : c = serving
  OBVIOUS
<1>3. c \in Clients
  BY <1>1, <1>2, ServerFacts
<1>4. /\ todo' \in [Parties -> Seq(Steps)] /\ todo'[Server] = Rest(todo[Server])
      /\ \A x \in Parties \ {Server} : todo'[x] = todo[x]
  BY <1>1, PartyFacts, Advances
<1>5. UNCHANGED <<server, serving, session, toServer, toClient, closed, rst, received, finished, fault>>
  BY DEF ComputeStats, netVars
<1>6. TypeInv'
  BY <1>4, <1>5 DEF TypeInv
<1>7. \A d \in Clients : todo'[d] = todo[d]
  BY <1>4, PartyFacts DEF Parties
<1>8. \A d \in Clients \ {c} : Held(d)
  BY <1>5, <1>7 DEF Held
<1>9. received'[c] = (IF Head(todo[Server]).do = "recv" THEN received[c] + 1 ELSE received[c])
  BY <1>1, <1>5
<1>10. ConnInv' /\ SessionsInv'
  BY <1>1, <1>2, <1>3, <1>4, <1>5, <1>6, <1>7, <1>8, <1>9, ServerDataStep
<1>11. QED
  BY <1>6, <1>10

LEMMA ServedEarly ==
    ASSUME NEW s \in Sessions, NEW ts \in Seq(Steps), ts # <<>>, Head(ts).do \in {"command", "params"},
           NEW r, NEW f, NEW n, Served(s, ts, r, f, n)
    PROVE  Fresh(r, f, n)
<1>1. s.n \in Nat
  BY SessionFacts
<1>2. OnceStep.do = "once" /\ DoneStep.do = "send" /\ Head(<<DoneStep>>) = DoneStep
  BY DEF OnceStep, DoneStep
<1>3. \A k \in 0..s.n : ts # DownloadRest(k, s.n)
  <2>1. SUFFICES ASSUME NEW k \in Nat, ts = DownloadRest(k, s.n) PROVE FALSE
    BY <1>1
  <2>2. /\ k = 0 => Head(ts) = OnceStep
        /\ k > 0 => Head(ts) = [do |-> "send", tok |-> "data", n |-> k]
    BY <1>1, <2>1, Downloading
  <2>3. Head(ts).do = "once" \/ Head(ts).do = "send"
    BY <1>2, <2>2
  <2>4. QED
    BY <2>3
<1>4. \A k \in 0..s.n : ts # UploadRest(k)
  <2>1. SUFFICES ASSUME NEW k \in Nat, ts = UploadRest(k) PROVE FALSE
    BY <1>1
  <2>2. /\ k = 0 => ts = <<DoneStep>>
        /\ k > 0 => Head(ts) = [do |-> "recv", tok |-> "data", n |-> k]
    BY <1>1, <2>1, Downloading
  <2>3. Head(ts).do = "recv" \/ Head(ts).do = "send"
    BY <1>2, <2>2
  <2>4. QED
    BY <2>3
<1>5. ts \notin Seq(NoDone)
  BY RestIn DEF NoDone, DataSteps
<1>6. QED
  BY <1>3, <1>4, <1>5 DEF Served

\* What the script of the server has at its head is where it is.
LEMMA BegunEarly ==
    ASSUME NEW s \in Sessions, NEW ts \in Seq(Steps), ts # <<>>, NEW t, NEW q, NEW gone, NEW open,
           Begun(s, t, ts, q, gone, open, TRUE)
    PROVE  /\ Head(ts).do = "command" => Asking(s, t, q, gone)
           /\ Head(ts).do = "params" => AtParams(s, t, q, gone) /\ Head(ts).tok = s.cmd
<1>1. /\ Head(<<CommandStep>>).do = "command" /\ Head(<<ParamsStep(s)>>).do = "params"
      /\ Head(<<ParamsStep(s)>>).tok = s.cmd
  BY DEF CommandStep, ParamsStep
<1>2. ts \in Seq(DataSteps) => Head(ts).do \notin {"command", "params"}
  <2>1. ts \in Seq(DataSteps) => Head(ts) \in DataSteps
    BY HeadTailProperties
  <2>2. QED
    BY <2>1 DEF DataSteps
<1>3. QED
  BY <1>1, <1>2 DEF Begun

LEMMA CommandStepKeeps ==
    ASSUME TypeInv, ConnInv, SessionsInv, RecvCommand
    PROVE  TypeInv' /\ ConnInv' /\ SessionsInv'
<1>1. serving # None /\ todo[Server] # <<>> /\ Head(todo[Server]).do = "command"
  BY DEF RecvCommand, Doing, Active
<1>2. PICK c : c = serving
  OBVIOUS
<1>3. /\ c \in Clients /\ c # None /\ session[c] \in Sessions /\ session[c] # None
      /\ Server \notin closed[c] /\ BeginInv(c) /\ CountInv(c)
      /\ In(Server) = toServer[c] /\ toServer[c] \in Seq(Tok) /\ todo[Server] \in Seq(Steps)
  BY <1>1, <1>2, ServerFacts
<1>4. PICK s \in Sessions, ts \in Seq(Steps), q \in Seq(Tok) :
          s = session[c] /\ ts = todo[Server] /\ q = toServer[c]
  BY <1>3
<1>5. PICK t, rest, next : t = todo[c] /\ rest = <<"rest">> \o Tail(q) /\ next = AfterCommand(q[1])
  OBVIOUS
<1>6. Asking(s, t, q, c \in closed[c])
  <2>1. Begun(s, t, ts, q, c \in closed[c], Server \notin closed[c], TRUE)
    BY <1>2, <1>3, <1>4, <1>5 DEF BeginInv, Begun
  <2>2. QED
    BY <1>1, <1>4, <2>1, BegunEarly
<1>7. UNCHANGED <<server, serving, session, closed, rst, received, finished, toClient>>
  BY DEF RecvCommand, SetIn
<1>8. \/ /\ q # <<>> /\ q[1] # "SHUT" /\ toServer' = [toServer EXCEPT ![c] = Tail(q)]
         /\ todo' = [todo EXCEPT ![Server] = next] /\ fault' = fault
      \/ /\ q # <<>> /\ toServer' = [toServer EXCEPT ![c] = rest]
         /\ todo' = [todo EXCEPT ![Server] = <<>>] /\ fault' = [fault EXCEPT ![c] = TRUE]
      \/ toServer' = toServer /\ todo' = [todo EXCEPT ![Server] = <<>>] /\ fault' = fault
  BY <1>2, <1>3, <1>4, <1>5 DEF RecvCommand, SetIn
<1>9. q # <<>> => Tail(q) \in Seq(Tok) /\ rest \in Seq(Tok)
  BY <1>5, RestOf
<1>10. q # <<>> /\ q[1] # "SHUT" =>
           /\ AtParams(s, t, Tail(q), c \in closed[c]) /\ next = <<ParamsStep(s)>> /\ next \in Seq(Steps)
  <2>1. SUFFICES ASSUME q # <<>>, q[1] # "SHUT"
                 PROVE  /\ AtParams(s, t, Tail(q), c \in closed[c]) /\ next = <<ParamsStep(s)>>
                        /\ next \in Seq(Steps)
    OBVIOUS
  <2>2. AtParams(s, t, Tail(q), c \in closed[c]) /\ next = <<ParamsStep(s)>>
    BY <1>5, <1>6, <2>1, CommandRead
  <2>3. ParamsStep(s) \in Steps
    BY SessionFacts DEF ParamsStep, Steps, Dos
  <2>4. QED
    BY <2>2, <2>3, OneStep
<1>11. <<>> \in Seq(Steps) /\ <<>> \in Seq(DataSteps) /\ <<>> \in Seq(NoDone)
  <2>1. \A S : <<>> \in Seq(S)
    OBVIOUS
  <2>2. QED
    BY <2>1
<1>12. TypeInv'
  <2>1. toServer' \in [Clients -> Seq(Tok)] /\ fault' \in [Clients -> BOOLEAN]
    <3>1. toServer' \in [Clients -> Seq(Tok)]
      BY <1>8, <1>9 DEF TypeInv
    <3>2. fault' \in [Clients -> BOOLEAN]
      BY <1>8 DEF TypeInv
    <3>3. QED
      BY <3>1, <3>2
  <2>2. PICK x \in Seq(Steps) : todo' = [todo EXCEPT ![Server] = x]
    BY <1>8, <1>10, <1>11
  <2>3. todo' \in [Parties -> Seq(Steps)]
    BY <2>2 DEF TypeInv
  <2>4. QED
    BY <1>7, <2>1, <2>3 DEF TypeInv
<1>13. \A d \in Clients : todo'[d] = todo[d]
  BY <1>8, PartyFacts DEF TypeInv, Parties
<1>14. \A d \in Clients \ {c} : Held(d)
  BY <1>7, <1>8, <1>13 DEF Held, TypeInv
<1>15. \/ /\ q # <<>> /\ q[1] # "SHUT" /\ toServer'[c] = Tail(q) /\ todo'[Server] = next
          /\ fault'[c] = fault[c]
       \/ todo'[Server] = <<>> /\ (fault'[c] = TRUE \/ fault'[c] = fault[c])
  BY <1>3, <1>8, PartyFacts DEF TypeInv
<1>16. Begun(s, t, todo'[Server], toServer'[c], c \in closed[c], TRUE, TRUE)
  BY <1>10, <1>11, <1>15 DEF Begun
<1>17. ASSUME ~fault'[c]
       PROVE  /\ ~fault[c]
              /\ Served(s, todo'[Server], toClient'[c], finished[c], received'[c])
              /\ HasDone(toClient'[c], finished[c]) => received'[c] = s.n
  <2>1. ~fault[c]
    BY <1>15, <1>17
  <2>2. Fresh(toClient[c], finished[c], received[c])
    <3>1. Served(s, ts, toClient[c], finished[c], received[c])
      BY <1>2, <1>3, <1>4, <2>1 DEF CountInv, Counted
    <3>2. QED
      BY <1>1, <1>4, <3>1, ServedEarly
  <2>3. Served(s, todo'[Server], toClient[c], finished[c], received[c])
    BY <1>10, <1>11, <1>15, <2>2 DEF Served, Fresh
  <2>4. QED
    BY <1>7, <2>1, <2>2, <2>3 DEF Fresh
<1>18. ConnInv' /\ SessionsInv'
  BY <1>2, <1>3, <1>4, <1>5, <1>7, <1>13, <1>14, <1>16, <1>17, ServerFrame
<1>19. QED
  BY <1>12, <1>18

LEMMA ParamsStepKeeps ==
    ASSUME TypeInv, ConnInv, SessionsInv, RecvParams
    PROVE  TypeInv' /\ ConnInv' /\ SessionsInv'
<1>1. serving # None /\ todo[Server] # <<>> /\ Head(todo[Server]).do = "params"
  BY DEF RecvParams, Doing, Active
<1>2. PICK c : c = serving
  OBVIOUS
<1>3. /\ c \in Clients /\ c # None /\ session[c] \in Sessions /\ session[c] # None
      /\ Server \notin closed[c] /\ BeginInv(c) /\ CountInv(c)
      /\ In(Server) = toServer[c] /\ toServer[c] \in Seq(Tok) /\ todo[Server] \in Seq(Steps)
  BY <1>1, <1>2, ServerFacts
<1>4. PICK s \in Sessions, ts \in Seq(Steps), q \in Seq(Tok) :
          s = session[c] /\ ts = todo[Server] /\ q = toServer[c]
  BY <1>3
<1>5. PICK t : t = todo[c]
  OBVIOUS
<1>6. AtParams(s, t, q, c \in closed[c]) /\ Head(ts).tok = s.cmd
  <2>1. Begun(s, t, ts, q, c \in closed[c], Server \notin closed[c], TRUE)
    BY <1>2, <1>3, <1>4, <1>5 DEF BeginInv, Begun
  <2>2. QED
    BY <1>1, <1>4, <2>1, BegunEarly
<1>7. UNCHANGED <<server, serving, session, closed, rst, received, finished, toClient>>
  BY DEF RecvParams, SetIn
<1>8. q # <<>> /\ toServer' = [toServer EXCEPT ![c] = Tail(q)]
  BY <1>2, <1>3, <1>4 DEF RecvParams, SetIn
<1>9. q[1] = s /\ s.cmd # "SHUT"
  BY <1>6, <1>8 DEF AtParams
<1>10. PICK script :
          /\ todo' = [todo EXCEPT ![Server] = script]
          /\ \/ script = ServerScript(s) /\ fault' = fault
             \/ /\ \/ script \in {Spin, Stats(0)}
                   \/ \E x \in Sessions : x.cmd = s.cmd /\ script = ServerScript(x)
                /\ fault' = [fault EXCEPT ![c] = TRUE]
  <2>1. \/ /\ todo' = [todo EXCEPT ![Server] = ServerScript(In(Server)[1])]
           /\ fault' = fault
        \/ /\ \E x \in {Spin, Stats(0)} \cup
                 {ServerScript(y) : y \in {z \in Sessions : z.cmd = Head(todo[Server]).tok}} :
                     todo' = [todo EXCEPT ![Server] = x]
           /\ fault' = [fault EXCEPT ![serving] = TRUE]
    BY DEF RecvParams
  <2>2. In(Server)[1] = s /\ Head(todo[Server]).tok = s.cmd /\ serving = c
    BY <1>2, <1>3, <1>4, <1>6, <1>9
  <2>3. QED
    BY <2>1, <2>2
<1>11. script \in Seq(DataSteps) /\ script \in Seq(Steps)
  <2>1. \A x \in Sessions : x.cmd = s.cmd => ServerScript(x) \in Seq(DataSteps)
    BY <1>9, ServerShape
  <2>2. Spin \in Seq(DataSteps) /\ Stats(0) \in Seq(DataSteps)
    BY PartTypes, SubSteps
  <2>3. script \in Seq(DataSteps)
    BY <1>10, <2>1, <2>2
  <2>4. QED
    BY <2>3, SubSteps
<1>12. Tail(q) \in Seq(Tok)
  BY <1>8, HeadTailProperties
<1>13. fault' \in [Clients -> BOOLEAN]
  BY <1>10 DEF TypeInv
<1>14. TypeInv'
  BY <1>7, <1>8, <1>10, <1>11, <1>12, <1>13 DEF TypeInv
<1>15. todo'[Server] = script /\ \A d \in Clients : todo'[d] = todo[d]
  BY <1>10, PartyFacts DEF TypeInv, Parties
<1>16. \A d \in Clients \ {c} : fault'[d] = fault[d]
  BY <1>10 DEF TypeInv
<1>17. \A d \in Clients \ {c} : Held(d)
  BY <1>7, <1>8, <1>15, <1>16 DEF Held, TypeInv
<1>18. Begun(s, t, todo'[Server], toServer'[c], c \in closed[c], TRUE, TRUE)
  BY <1>11, <1>15 DEF Begun
<1>19. (fault'[c] = fault[c] /\ script = ServerScript(s)) \/ fault'[c] = TRUE
  BY <1>3, <1>10 DEF TypeInv
<1>20. ASSUME ~fault'[c]
       PROVE  /\ ~fault[c]
              /\ Served(s, todo'[Server], toClient'[c], finished[c], received'[c])
              /\ HasDone(toClient'[c], finished[c]) => received'[c] = s.n
  <2>1. ~fault[c] /\ script = ServerScript(s)
    BY <1>19, <1>20
  <2>2. Fresh(toClient[c], finished[c], received[c])
    <3>1. Served(s, ts, toClient[c], finished[c], received[c])
      BY <1>2, <1>3, <1>4, <2>1 DEF CountInv, Counted
    <3>2. QED
      BY <1>1, <1>4, <3>1, ServedEarly
  <2>3. Served(s, script, toClient[c], finished[c], received[c])
    BY <1>9, <2>1, <2>2, ParamsRead
  <2>4. QED
    BY <1>7, <1>15, <2>1, <2>2, <2>3 DEF Fresh
<1>21. ConnInv' /\ SessionsInv'
  BY <1>2, <1>3, <1>4, <1>5, <1>7, <1>15, <1>17, <1>18, <1>20, ServerFrame
<1>22. QED
  BY <1>14, <1>21

\* The server closes the socket of its client.
LEMMA ServerCloses ==
    ASSUME TypeInv, ConnInv, SessionsInv, serving # None, CloseSocket(Server), serving' = None,
           UNCHANGED <<server, session, received, finished>>,
           fault' = fault \/ fault' = [fault EXCEPT ![serving] = TRUE]
    PROVE  TypeInv' /\ ConnInv' /\ SessionsInv'
<1>1. PICK c : c = serving
  OBVIOUS
<1>2. /\ c \in Clients /\ session[c] # None /\ Conn(Server) = c /\ In(Server) = toServer[c]
  BY <1>1, ServerFacts
<1>3. /\ closed' = [closed EXCEPT ![c] = @ \cup {Server}]
      /\ \E x \in {"none", "coming", "arrived"} : rst' = [rst EXCEPT ![c] = x]
      /\ toServer' = [toServer EXCEPT ![c] = <<>>] /\ toClient' = toClient
      /\ todo' = [todo EXCEPT ![Server] = <<>>]
  <2>1. /\ closed' = [closed EXCEPT ![c] = @ \cup {Server}]
        /\ rst' = [rst EXCEPT ![c] = IF toServer[c] # <<>> /\ @ = "none" THEN "coming" ELSE @]
        /\ toServer' = [toServer EXCEPT ![c] = <<>>] /\ toClient' = toClient
        /\ todo' = [todo EXCEPT ![Server] = <<>>]
    BY <1>1, <1>2 DEF CloseSocket, SetIn
  <2>2. rst[c] \in {"none", "coming", "arrived"}
    BY <1>2 DEF TypeInv
  <2>3. QED
    BY <2>1, <2>2
<1>4. <<>> \in Seq(Tok) /\ <<>> \in Seq(Steps)
  <2>1. \A S : <<>> \in Seq(S)
    OBVIOUS
  <2>2. QED
    BY <2>1
<1>5. TypeInv'
  <2>1. closed' \in [Clients -> SUBSET Parties] /\ rst' \in [Clients -> {"none", "coming", "arrived"}]
    BY <1>2, <1>3, PartyFacts DEF TypeInv
  <2>2. toServer' \in [Clients -> Seq(Tok)] /\ todo' \in [Parties -> Seq(Steps)]
    BY <1>3, <1>4 DEF TypeInv
  <2>3. fault' \in [Clients -> BOOLEAN]
    BY DEF TypeInv
  <2>4. QED
    BY <1>3, <2>1, <2>2, <2>3 DEF TypeInv
<1>6. ASSUME NEW d \in Clients
      PROVE  /\ todo'[d] = todo[d]
             /\ ~fault'[d] => ~fault[d]
             /\ \/ Server \in closed'[d] /\ session[d] # None
                \/ /\ serving # d /\ closed'[d] = closed[d]
                   /\ toServer'[d] = toServer[d] \/ (session[d] = None /\ toServer'[d] = <<>>)
  <2>1. todo'[d] = todo[d]
    BY <1>3, PartyFacts DEF TypeInv, Parties
  <2>2. ~fault'[d] => ~fault[d]
    BY DEF TypeInv
  <2>3. CASE d = c
    BY <1>2, <1>3, <2>1, <2>2, <2>3 DEF TypeInv
  <2>4. CASE d # c
    BY <1>1, <1>3, <2>1, <2>2, <2>4 DEF TypeInv
  <2>5. QED
    BY <2>3, <2>4
<1>7. ConnInv' /\ SessionsInv'
  BY <1>3, <1>6, ServerLeavesFrame
<1>8. QED
  BY <1>5, <1>7

LEMMA ServerExitsStep ==
    ASSUME TypeInv, ConnInv, SessionsInv, NEW how, ServerExits(how)
    PROVE  TypeInv' /\ ConnInv' /\ SessionsInv'
<1>1. /\ serving' = None /\ todo' = [todo EXCEPT ![Server] = <<>>]
      /\ closed' = [c \in Clients |-> IF Connected(c) THEN closed[c] \cup {Server} ELSE closed[c]]
      /\ rst' = [c \in Clients |->
                    IF toServer[c] # <<>> /\ Server \notin closed[c] THEN "coming" ELSE rst[c]]
      /\ toServer' = [c \in Clients |-> <<>>]
      /\ UNCHANGED <<session, toClient, received, finished, fault>>
  BY DEF ServerExits
<1>2. <<>> \in Seq(Tok) /\ <<>> \in Seq(Steps)
  <2>1. \A S : <<>> \in Seq(S)
    OBVIOUS
  <2>2. QED
    BY <2>1
<1>3. TypeInv'
  <2>1. closed' \in [Clients -> SUBSET Parties]
    BY <1>1, PartyFacts DEF TypeInv
  <2>2. rst' \in [Clients -> {"none", "coming", "arrived"}]
    BY <1>1 DEF TypeInv
  <2>3. toServer' \in [Clients -> Seq(Tok)] /\ todo' \in [Parties -> Seq(Steps)]
    BY <1>1, <1>2 DEF TypeInv
  <2>4. QED
    BY <1>1, <2>1, <2>2, <2>3 DEF TypeInv
<1>4. ASSUME NEW d \in Clients
      PROVE  /\ todo'[d] = todo[d]
             /\ ~fault'[d] => ~fault[d]
             /\ \/ Server \in closed'[d] /\ session[d] # None
                \/ /\ serving # d /\ closed'[d] = closed[d]
                   /\ toServer'[d] = toServer[d] \/ (session[d] = None /\ toServer'[d] = <<>>)
  <2>1. todo'[d] = todo[d] /\ d # None
    BY <1>1, PartyFacts DEF TypeInv, Parties
  <2>2. CASE session[d] = None
    <3>1. serving # d
      BY <2>1, <2>2 DEF ConnInv
    <3>2. closed'[d] = closed[d] /\ toServer'[d] = <<>>
      BY <1>1, <2>2 DEF Connected
    <3>3. QED
      BY <1>1, <2>1, <2>2, <3>1, <3>2
  <2>3. CASE session[d] # None
    BY <1>1, <2>1, <2>3 DEF Connected
  <2>4. QED
    BY <2>2, <2>3
<1>5. ConnInv' /\ SessionsInv'
  BY <1>1, <1>4, ServerLeavesFrame
<1>6. QED
  BY <1>3, <1>5

-----------------------------------------------------------------------------
(* Every step.                                                             *)

LEMMA NetInit == ASSUME Init PROVE NetInv
<1>1. <<>> \in Seq(Tok) /\ <<>> \in Seq(Steps)
  <2>1. \A S : <<>> \in Seq(S)
    OBVIOUS
  <2>2. QED
    BY <2>1
<1>2. "no" \in Tok
  BY DEF Tok, Words
<1>3. TypeInv
  BY <1>1, <1>2 DEF Init, TypeInv
<1>4. ConnInv
  BY DEF Init, ConnInv
<1>5. SessionsInv
  BY DEF Init, SessionsInv, BeginInv, CountInv
<1>6. QED
  BY <1>3, <1>4, <1>5 DEF NetInv

LEMMA NetNext == ASSUME NetInv, [Next]_vars PROVE NetInv'
<1> USE DEF NetInv
<1>1. CASE Accept
  BY <1>1, AcceptStep
<1>2. CASE ServerStep
  <2>1. CASE SendToken(Server)
    BY <2>1, ServerSendStep
  <2>2. CASE RecvToken(Server)
    BY <2>2, ServerRecvStep
  <2>3. CASE RecvOnce(Server)
    BY <2>3, ServerOnceStep
  <2>4. CASE ComputeStats(Server)
    BY <2>4, ServerStatsStep
  <2>5. CASE RecvCommand
    BY <2>5, CommandStepKeeps
  <2>6. CASE RecvParams
    BY <2>6, ParamsStepKeeps
  <2>7. CASE ServerEnds
    BY <2>7, ServerCloses DEF ServerEnds
  <2>8. CASE Shutdown \/ ServerCrash
    BY <2>8, ServerExitsStep DEF Shutdown, ServerCrash
  <2>9. QED
    BY <1>2, <2>1, <2>2, <2>3, <2>4, <2>5, <2>6, <2>7, <2>8 DEF ServerStep, ScriptStep
<1>3. CASE ServerTimesOut
  <2>1. serving # None
    BY <1>3 DEF ServerTimesOut, Blocked, Active
  <2>2. QED
    BY <1>3, <2>1, ServerCloses DEF ServerTimesOut
<1>4. ASSUME NEW c \in Clients, Connect(c) \/ ClientStep(c) \/ ClientGivesUp(c) \/ RstArrives(c)
      PROVE  NetInv'
  <2>1. CASE Connect(c)
    BY <2>1, ConnectStep
  <2>2. CASE SendToken(c)
    BY <2>2, ClientSendStep
  <2>3. CASE RecvToken(c)
    BY <2>3, RecvTokenStep
  <2>4. CASE RecvOnce(c)
    BY <2>4, RecvOnceStep
  <2>5. CASE ComputeStats(c)
    BY <2>5, ComputeStatsStep
  <2>6. CASE ClientEnds(c)
    BY <2>6, ClientCloses DEF ClientEnds
  <2>7. CASE ClientGivesUp(c)
    BY <2>7, ClientCloses DEF ClientGivesUp
  <2>8. CASE RstArrives(c)
    BY <2>8, RstStep
  <2>9. QED
    BY <1>4, <2>1, <2>2, <2>3, <2>4, <2>5, <2>6, <2>7, <2>8 DEF ClientStep, ScriptStep
<1>5. CASE UNCHANGED vars
  BY <1>5 DEF vars, netVars, TypeInv, ConnInv, SessionsInv, BeginInv, CountInv
<1>6. QED
  BY <1>1, <1>2, <1>3, <1>4, <1>5 DEF Next

\* The server reads the command of a client first and its parameters second, and no
\* process touches a session of another one, however many clients come and whatever
\* breaks: every state is one of NetInv.
THEOREM NetSafe == Spec => []NetInv
BY NetInit, NetNext, PTL DEF Spec

\* A client that reads DONE, in a session without a fault, was served to the end: the
\* server has received all the data that it was to receive (netw.py recv_data sends
\* DONE after its loop).
THEOREM DoneReceived == Spec => []DoneMeansReceived
<1>1. ASSUME NetInv PROVE DoneMeansReceived
  <2>1. SUFFICES ASSUME NEW c \in Clients, finished[c] = "DONE", ~fault[c]
                 PROVE  received[c] = session[c].n
    BY DEF DoneMeansReceived
  <2>2. session[c] # None
    BY <1>1, <2>1 DEF NetInv, ConnInv
  <2>3. QED
    BY <1>1, <2>1, <2>2 DEF NetInv, SessionsInv, CountInv, Counted, HasDone
<1>2. QED
  BY <1>1, NetSafe, PTL

-----------------------------------------------------------------------------
(* Client and server never wait for each other.  Their scripts mirror each  *)
(* other, so a position in one is a position in the other.                  *)

Messages == {"send", "recv", "once", "command", "params"}
Weight(x) == IF x.do \in Messages THEN x.n ELSE 0

\* P[x] tokens go in one direction or the other before step x.
Clock(F, P) ==
    /\ P \in [1..(Len(F) + 1) -> Nat]
    /\ \A x \in 1..Len(F) : P[x + 1] = P[x] + Weight(F[x])
    /\ \A x, y \in 1..(Len(F) + 1) : x =< y => P[x] =< P[y]
HasClock(F) == \E P : Clock(F, P)

\* One side sends what the other one receives.
Mirrors(a, b) ==
    /\ a.n = b.n /\ (a.do \in Messages <=> b.do \in Messages)
    /\ a.do \in Messages => ((a.do = "send") <=> (b.do # "send"))
Dual(F, G) == Len(F) = Len(G) /\ \A x \in 1..Len(F) : Mirrors(F[x], G[x])

LEMMA WeightType == ASSUME NEW x \in Steps PROVE Weight(x) \in Nat
BY DEF Weight, Steps

LEMMA StepClock ==
    ASSUME NEW do \in Dos, NEW tok \in Tok, NEW n \in Nat
    PROVE  HasClock(Step(do, tok, n))
<1>1. CASE n = 0
  <2>1. PICK P : P = [x \in 1..1 |-> 0]
    OBVIOUS
  <2>2. PICK F : F = Step(do, tok, n) /\ Len(F) = 0
    BY <1>1 DEF Step
  <2>3. Clock(F, P)
    BY <2>1, <2>2 DEF Clock
  <2>4. QED
    BY <2>2, <2>3 DEF HasClock
<1>2. CASE n > 0
  <2>1. PICK a : a = [do |-> do, tok |-> tok, n |-> n] /\ a \in Steps
    <3>1. [do |-> do, tok |-> tok, n |-> n] \in Steps
      BY <1>2 DEF Steps
    <3>2. QED
      BY <3>1
  <2>2. PICK F : F = Step(do, tok, n)
    OBVIOUS
  <2>3. Len(F) = 1 /\ F[1] = a
    <3>1. F = <<a>>
      BY <1>2, <2>1, <2>2 DEF Step
    <3>2. QED
      BY <2>1, <3>1, OneStep
  <2>4. PICK w \in Nat : w = Weight(a)
    BY <2>1, WeightType
  <2>5. PICK P : P = [x \in 1..2 |-> IF x = 1 THEN 0 ELSE w]
    OBVIOUS
  <2>6. P \in [1..2 -> Nat] /\ P[1] = 0 /\ P[2] = w
    BY <2>5
  <2>7. Clock(F, P)
    <3>1. \A x \in 1..1 : P[x + 1] = P[x] + Weight(F[x])
      BY <2>3, <2>4, <2>6
    <3>2. \A x, y \in 1..2 : x =< y => P[x] =< P[y]
      BY <2>6
    <3>3. QED
      BY <2>3, <2>6, <3>1, <3>2 DEF Clock
  <2>8. QED
    BY <2>2, <2>7 DEF HasClock
<1>3. QED
  BY <1>1, <1>2

LEMMA JoinClock ==
    ASSUME NEW A \in Seq(Steps), NEW B \in Seq(Steps), HasClock(A), HasClock(B)
    PROVE  HasClock(A \o B)
<1>1. PICK P : Clock(A, P)
  BY DEF HasClock
<1>2. PICK Q : Clock(B, Q)
  BY DEF HasClock
<1>3. PICK l \in Nat, m \in Nat : l = Len(A) /\ m = Len(B)
  OBVIOUS
<1>4. PICK F : F = A \o B
  OBVIOUS
<1>5. /\ Len(F) = l + m
      /\ \A x \in 1..(l + m) : F[x] = IF x =< l THEN A[x] ELSE B[x - l]
  BY <1>3, <1>4, ConcatProperties
<1>6. /\ P \in [1..(l + 1) -> Nat] /\ Q \in [1..(m + 1) -> Nat]
      /\ \A x \in 1..l : P[x + 1] = P[x] + Weight(A[x])
      /\ \A x \in 1..m : Q[x + 1] = Q[x] + Weight(B[x])
      /\ \A x, y \in 1..(l + 1) : x =< y => P[x] =< P[y]
      /\ \A x, y \in 1..(m + 1) : x =< y => Q[x] =< Q[y]
  BY <1>1, <1>2, <1>3 DEF Clock
<1>7. PICK R : R = [x \in 1..(l + m + 1) |->
                       IF x =< l THEN P[x] ELSE P[l + 1] + (Q[x - l] - Q[1])]
  OBVIOUS
<1>8. \A x \in 1..(m + 1) : Q[1] =< Q[x] /\ Q[x] \in Nat
  BY <1>6
<1>9. P[l + 1] \in Nat /\ \A x \in 1..(l + 1) : P[x] =< P[l + 1] /\ P[x] \in Nat
  BY <1>6
<1>10. \A x \in 1..(l + m + 1) :
          /\ x =< l => R[x] = P[x]
          /\ x > l => R[x] = P[l + 1] + (Q[x - l] - Q[1]) /\ x - l \in 1..(m + 1)
  BY <1>7
<1>11. R[l + 1] = P[l + 1]
  BY <1>8, <1>9, <1>10
<1>12. R \in [1..(l + m + 1) -> Nat]
  <2>1. \A x \in 1..(l + m + 1) : R[x] \in Nat
    BY <1>8, <1>9, <1>10
  <2>2. QED
    BY <1>7, <2>1
<1>13. ASSUME NEW x \in 1..(l + m) PROVE R[x + 1] = R[x] + Weight(F[x])
  <2>1. CASE x =< l
    <3>1. R[x] = P[x] /\ F[x] = A[x] /\ P[x + 1] = P[x] + Weight(A[x])
      BY <1>5, <1>6, <1>10, <2>1
    <3>2. R[x + 1] = P[x + 1]
      BY <1>10, <1>11, <2>1
    <3>3. QED
      BY <3>1, <3>2
  <2>2. CASE x > l
    <3>1. /\ x - l \in 1..m /\ (x - l) + 1 = (x + 1) - l
          /\ R[x] = P[l + 1] + (Q[x - l] - Q[1]) /\ R[x + 1] = P[l + 1] + (Q[(x + 1) - l] - Q[1])
          /\ F[x] = B[x - l]
      <4>1. x - l \in 1..m /\ (x - l) + 1 = (x + 1) - l
        BY <2>2
      <4>2. x \in 1..(l + m + 1) /\ x + 1 \in 1..(l + m + 1) /\ x + 1 > l
        BY <2>2
      <4>3. R[x] = P[l + 1] + (Q[x - l] - Q[1])
        BY <1>10, <2>2, <4>2
      <4>4. R[x + 1] = P[l + 1] + (Q[(x + 1) - l] - Q[1])
        BY <1>10, <4>2
      <4>5. F[x] = B[x - l]
        BY <1>5, <2>2
      <4>6. QED
        BY <4>1, <4>3, <4>4, <4>5
    <3>2. Q[(x + 1) - l] = Q[x - l] + Weight(B[x - l])
      BY <1>6, <3>1
    <3>3. B[x - l] \in Steps
      BY <1>3, <3>1
    <3>4. Weight(B[x - l]) \in Nat /\ Q[x - l] \in Nat /\ Q[1] \in Nat
      BY <1>8, <3>1, <3>3, WeightType
    <3>5. PICK w, u, v, z \in Nat : /\ w = Weight(B[x - l]) /\ u = Q[x - l] /\ v = Q[1]
                                   /\ z = P[l + 1]
      BY <1>9, <3>4
    <3>6. R[x] = z + (u - v) /\ R[x + 1] = z + ((u + w) - v) /\ Weight(F[x]) = w
      BY <3>1, <3>2, <3>5
    <3>7. z + ((u + w) - v) = (z + (u - v)) + w
      BY ONLY w \in Nat, u \in Nat, v \in Nat, z \in Nat
    <3>8. QED
      BY <3>6, <3>7
  <2>3. QED
    BY <2>1, <2>2
<1>14. ASSUME NEW x \in 1..(l + m + 1), NEW y \in 1..(l + m + 1), x =< y PROVE R[x] =< R[y]
  <2>1. CASE y =< l
    <3>1. R[x] = P[x] /\ R[y] = P[y] /\ x \in 1..(l + 1) /\ y \in 1..(l + 1)
      BY <1>10, <1>14, <2>1
    <3>2. QED
      BY <1>6, <1>14, <3>1
  <2>2. CASE x =< l /\ y > l
    BY <1>8, <1>9, <1>10, <2>2
  <2>3. CASE x > l
    <3>1. /\ R[x] = P[l + 1] + (Q[x - l] - Q[1]) /\ R[y] = P[l + 1] + (Q[y - l] - Q[1])
          /\ x - l \in 1..(m + 1) /\ y - l \in 1..(m + 1) /\ x - l =< y - l
      BY <1>10, <1>14, <2>3
    <3>2. Q[x - l] =< Q[y - l]
      BY <1>6, <3>1
    <3>3. QED
      BY <1>8, <1>9, <3>1, <3>2
  <2>4. QED
    BY <2>1, <2>2, <2>3
<1>15. Clock(F, R)
  BY <1>5, <1>12, <1>13, <1>14 DEF Clock
<1>16. QED
  BY <1>4, <1>15 DEF HasClock

\* Steps of one size: what goes before step x is x - 1 times that size.
LEMMA EvenClock ==
    ASSUME NEW F \in Seq(Steps), NEW z \in Nat, \A x \in 1..Len(F) : Weight(F[x]) = z
    PROVE  HasClock(F)
<1>1. PICK l \in Nat : l = Len(F)
  OBVIOUS
<1>2. PICK P : P = [x \in 1..(l + 1) |-> (x - 1) * z]
  OBVIOUS
<1>3. \A x \in 1..(l + 1) : P[x] = (x - 1) * z
  BY <1>2
<1>4. P \in [1..(l + 1) -> Nat]
  <2>1. \A x \in 1..(l + 1) : (x - 1) * z \in Nat
    <3>1. \A x \in 1..(l + 1) : x - 1 \in Nat
      BY <1>1
    <3>2. \A a \in Nat : a * z \in Nat
      OBVIOUS
    <3>3. QED
      BY <3>1, <3>2
  <2>2. QED
    BY <1>2, <2>1
<1>5. ASSUME NEW x \in 1..l PROVE P[x + 1] = P[x] + Weight(F[x])
  <2>1. PICK a \in Nat : a = x - 1
    BY <1>1
  <2>2. P[x + 1] = (a + 1) * z /\ P[x] = a * z
    BY <1>1, <1>3, <2>1
  <2>3. (a + 1) * z = a * z + z
    OBVIOUS
  <2>4. Weight(F[x]) = z
    BY <1>1
  <2>5. QED
    BY <2>2, <2>3, <2>4
<1>6. ASSUME NEW x \in 1..(l + 1), NEW y \in 1..(l + 1), x =< y PROVE P[x] =< P[y]
  <2>1. PICK a \in Nat, d \in Nat : a = x - 1 /\ d = y - x /\ y - 1 = a + d
    BY <1>1, <1>6
  <2>2. P[x] = a * z /\ P[y] = (a + d) * z
    BY <1>3, <2>1
  <2>3. a * z =< (a + d) * z
    <3>1. (a + d) * z = a * z + d * z
      OBVIOUS
    <3>2. a * z \in Nat /\ d * z \in Nat
      OBVIOUS
    <3>3. QED
      BY <3>1, <3>2
  <2>4. QED
    BY <2>2, <2>3
<1>7. Clock(F, P)
  BY <1>1, <1>4, <1>5, <1>6 DEF Clock
<1>8. QED
  BY <1>7 DEF HasClock

LEMMA RepeatElements ==
    ASSUME NEW S, NEW n \in Nat, NEW steps \in Seq(S), Len(steps) \in {0, 2}
    PROVE  /\ Len(Repeat(n, steps)) = n * Len(steps) /\ n * Len(steps) \in Nat
           /\ \A x \in 1..(n * Len(steps)) :
                 /\ ((x - 1) % Len(steps)) + 1 \in 1..Len(steps)
                 /\ Repeat(n, steps)[x] = steps[((x - 1) % Len(steps)) + 1]
<1> DEFINE L == Len(steps)
           m == n * L
           at(k) == ((k - 1) % L) + 1
<1>1. m \in Nat /\ (L = 0 => m = 0)
  BY DEF m
<1>2. \A k \in 1..m : at(k) \in 1..L
  <2>1. CASE L = 0
    BY <1>1, <2>1
  <2>2. CASE L = 2
    BY <1>1, <2>2
  <2>3. QED
    BY <2>1, <2>2
<1>3. Repeat(n, steps) = [k \in 1..m |-> steps[at(k)]]
  BY DEF Repeat
<1>4. Len([k \in 1..m |-> steps[at(k)]]) = m
  BY <1>1
<1>5. QED
  BY <1>1, <1>2, <1>3, <1>4 DEF m, at, L

LEMMA RepeatClock ==
    ASSUME NEW n \in Nat, NEW steps \in Seq(Steps), Len(steps) \in {0, 2}, NEW z \in Nat,
           \A x \in 1..Len(steps) : Weight(steps[x]) = z
    PROVE  HasClock(Repeat(n, steps))
<1>1. PICK F \in Seq(Steps) : F = Repeat(n, steps)
  BY Repeated
<1>2. \A x \in 1..Len(F) : Weight(F[x]) = z
  <2>1. /\ Len(F) = n * Len(steps)
        /\ \A x \in 1..(n * Len(steps)) :
              /\ ((x - 1) % Len(steps)) + 1 \in 1..Len(steps)
              /\ F[x] = steps[((x - 1) % Len(steps)) + 1]
    BY <1>1, RepeatElements
  <2>2. ASSUME NEW x \in 1..Len(F) PROVE Weight(F[x]) = z
    <3>1. PICK k \in 1..Len(steps) : F[x] = steps[k]
      BY <2>1
    <3>2. QED
      BY <3>1
  <2>3. QED
    BY <2>2
<1>3. QED
  BY <1>1, <1>2, EvenClock

\* Scripts that mirror each other, put together.
LEMMA JoinDual ==
    ASSUME NEW A \in Seq(Steps), NEW B \in Seq(Steps), NEW C \in Seq(Steps), NEW D \in Seq(Steps),
           Dual(A, C), Dual(B, D)
    PROVE  Dual(A \o B, C \o D)
<1>1. PICK l \in Nat, m \in Nat : l = Len(A) /\ m = Len(B) /\ l = Len(C) /\ m = Len(D)
  BY DEF Dual
<1>2. PICK F, G : F = A \o B /\ G = C \o D
  OBVIOUS
<1>3. Len(F) = l + m /\ \A x \in 1..(l + m) : F[x] = IF x =< l THEN A[x] ELSE B[x - l]
  <2>1. /\ Len(A \o B) = Len(A) + Len(B)
        /\ \A x \in 1..(Len(A) + Len(B)) : (A \o B)[x] = IF x =< Len(A) THEN A[x] ELSE B[x - Len(A)]
    BY ConcatProperties
  <2>2. QED
    BY <1>1, <1>2, <2>1
<1>4. Len(G) = l + m /\ \A x \in 1..(l + m) : G[x] = IF x =< l THEN C[x] ELSE D[x - l]
  <2>1. /\ Len(C \o D) = Len(C) + Len(D)
        /\ \A x \in 1..(Len(C) + Len(D)) : (C \o D)[x] = IF x =< Len(C) THEN C[x] ELSE D[x - Len(C)]
    BY ConcatProperties
  <2>2. QED
    BY <1>1, <1>2, <2>1
<1>5. ASSUME NEW x \in 1..(l + m) PROVE Mirrors(F[x], G[x])
  <2>1. CASE x =< l
    <3>1. F[x] = A[x] /\ G[x] = C[x] /\ x \in 1..l
      BY <1>3, <1>4, <2>1
    <3>2. Mirrors(A[x], C[x])
      BY <1>1, <3>1 DEF Dual
    <3>3. QED
      BY <3>1, <3>2
  <2>2. CASE x > l
    <3>1. F[x] = B[x - l] /\ G[x] = D[x - l] /\ x - l \in 1..m
      BY <1>3, <1>4, <2>2
    <3>2. Mirrors(B[x - l], D[x - l])
      BY <1>1, <3>1 DEF Dual
    <3>3. QED
      BY <3>1, <3>2
  <2>3. x =< l \/ x > l
    OBVIOUS
  <2>4. QED
    BY <2>1, <2>2, <2>3
<1>6. QED
  BY <1>2, <1>3, <1>4, <1>5 DEF Dual

LEMMA RepeatDual ==
    ASSUME NEW n \in Nat, NEW A \in Seq(Steps), NEW C \in Seq(Steps), Len(A) \in {0, 2}, Dual(A, C)
    PROVE  Dual(Repeat(n, A), Repeat(n, C))
<1>1. Len(C) = Len(A) /\ \A x \in 1..Len(A) : Mirrors(A[x], C[x])
  BY DEF Dual
<1>2. PICK L, F, G : L \in Nat /\ L = Len(A) /\ F = Repeat(n, A) /\ G = Repeat(n, C)
  OBVIOUS
<1>3. Len(A) = L /\ Len(C) = L /\ L \in {0, 2}
  BY <1>1, <1>2
<1>4. /\ Len(F) = n * L
      /\ \A x \in 1..(n * L) : /\ ((x - 1) % L) + 1 \in 1..L
                               /\ F[x] = A[((x - 1) % L) + 1]
  <2>1. /\ Len(Repeat(n, A)) = n * Len(A)
        /\ \A x \in 1..(n * Len(A)) : /\ ((x - 1) % Len(A)) + 1 \in 1..Len(A)
                                      /\ Repeat(n, A)[x] = A[((x - 1) % Len(A)) + 1]
    BY RepeatElements
  <2>2. QED
    BY <1>2, <1>3, <2>1
<1>5. /\ Len(G) = n * L
      /\ \A x \in 1..(n * L) : G[x] = C[((x - 1) % L) + 1]
  <2>1. Len(C) \in {0, 2}
    BY <1>3
  <2>2. /\ Len(Repeat(n, C)) = n * Len(C)
        /\ \A x \in 1..(n * Len(C)) : Repeat(n, C)[x] = C[((x - 1) % Len(C)) + 1]
    BY <2>1, RepeatElements
  <2>3. QED
    BY <1>2, <1>3, <2>2
<1>6. \A x \in 1..L : Mirrors(A[x], C[x])
  BY <1>1, <1>3
<1>7. \A x \in 1..(n * L) : Mirrors(F[x], G[x])
  BY <1>4, <1>5, <1>6
<1>8. QED
  BY <1>2, <1>4, <1>5, <1>7 DEF Dual

\* Two steps that mirror each other, or none.
LEMMA StepDual ==
    ASSUME NEW d \in Dos, NEW e \in Dos, NEW u \in Tok, NEW v \in Tok, NEW n \in Nat,
           d \in Messages <=> e \in Messages, d \in Messages => ((d = "send") <=> (e # "send"))
    PROVE  Dual(Step(d, u, n), Step(e, v, n))
<1>1. CASE n = 0
  BY <1>1 DEF Step, Dual
<1>2. CASE n > 0
  <2>1. PICK a, b : /\ a = [do |-> d, tok |-> u, n |-> n] /\ a \in Steps
                    /\ b = [do |-> e, tok |-> v, n |-> n] /\ b \in Steps
    <3>1. [do |-> d, tok |-> u, n |-> n] \in Steps /\ [do |-> e, tok |-> v, n |-> n] \in Steps
      BY <1>2 DEF Steps
    <3>2. QED
      BY <3>1
  <2>2. a.do = d /\ a.n = n /\ b.do = e /\ b.n = n
    BY <2>1
  <2>3. Mirrors(a, b)
    BY <2>2 DEF Mirrors
  <2>4. PICK F, G : F = Step(d, u, n) /\ G = Step(e, v, n)
    OBVIOUS
  <2>5. F = <<a>> /\ G = <<b>>
    BY <1>2, <2>1, <2>4 DEF Step
  <2>6. Len(F) = 1 /\ F[1] = a /\ Len(G) = 1 /\ G[1] = b
    BY <2>1, <2>5, OneStep
  <2>7. Dual(F, G)
    BY <2>3, <2>6 DEF Dual
  <2>8. QED
    BY <2>4, <2>7
<1>3. QED
  BY <1>1, <1>2

\* What the server does in a whole session.
ServerSide(s) ==
    IF s.cmd = "SHUT" THEN <<CommandStep>>
    ELSE <<CommandStep>> \o (<<ParamsStep(s)>> \o ServerScript(s))

LEMMA ServerSideShape ==
    ASSUME NEW s \in Sessions, NEW g, g = ServerSide(s)
    PROVE  /\ g \in Seq(Steps) /\ g # <<>> /\ Head(g) = CommandStep /\ Rest(g) = Tail(g)
           /\ Tail(g) \in Seq(Steps)
           /\ s.cmd # "SHUT" => /\ Tail(g) # <<>> /\ Head(Tail(g)) = ParamsStep(s)
                                /\ Rest(Tail(g)) = ServerScript(s)
<1>1. CommandStep \in Steps /\ ParamsStep(s) \in Steps /\ CommandStep.n = 1 /\ ParamsStep(s).n = 1
  BY SessionFacts DEF CommandStep, ParamsStep, Steps, Dos, Tok, Words
<1>2. \A t : t \in Seq(Steps) /\ t # <<>> /\ Head(t).n = 1 => Rest(t) = Tail(t)
  <2>1. SUFFICES ASSUME NEW t \in Seq(Steps), t # <<>>, Head(t).n = 1 PROVE Rest(t) = Tail(t)
    OBVIOUS
  <2>2. Rest(t) = <<>> \o Tail(t)
    BY <2>1 DEF Rest, Step
  <2>3. QED
    BY <2>1, <2>2, RestType, ConcatEmptySeq
<1>3. CASE s.cmd = "SHUT"
  <2>1. g = <<CommandStep>>
    BY <1>3 DEF ServerSide
  <2>2. g \in Seq(Steps) /\ Len(g) = 1 /\ Head(g) = CommandStep /\ Tail(g) = <<>>
    BY <1>1, <2>1, OneStep
  <2>3. <<>> \in Seq(Steps)
    OBVIOUS
  <2>4. QED
    BY <1>1, <1>2, <1>3, <2>2, <2>3
<1>4. CASE s.cmd # "SHUT"
  <2>1. PICK u, R : R = ServerScript(s) /\ u = <<ParamsStep(s)>> \o R
    OBVIOUS
  <2>2. IsCons(u, ParamsStep(s), R) /\ IsCons(g, CommandStep, u)
    BY <1>4, <2>1 DEF IsCons, ServerSide
  <2>3. R \in Seq(Steps)
    BY <1>4, <2>1, ServerShape, SubSteps
  <2>4. u \in Seq(Steps) /\ Len(u) = Len(R) + 1 /\ Head(u) = ParamsStep(s) /\ Tail(u) = R
        /\ Len(R) \in Nat
    BY <1>1, <2>2, <2>3, ConsFacts
  <2>5. g \in Seq(Steps) /\ Len(g) = Len(u) + 1 /\ Head(g) = CommandStep /\ Tail(g) = u
    BY <1>1, <2>2, <2>4, ConsFacts
  <2>6. u # <<>> /\ g # <<>>
    BY <2>4, <2>5
  <2>7. Rest(u) = R /\ Rest(g) = u
    BY <1>1, <1>2, <2>4, <2>5, <2>6
  <2>8. QED
    BY <2>1, <2>4, <2>5, <2>6, <2>7
<1>5. QED
  BY <1>3, <1>4

\* The parts of the two scripts mirror each other.
LEMMA PartsMirror ==
    ASSUME NEW s \in Sessions
    PROVE  /\ Dual(RecvData(s), SendData(s)) /\ Dual(SendData(s), RecvData(s))
           /\ Dual(RecvPings(s.n, s.size), SendPings(s.n, s.size))
           /\ Dual(SendPings(s.n, s.size), RecvPings(s.n, s.size))
           /\ HasClock(RecvData(s)) /\ HasClock(SendData(s))
           /\ HasClock(RecvPings(s.n, s.size)) /\ HasClock(SendPings(s.n, s.size))
<1>1. s.n \in Nat /\ s.size \in Nat /\ s.n \in Tok
  BY SessionFacts
<1>2. /\ "data" \in Tok /\ "DONE" \in Tok /\ "none" \in Tok
      /\ "send" \in Dos /\ "recv" \in Dos /\ "once" \in Dos /\ "stats" \in Dos /\ "spin" \in Dos
      /\ "send" \in Messages /\ "recv" \in Messages /\ "once" \in Messages
      /\ "stats" \notin Messages /\ "spin" \notin Messages
  BY DEF Tok, Words, Dos, Messages
<1>3. ASSUME NEW n \in Nat
      PROVE  /\ Send("data", n) \in Seq(Steps) /\ Recv(n) \in Seq(Steps)
             /\ HasClock(Send("data", n)) /\ HasClock(Recv(n))
             /\ Dual(Send("data", n), Recv(n)) /\ Dual(Recv(n), Send("data", n))
  <2>1. Send("data", n) \in Seq(Steps) /\ Recv(n) \in Seq(Steps)
    <3>1. n > 0 => /\ [do |-> "send", tok |-> "data", n |-> n] \in Steps
                   /\ [do |-> "recv", tok |-> "data", n |-> n] \in Steps
      BY <1>2 DEF Steps
    <3>2. QED
      BY <3>1, StepIn DEF Send, Recv
  <2>2. HasClock(Send("data", n)) /\ HasClock(Recv(n))
    BY <1>2, StepClock DEF Send, Recv
  <2>3. Dual(Send("data", n), Recv(n)) /\ Dual(Recv(n), Send("data", n))
    BY <1>2, StepDual DEF Send, Recv
  <2>4. QED
    BY <2>1, <2>2, <2>3
<1>4. /\ Send("DONE", 1) \in Seq(Steps) /\ RecvDone \in Seq(Steps)
      /\ HasClock(Send("DONE", 1)) /\ HasClock(RecvDone)
      /\ Dual(Send("DONE", 1), RecvDone) /\ Dual(RecvDone, Send("DONE", 1))
  <2>1. Send("DONE", 1) \in Seq(Steps) /\ RecvDone \in Seq(Steps)
    <3>1. /\ [do |-> "send", tok |-> "DONE", n |-> 1] \in Steps
          /\ [do |-> "once", tok |-> "DONE", n |-> 1] \in Steps
      BY <1>2 DEF Steps
    <3>2. QED
      BY <3>1, StepIn DEF Send, RecvDone
  <2>2. HasClock(Send("DONE", 1)) /\ HasClock(RecvDone)
    BY <1>2, StepClock DEF Send, RecvDone
  <2>3. Dual(Send("DONE", 1), RecvDone) /\ Dual(RecvDone, Send("DONE", 1))
    BY <1>2, StepDual DEF Send, RecvDone
  <2>4. QED
    BY <2>1, <2>2, <2>3
<1>5. Spin \in Seq(Steps) /\ HasClock(Spin) /\ Dual(Spin, Spin)
  <2>1. Spin \in Seq(Steps)
    BY PartTypes, SubSteps
  <2>2. HasClock(Spin) /\ Dual(Spin, Spin)
    BY <1>2, StepClock, StepDual DEF Spin
  <2>3. QED
    BY <2>1, <2>2
<1>6. Stats(s.n) \in Seq(Steps) /\ HasClock(Stats(s.n)) /\ Dual(Stats(s.n), Stats(s.n))
  <2>1. Stats(s.n) \in Seq(Steps)
    BY <1>1, PartTypes, SubSteps
  <2>2. HasClock(Stats(s.n)) /\ Dual(Stats(s.n), Stats(s.n))
    BY <1>1, <1>2, StepClock, StepDual DEF Stats
  <2>3. QED
    BY <2>1, <2>2
<1>7. /\ Dual(RecvData(s), SendData(s)) /\ Dual(SendData(s), RecvData(s))
      /\ HasClock(RecvData(s)) /\ HasClock(SendData(s))
  <2>1. CASE s.n > 0 /\ s.size = 0
    BY <1>5, <2>1 DEF SendData, RecvData
  <2>2. CASE ~(s.n > 0 /\ s.size = 0)
    <3>1. PICK a, b, x, y : /\ a = Send("data", s.n) /\ b = Recv(s.n)
                            /\ x = Send("DONE", 1) /\ y = RecvDone
      OBVIOUS
    <3>2. SendData(s) = a \o y /\ RecvData(s) = b \o x
      BY <2>2, <3>1 DEF SendData, RecvData
    <3>3. /\ a \in Seq(Steps) /\ b \in Seq(Steps) /\ x \in Seq(Steps) /\ y \in Seq(Steps)
          /\ HasClock(a) /\ HasClock(b) /\ HasClock(x) /\ HasClock(y)
          /\ Dual(a, b) /\ Dual(b, a) /\ Dual(x, y) /\ Dual(y, x)
      BY <1>1, <1>3, <1>4, <3>1
    <3>4. Dual(a \o y, b \o x) /\ Dual(b \o x, a \o y)
      BY <3>3, JoinDual
    <3>5. HasClock(a \o y) /\ HasClock(b \o x)
      BY <3>3, JoinClock
    <3>6. QED
      BY <3>2, <3>4, <3>5
  <2>3. QED
    BY <2>1, <2>2
<1>8. PICK a, b : /\ a = Send("data", s.size) \o Recv(s.size)
                  /\ b = Recv(s.size) \o Send("data", s.size)
  OBVIOUS
<1>9. PICK x, y, w : x = Repeat(s.n, a) /\ y = Repeat(s.n, b) /\ w = Stats(s.n)
  OBVIOUS
<1>10. SendPings(s.n, s.size) = x \o w /\ RecvPings(s.n, s.size) = y \o w
  BY <1>8, <1>9 DEF SendPings, RecvPings
<1>11. /\ a \in Seq(Steps) /\ b \in Seq(Steps) /\ Dual(a, b) /\ Dual(b, a)
       /\ Len(a) \in {0, 2} /\ Len(b) \in {0, 2}
       /\ \A k \in 1..Len(a) : Weight(a[k]) = s.size
       /\ \A k \in 1..Len(b) : Weight(b[k]) = s.size
  <2>1. PICK u, v, z : u = Send("data", s.size) /\ v = Recv(s.size) /\ z \in Nat /\ z = s.size
    BY <1>1
  <2>2. u \in Seq(Steps) /\ v \in Seq(Steps) /\ Dual(u, v) /\ Dual(v, u)
    BY <1>1, <1>3, <2>1
  <2>3. a = u \o v /\ b = v \o u
    BY <1>8, <2>1
  <2>4. a \in Seq(Steps) /\ b \in Seq(Steps) /\ Dual(a, b) /\ Dual(b, a)
    BY <2>2, <2>3, JoinDual, ConcatProperties
  <2>5. CASE z = 0
    <3>1. u = <<>> /\ v = <<>>
      BY <2>1, <2>5 DEF Send, Recv, Step
    <3>2. a = <<>> /\ b = <<>>
      BY <2>3, <3>1
    <3>3. Len(a) = 0 /\ Len(b) = 0
      BY <3>2
    <3>4. QED
      BY <2>4, <3>3
  <2>6. CASE z > 0
    <3>1. PICK d, e : /\ d = [do |-> "send", tok |-> "data", n |-> z] /\ d \in Steps
                      /\ e = [do |-> "recv", tok |-> "data", n |-> z] /\ e \in Steps
      <4>1. /\ [do |-> "send", tok |-> "data", n |-> z] \in Steps
            /\ [do |-> "recv", tok |-> "data", n |-> z] \in Steps
        BY <1>2, <2>1, <2>6 DEF Steps
      <4>2. QED
        BY <4>1
    <3>2. u = <<d>> /\ v = <<e>>
      BY <2>1, <2>6, <3>1 DEF Send, Recv, Step
    <3>3. Len(u) = 1 /\ u[1] = d /\ Len(v) = 1 /\ v[1] = e
      BY <3>1, <3>2, OneStep
    <3>4. /\ Len(a) = 2 /\ a[1] = d /\ a[2] = e
          /\ Len(b) = 2 /\ b[1] = e /\ b[2] = d
      <4>1. /\ Len(u \o v) = Len(u) + Len(v)
            /\ \A k \in 1..(Len(u) + Len(v)) : (u \o v)[k] = IF k =< Len(u) THEN u[k] ELSE v[k - Len(u)]
        BY <2>2, ConcatProperties
      <4>2. /\ Len(v \o u) = Len(v) + Len(u)
            /\ \A k \in 1..(Len(v) + Len(u)) : (v \o u)[k] = IF k =< Len(v) THEN v[k] ELSE u[k - Len(v)]
        BY <2>2, ConcatProperties
      <4>3. QED
        BY <2>3, <3>3, <4>1, <4>2
    <3>5. Weight(d) = z /\ Weight(e) = z
      BY <1>2, <3>1 DEF Weight
    <3>6. QED
      BY <2>1, <2>4, <3>4, <3>5
  <2>7. QED
    BY <2>1, <2>5, <2>6
<1>12. /\ x \in Seq(Steps) /\ y \in Seq(Steps) /\ Dual(x, y) /\ Dual(y, x) /\ HasClock(x) /\ HasClock(y)
  <2>1. x \in Seq(Steps) /\ y \in Seq(Steps)
    BY <1>1, <1>9, <1>11, Repeated
  <2>2. Dual(x, y) /\ Dual(y, x)
    BY <1>1, <1>9, <1>11, RepeatDual
  <2>3. HasClock(x) /\ HasClock(y)
    BY <1>1, <1>9, <1>11, RepeatClock
  <2>4. QED
    BY <2>1, <2>2, <2>3
<1>13. /\ Dual(x \o w, y \o w) /\ Dual(y \o w, x \o w) /\ HasClock(x \o w) /\ HasClock(y \o w)
  BY <1>6, <1>9, <1>12, JoinDual, JoinClock
<1>14. QED
  BY <1>7, <1>10, <1>13

Associates(A, B, C) == (A \o B) \o C = A \o (B \o C)
LEMMA Associative ==
    ASSUME NEW A \in Seq(Steps), NEW B \in Seq(Steps), NEW C \in Seq(Steps)
    PROVE  Associates(A, B, C)
BY ConcatAssociative DEF Associates

LEMMA ScriptsMirror ==
    ASSUME NEW s \in Sessions
    PROVE  HasClock(ClientScript(s)) /\ Dual(ClientScript(s), ServerSide(s))
<1>1. PICK a, b, c, d : /\ a = Send(s.cmd, 1) /\ b = Send(s, 1)
                        /\ c = <<CommandStep>> /\ d = <<ParamsStep(s)>>
  OBVIOUS
<1>2. /\ "send" \in Dos /\ "command" \in Dos /\ "params" \in Dos /\ "any" \in Tok
      /\ "send" \in Messages /\ "command" \in Messages /\ "params" \in Messages
      /\ s.cmd \in Tok /\ s \in Tok
  BY SessionFacts DEF Dos, Tok, Words, Messages
<1>3. c = Step("command", "any", 1) /\ d = Step("params", s.cmd, 1)
  BY <1>1 DEF Step, CommandStep, ParamsStep
<1>4. /\ a \in Seq(Steps) /\ b \in Seq(Steps) /\ c \in Seq(Steps) /\ d \in Seq(Steps)
  <2>1. /\ [do |-> "send", tok |-> s.cmd, n |-> 1] \in Steps
        /\ [do |-> "send", tok |-> s, n |-> 1] \in Steps
        /\ [do |-> "command", tok |-> "any", n |-> 1] \in Steps
        /\ [do |-> "params", tok |-> s.cmd, n |-> 1] \in Steps
    BY <1>2 DEF Steps
  <2>2. QED
    BY <1>1, <1>3, <2>1, StepIn DEF Send
<1>5. HasClock(a) /\ HasClock(b) /\ Dual(a, c) /\ Dual(b, d)
  BY <1>1, <1>2, <1>3, StepClock, StepDual DEF Send
<1>6. CASE s.cmd = "SHUT"
  <2>1. ClientScript(s) = a /\ ServerSide(s) = c
    BY <1>1, <1>6 DEF ClientScript, ServerSide
  <2>2. QED
    BY <1>5, <2>1
<1>7. ASSUME s.cmd # "SHUT", NEW x \in Seq(Steps), NEW y \in Seq(Steps),
             NEW u \in Seq(Steps), NEW v \in Seq(Steps),
             HasClock(x), HasClock(y), Dual(x, u), Dual(y, v),
             ClientScript(s) = ((a \o b) \o x) \o y, ServerScript(s) = u \o v
      PROVE  HasClock(ClientScript(s)) /\ Dual(ClientScript(s), ServerSide(s))
  <2>1. a \o b \in Seq(Steps) /\ c \o d \in Seq(Steps) /\ HasClock(a \o b) /\ Dual(a \o b, c \o d)
    BY <1>4, <1>5, JoinClock, JoinDual, ConcatProperties
  <2>2. PICK e, f : e = a \o b /\ f = c \o d
    OBVIOUS
  <2>3. e \o x \in Seq(Steps) /\ f \o u \in Seq(Steps) /\ HasClock(e \o x) /\ Dual(e \o x, f \o u)
    BY <1>7, <2>1, <2>2, JoinClock, JoinDual, ConcatProperties
  <2>4. PICK g, h : g = e \o x /\ h = f \o u
    OBVIOUS
  <2>5. HasClock(g \o y) /\ Dual(g \o y, h \o v)
    BY <1>7, <2>3, <2>4, JoinClock, JoinDual
  <2>6. ClientScript(s) = g \o y
    BY <1>7, <2>2, <2>4
  <2>7. ServerSide(s) = h \o v
    <3>1. ServerSide(s) = c \o (d \o (u \o v))
      BY <1>1, <1>7 DEF ServerSide
    <3>2. PICK w \in Seq(Steps) : w = u \o v
      BY ConcatProperties
    <3>3. c \o (d \o w) = f \o w
      <4>1. c \in Seq(Steps) /\ d \in Seq(Steps) /\ w \in Seq(Steps)
        BY <1>4, <3>2
      <4>2. Associates(c, d, w)
        BY <4>1, Associative
      <4>3. QED
        BY <2>2, <4>2 DEF Associates
    <3>4. f \o w = h \o v
      <4>1. f \in Seq(Steps)
        BY <2>1, <2>2
      <4>2. Associates(f, u, v)
        BY <4>1, Associative
      <4>3. QED
        BY <2>4, <3>2, <4>2 DEF Associates
    <3>5. QED
      BY <3>1, <3>2, <3>3, <3>4
  <2>8. QED
    BY <2>5, <2>6, <2>7
<1>8. CASE s.cmd = "SPDT"
  <2>1. PICK x, y : x = RecvData(s) /\ y = SendData(s)
    OBVIOUS
  <2>2. /\ x \in Seq(Steps) /\ y \in Seq(Steps) /\ HasClock(x) /\ HasClock(y)
        /\ Dual(x, y) /\ Dual(y, x)
    BY <2>1, PartTypes, SubSteps, PartsMirror
  <2>3. ClientScript(s) = ((a \o b) \o x) \o y /\ ServerScript(s) = y \o x /\ s.cmd # "SHUT"
    BY <1>1, <1>8, <2>1 DEF ClientScript, ServerScript, Request
  <2>4. QED
    BY <1>7, <2>2, <2>3
<1>9. CASE s.cmd = "LATN"
  <2>1. PICK x, y : x = RecvPings(s.n, s.size) /\ y = SendPings(s.n, s.size)
    OBVIOUS
  <2>2. /\ x \in Seq(Steps) /\ y \in Seq(Steps) /\ HasClock(x) /\ HasClock(y)
        /\ Dual(x, y) /\ Dual(y, x)
    BY <2>1, PartTypes, SubSteps, PartsMirror
  <2>3. ClientScript(s) = ((a \o b) \o x) \o y /\ ServerScript(s) = y \o x /\ s.cmd # "SHUT"
    BY <1>1, <1>9, <2>1 DEF ClientScript, ServerScript, Request
  <2>4. QED
    BY <1>7, <2>2, <2>3
<1>10. QED
  BY <1>6, <1>8, <1>9, SessionFacts

\* p tokens of script F have gone when t is left of it.
At(t, F, P, p) ==
    /\ Len(t) =< Len(F)
    /\ t = <<>> => p = P[Len(F) + 1]
    /\ t # <<>> => LET k == Len(F) - Len(t) + 1 IN
          /\ t[1].do = F[k].do /\ t[1].n =< F[k].n /\ p = P[k + 1] - Weight(t[1])
          /\ \A y \in 2..Len(t) : t[y] = F[k + y - 1]

\* One side is at p and sends the steps in S, the other is at m: what one of them is
\* ahead lies in its stream, and is its own to send.
Leads(T, P, p, m, q) ==
    /\ p >= m => Len(q) = p - m
    /\ p =< m => q = <<>>
    /\ \A x \in T : ~(m < p /\ m < P[x + 1] /\ P[x] < p)
Sync(S, T, P, p, m, q, r) == Leads(T, P, p, m, q) /\ Leads(S, P, m, p, r)

LEMMA AtMessage ==
    ASSUME NEW t \in Seq(Steps), t # <<>>, Head(t).do \in Messages,
           NEW F \in Seq(Steps), NEW P, Clock(F, P), NEW p, At(t, F, P, p)
    PROVE  /\ p \in Nat
           /\ \E k \in 1..Len(F) : F[k].do = Head(t).do /\ P[k] =< p /\ p < P[k + 1]
<1>1. PICK l \in Nat, j \in Nat \ {0} : l = Len(F) /\ j = Len(t)
  BY RestType
<1>2. PICK a \in Steps : a = Head(t) /\ a = t[1]
  BY RestType
<1>3. PICK k : k = l - j + 1
  OBVIOUS
<1>4. j =< l /\ a.do = F[k].do /\ a.n =< F[k].n /\ p = P[k + 1] - Weight(a)
  BY <1>1, <1>2, <1>3 DEF At
<1>5. k \in 1..l
  BY <1>3, <1>4
<1>6. P[k + 1] = P[k] + Weight(F[k]) /\ P[k] \in Nat /\ P[k + 1] \in Nat
  <2>1. P \in [1..(l + 1) -> Nat] /\ \A x \in 1..l : P[x + 1] = P[x] + Weight(F[x])
    BY <1>1 DEF Clock
  <2>2. k \in 1..(l + 1) /\ k + 1 \in 1..(l + 1)
    BY <1>5
  <2>3. QED
    BY <1>5, <2>1, <2>2
<1>7. Weight(a) = a.n /\ Weight(F[k]) = F[k].n /\ a.n \in Nat \ {0} /\ F[k].n \in Nat
  <2>1. F[k] \in Steps
    BY <1>1, <1>5
  <2>2. a.n \in Nat \ {0} /\ F[k].n \in Nat
    BY <2>1 DEF Steps
  <2>3. a.do \in Messages /\ F[k].do \in Messages
    BY <1>2, <1>4
  <2>4. QED
    BY <2>2, <2>3 DEF Weight
<1>8. p \in Nat /\ P[k] =< p /\ p < P[k + 1]
  <2>1. PICK x \in Nat, y \in Nat, n \in Nat \ {0}, z \in Nat :
            x = P[k] /\ y = P[k + 1] /\ n = a.n /\ z = F[k].n
    BY <1>6, <1>7
  <2>2. y = x + z /\ n =< z /\ p = y - n
    BY <1>4, <1>6, <1>7, <2>1
  <2>3. p \in Nat /\ x =< p /\ p < y
    BY <2>2
  <2>4. QED
    BY <2>1, <2>3
<1>9. QED
  BY <1>1, <1>2, <1>4, <1>5, <1>8

\* What is left after one token.
LEMMA RestShape ==
    ASSUME NEW t \in Seq(Steps), t # <<>>
    PROVE  /\ Head(t).n = 1 => Rest(t) = Tail(t)
           /\ Head(t).n > 1 =>
                 /\ Len(Rest(t)) = Len(t) /\ Rest(t) # <<>>
                 /\ Rest(t)[1] = [do |-> Head(t).do, tok |-> Head(t).tok, n |-> Head(t).n - 1]
                 /\ \A y \in 2..Len(t) : Rest(t)[y] = t[y]
<1>1. /\ Head(t) \in Steps /\ Tail(t) \in Seq(Steps) /\ Len(t) \in Nat \ {0}
      /\ Len(Tail(t)) = Len(t) - 1 /\ \A y \in 1..Len(Tail(t)) : Tail(t)[y] = t[y + 1]
  BY RestType, HeadTailProperties
<1>2. CASE Head(t).n = 1
  <2>1. Rest(t) = <<>> \o Tail(t)
    BY <1>2 DEF Rest, Step
  <2>2. PICK R : R = Tail(t) /\ R \in Seq(Steps)
    BY <1>1
  <2>3. <<>> \o R = R
    BY <2>2, ConcatEmptySeq
  <2>4. Rest(t) = Tail(t)
    BY <2>1, <2>2, <2>3
  <2>5. QED
    BY <1>2, <2>4
<1>3. CASE Head(t).n > 1
  <2>1. PICK a : /\ a = [do |-> Head(t).do, tok |-> Head(t).tok, n |-> Head(t).n - 1]
                 /\ a \in Steps
    <3>1. [do |-> Head(t).do, tok |-> Head(t).tok, n |-> Head(t).n - 1] \in Steps
      BY <1>1, <1>3 DEF Steps
    <3>2. QED
      BY <3>1
  <2>2. PICK one, R, u : one = <<a>> /\ R = Tail(t) /\ u = Rest(t)
    OBVIOUS
  <2>3. u = one \o R
    BY <1>1, <1>3, <2>1, <2>2 DEF Rest, Step, Steps
  <2>4. one \in Seq(Steps) /\ Len(one) = 1 /\ one[1] = a
    BY <2>1, <2>2, OneStep
  <2>5. R \in Seq(Steps)
    BY <1>1, <2>2
  <2>6. /\ Len(u) = Len(one) + Len(R)
        /\ \A y \in 1..(Len(one) + Len(R)) : u[y] = IF y =< Len(one) THEN one[y] ELSE R[y - Len(one)]
    BY <2>3, <2>4, <2>5, ConcatProperties
  <2>7. Len(R) = Len(t) - 1
    BY <1>1, <2>2
  <2>8. Len(u) = Len(t) /\ u[1] = a /\ \A y \in 2..Len(t) : u[y] = R[y - 1]
    BY <1>1, <2>4, <2>6, <2>7
  <2>9. \A y \in 2..Len(t) : u[y] = t[y]
    <3>1. ASSUME NEW y \in 2..Len(t) PROVE u[y] = t[y]
      <4>1. y - 1 \in 1..Len(R) /\ (y - 1) + 1 = y
        BY <1>1, <2>7
      <4>2. R[y - 1] = t[(y - 1) + 1]
        BY <1>1, <2>2, <4>1
      <4>3. QED
        BY <2>8, <4>1, <4>2
    <3>2. QED
      BY <3>1
  <2>10. u # <<>>
    BY <1>1, <2>8
  <2>11. QED
    BY <1>3, <2>1, <2>2, <2>8, <2>9, <2>10
<1>4. QED
  BY <1>1, <1>2, <1>3 DEF Steps

\* The tokens of a step that is sent or received are not none.
LEMMA MessageWeight ==
    ASSUME NEW F \in Seq(Steps), NEW P, Clock(F, P), NEW x \in 1..Len(F), F[x].do \in Messages
    PROVE  P[x] \in Nat /\ P[x + 1] \in Nat /\ P[x] < P[x + 1]
<1>1. PICK l \in Nat : l = Len(F)
  OBVIOUS
<1>2. P \in [1..(l + 1) -> Nat] /\ \A y \in 1..l : P[y + 1] = P[y] + Weight(F[y])
  BY <1>1 DEF Clock
<1>3. x \in 1..l /\ x \in 1..(l + 1) /\ x + 1 \in 1..(l + 1)
  BY <1>1
<1>4. F[x] \in Steps
  BY <1>1
<1>5. F[x].n \in Nat \ {0} /\ Weight(F[x]) = F[x].n
  BY <1>4 DEF Weight, Steps
<1>6. QED
  BY <1>2, <1>3, <1>5

LEMMA SameClock ==
    ASSUME NEW F, NEW G, NEW P, Clock(F, P), Dual(F, G)
    PROVE  Clock(G, P)
<1>1. PICK l : l = Len(F) /\ l = Len(G)
  BY DEF Dual
<1>2. \A x \in 1..l : Weight(F[x]) = Weight(G[x])
  BY <1>1 DEF Dual, Mirrors, Weight
<1>3. QED
  BY <1>1, <1>2 DEF Clock

LEMMA AtStart ==
    ASSUME NEW F \in Seq(Steps), NEW P, Clock(F, P)
    PROVE  P[1] \in Nat /\ At(F, F, P, P[1])
<1>1. PICK l \in Nat : l = Len(F)
  OBVIOUS
<1>2. P \in [1..(l + 1) -> Nat] /\ \A y \in 1..l : P[y + 1] = P[y] + Weight(F[y])
  BY <1>1 DEF Clock
<1>3. P[1] \in Nat
  BY <1>2
<1>4. CASE F = <<>>
  BY <1>3, <1>4 DEF At
<1>5. CASE F # <<>>
  <2>1. l >= 1 /\ l - l + 1 = 1
    BY <1>1, <1>5, RestType
  <2>2. F[1] \in Steps /\ F[1].n \in Nat
    <3>1. F[1] \in Steps
      BY <1>1, <2>1
    <3>2. QED
      BY <3>1 DEF Steps
  <2>3. Weight(F[1]) \in Nat /\ P[2] = P[1] + Weight(F[1]) /\ P[2] \in Nat
    BY <1>2, <2>1, <2>2, WeightType
  <2>4. P[1] = P[2] - Weight(F[1])
    BY <1>3, <2>3
  <2>5. \A y \in 2..l : F[y] = F[1 + y - 1]
    BY <1>1
  <2>6. QED
    BY <1>1, <1>3, <1>5, <2>1, <2>2, <2>4, <2>5 DEF At
<1>6. QED
  BY <1>4, <1>5

LEMMA AtRest ==
    ASSUME NEW t \in Seq(Steps), t # <<>>, NEW F \in Seq(Steps), NEW P, Clock(F, P),
           NEW p \in Nat, At(t, F, P, p),
           NEW d, d = IF Head(t).do \in Messages THEN 1 ELSE 0
    PROVE  At(Rest(t), F, P, p + d)
<1>1. PICK l \in Nat, j \in Nat \ {0} : l = Len(F) /\ j = Len(t)
  BY RestType
<1>2. PICK a \in Steps : a = Head(t) /\ a = t[1]
  BY RestType
<1>3. PICK k : k = l - j + 1
  OBVIOUS
<1>4. /\ j =< l /\ a.do = F[k].do /\ a.n =< F[k].n /\ p = P[k + 1] - Weight(a)
      /\ \A y \in 2..j : t[y] = F[k + y - 1]
  BY <1>1, <1>2, <1>3 DEF At
<1>5. k \in 1..l
  BY <1>3, <1>4
<1>6. P \in [1..(l + 1) -> Nat] /\ \A x \in 1..l : P[x + 1] = P[x] + Weight(F[x])
  BY <1>1 DEF Clock
<1>7. PICK u : u = Rest(t)
  OBVIOUS
<1>8. a.n \in Nat \ {0} /\ d \in {0, 1} /\ (d = 0 => Weight(a) = 0) /\ (d = 1 => Weight(a) = a.n)
  BY <1>2 DEF Weight, Steps
<1>9. P[k + 1] \in Nat
  BY <1>5, <1>6
<1>10. CASE a.n = 1
  <2>1. u = Tail(t) /\ Len(u) = j - 1 /\ \A y \in 1..(j - 1) : u[y] = t[y + 1]
    <3>1. u = Tail(t)
      BY <1>2, <1>7, <1>10, RestShape
    <3>2. PICK R : R = Tail(t)
      OBVIOUS
    <3>3. Len(R) = Len(t) - 1 /\ \A y \in 1..Len(R) : R[y] = t[y + 1]
      BY <3>2, HeadTailProperties
    <3>4. QED
      BY <1>1, <3>1, <3>2, <3>3
  <2>2. u \in Seq(Steps)
    BY <1>7, RestType
  <2>3. p + d = P[k + 1]
    BY <1>4, <1>8, <1>9, <1>10
  <2>4. CASE j = 1
    <3>1. Len(u) = 0 /\ u = <<>> /\ k = l
      BY <1>3, <2>1, <2>2, <2>4
    <3>2. QED
      BY <1>1, <1>7, <2>3, <3>1 DEF At
  <2>5. CASE j > 1
    <3>1. u # <<>> /\ l - Len(u) + 1 = k + 1 /\ Len(u) =< l /\ k + 1 \in 1..l
      <4>1. Len(u) = j - 1
        BY <2>1
      <4>2. u # <<>>
        <5>1. Len(u) # 0
          BY <2>5, <4>1
        <5>2. QED
          BY <5>1
      <4>3. QED
        BY <1>1, <1>3, <1>4, <1>5, <2>5, <4>1, <4>2
    <3>2. u[1] = F[k + 1]
      <4>1. u[1] = t[2] /\ t[2] = F[k + 2 - 1] /\ k + 2 - 1 = k + 1
        BY <1>4, <1>5, <2>1, <2>5
      <4>2. QED
        BY <4>1
    <3>3. F[k + 1] \in Steps /\ F[k + 1].n \in Nat /\ Weight(F[k + 1]) \in Nat
      <4>1. F[k + 1] \in Steps
        BY <1>1, <3>1
      <4>2. QED
        BY <4>1, WeightType DEF Steps
    <3>4. P[(k + 1) + 1] = P[k + 1] + Weight(F[k + 1])
      BY <1>6, <3>1
    <3>5. p + d = P[(k + 1) + 1] - Weight(u[1])
      BY <1>9, <2>3, <3>2, <3>3, <3>4
    <3>6. \A y \in 2..Len(u) : u[y] = F[(k + 1) + y - 1]
      <4>1. ASSUME NEW y \in 2..(j - 1) PROVE u[y] = F[(k + 1) + y - 1]
        <5>1. u[y] = t[y + 1] /\ y + 1 \in 2..j
          BY <1>1, <2>1
        <5>2. t[y + 1] = F[k + (y + 1) - 1] /\ k + (y + 1) - 1 = (k + 1) + y - 1
          BY <1>4, <1>5, <5>1
        <5>3. QED
          BY <5>1, <5>2
      <4>2. QED
        BY <2>1, <4>1
    <3>7. u[1].do = F[k + 1].do /\ u[1].n =< F[k + 1].n
      BY <3>2, <3>3
    <3>8. QED
      BY <1>1, <1>7, <3>1, <3>5, <3>6, <3>7 DEF At
  <2>6. QED
    BY <1>1, <2>4, <2>5
<1>11. CASE a.n > 1
  <2>1. PICK b : b = [do |-> a.do, tok |-> a.tok, n |-> a.n - 1]
    OBVIOUS
  <2>2. Len(u) = j /\ u # <<>> /\ u[1] = b /\ \A y \in 2..j : u[y] = t[y]
    BY <1>1, <1>2, <1>7, <1>11, <2>1, RestShape
  <2>3. b.do = a.do /\ b.n = a.n - 1
    BY <2>1
  <2>4. Weight(b) = Weight(a) - d /\ Weight(a) \in Nat
    BY <1>2, <1>8, <2>3 DEF Weight
  <2>5. p + d = P[k + 1] - Weight(b)
    BY <1>4, <1>8, <1>9, <2>4
  <2>6. b.do = F[k].do /\ b.n =< F[k].n
    <3>1. F[k] \in Steps
      BY <1>1, <1>5
    <3>2. F[k].n \in Nat
      BY <3>1 DEF Steps
    <3>3. QED
      BY <1>4, <1>8, <2>3, <3>2
  <2>7. \A y \in 2..j : u[y] = F[k + y - 1]
    BY <1>4, <2>2
  <2>8. QED
    BY <1>1, <1>3, <1>4, <1>7, <2>2, <2>5, <2>6, <2>7 DEF At
<1>12. QED
  BY <1>8, <1>10, <1>11

-----------------------------------------------------------------------------
(* Two positions.                                                           *)

\* P rises in every step of S and T, which no step is in both of.
Course(P, l, S, T) ==
    /\ P \in [1..(l + 1) -> Nat]
    /\ \A x, y \in 1..(l + 1) : x =< y => P[x] =< P[y]
    /\ S \subseteq 1..l /\ T \subseteq 1..l /\ S \cap T = {}
    /\ \A x \in S \cup T : P[x] < P[x + 1]

LEMMA OnePlace ==
    ASSUME NEW P, NEW l \in Nat, NEW S, NEW T, Course(P, l, S, T), NEW p \in Nat,
           NEW x \in 1..l, NEW y \in 1..l,
           P[x] =< p, p < P[x + 1], P[y] =< p, p < P[y + 1]
    PROVE  x = y
<1>1. /\ P \in [1..(l + 1) -> Nat] /\ \A i, k \in 1..(l + 1) : i =< k => P[i] =< P[k]
  BY DEF Course
<1>2. /\ x \in 1..(l + 1) /\ y \in 1..(l + 1) /\ x + 1 \in 1..(l + 1) /\ y + 1 \in 1..(l + 1)
  OBVIOUS
<1>3. /\ P[x] \in Nat /\ P[y] \in Nat /\ P[x + 1] \in Nat /\ P[y + 1] \in Nat
  BY <1>1, <1>2
<1>4. ~(x + 1 =< y)
  BY <1>1, <1>2, <1>3
<1>5. ~(y + 1 =< x)
  BY <1>1, <1>2, <1>3
<1>6. QED
  BY <1>4, <1>5

LEMMA SyncSend ==
    ASSUME NEW P, NEW l \in Nat, NEW S, NEW T, Course(P, l, S, T),
           NEW p \in Nat, NEW m \in Nat, NEW k \in S, P[k] =< p, p < P[k + 1],
           NEW U, NEW q \in Seq(U), NEW r, NEW v \in Seq(U), Len(v) = Len(q) + 1,
           Sync(S, T, P, p, m, q, r)
    PROVE  Sync(S, T, P, p + 1, m, v, r)
<1>1. /\ P \in [1..(l + 1) -> Nat] /\ S \subseteq 1..l /\ T \subseteq 1..l /\ S \cap T = {}
      /\ \A x \in S \cup T : P[x] < P[x + 1]
  BY DEF Course
<1>2. \A x \in S \cup T : P[x] \in Nat /\ P[x + 1] \in Nat /\ P[x] < P[x + 1] /\ x \in 1..l
  BY <1>1
<1>3. Leads(T, P, p, m, q) /\ Leads(S, P, m, p, r)
  BY DEF Sync
<1>4. p >= m
  <2>1. ~(p < m /\ p < P[k + 1] /\ P[k] < m)
    BY <1>3 DEF Leads
  <2>2. QED
    BY <1>2, <2>1
<1>5. Len(q) = p - m /\ r = <<>>
  BY <1>3, <1>4 DEF Leads
<1>6. ASSUME NEW x \in T PROVE ~(m < p + 1 /\ m < P[x + 1] /\ P[x] < p + 1)
  <2>1. ~(m < p /\ m < P[x + 1] /\ P[x] < p)
    BY <1>3 DEF Leads
  <2>2. x # k /\ x \in 1..l /\ k \in 1..l
    BY <1>1
  <2>3. ~(P[x] =< p /\ p < P[x + 1])
    BY <2>2, OnePlace
  <2>4. QED
    BY <1>2, <2>1, <2>3
<1>7. Leads(T, P, p + 1, m, v)
  BY <1>4, <1>5, <1>6 DEF Leads
<1>8. Leads(S, P, m, p + 1, r)
  BY <1>4, <1>5 DEF Leads
<1>9. QED
  BY <1>7, <1>8 DEF Sync

LEMMA SyncReceive ==
    ASSUME NEW P, NEW S, NEW T, NEW p \in Nat, NEW m \in Nat,
           NEW U, NEW q, NEW r \in Seq(U), r # <<>>,
           Sync(S, T, P, p, m, q, r), \A x \in S : P[x] \in Nat /\ P[x + 1] \in Nat
    PROVE  Sync(S, T, P, p + 1, m, q, Tail(r))
<1>1. Leads(T, P, p, m, q) /\ Leads(S, P, m, p, r)
  BY DEF Sync
<1>2. p < m
  BY <1>1 DEF Leads
<1>3. Len(r) = m - p /\ q = <<>>
  BY <1>1, <1>2 DEF Leads
<1>4. PICK R : R = Tail(r) /\ Len(R) = m - (p + 1) /\ R \in Seq(U)
  <2>1. PICK R : R = Tail(r)
    OBVIOUS
  <2>2. R \in Seq(U) /\ Len(R) = Len(r) - 1
    BY <2>1, HeadTailProperties
  <2>3. (m - p) - 1 = m - (p + 1)
    OBVIOUS
  <2>4. QED
    BY <1>3, <2>1, <2>2, <2>3
<1>5. Leads(T, P, p + 1, m, q)
  <2>1. Len(q) = 0
    BY <1>3
  <2>2. QED
    BY <1>2, <1>3, <2>1 DEF Leads
<1>6. Leads(S, P, m, p + 1, R)
  <2>1. \A x \in S : ~(p < m /\ p < P[x + 1] /\ P[x] < m)
    BY <1>1 DEF Leads
  <2>2. \A x \in S : ~(p + 1 < m /\ p + 1 < P[x + 1] /\ P[x] < m)
    BY <1>2, <2>1
  <2>3. m =< p + 1 => R = <<>>
    BY <1>2, <1>4
  <2>4. QED
    BY <1>2, <1>4, <2>2, <2>3 DEF Leads
<1>7. QED
  BY <1>4, <1>5, <1>6 DEF Sync

\* One of the two can go on: the one that is behind has something to receive, and
\* of two at one place one has something to send.
LEMMA SyncFree ==
    ASSUME NEW P, NEW l \in Nat, NEW S, NEW T, Course(P, l, S, T),
           NEW p \in Nat, NEW m \in Nat, NEW q, NEW r, Sync(S, T, P, p, m, q, r),
           NEW k \in S \cup T, P[k] =< p, p < P[k + 1],
           NEW j \in S \cup T, P[j] =< m, m < P[j + 1]
    PROVE  ~ /\ IF k \in S THEN q # <<>> ELSE r = <<>>
             /\ IF j \in T THEN r # <<>> ELSE q = <<>>
<1>1. /\ P \in [1..(l + 1) -> Nat] /\ S \subseteq 1..l /\ T \subseteq 1..l /\ S \cap T = {}
  BY DEF Course
<1>2. \A x \in S \cup T : P[x] \in Nat /\ P[x + 1] \in Nat /\ x \in 1..l
  BY <1>1
<1>3. Leads(T, P, p, m, q) /\ Leads(S, P, m, p, r)
  BY DEF Sync
<1>4. CASE p = m
  <2>1. q = <<>> /\ r = <<>>
    BY <1>3, <1>4 DEF Leads
  <2>2. k = j
    BY <1>2, <1>4, OnePlace
  <2>3. QED
    BY <1>1, <2>1, <2>2
<1>5. CASE p > m
  <2>1. Len(q) = p - m /\ r = <<>> /\ Len(q) # 0
    BY <1>3, <1>5 DEF Leads
  <2>2. q # <<>>
    BY <2>1
  <2>3. j \notin T
    <3>1. ASSUME j \in T PROVE ~(m < p /\ m < P[j + 1] /\ P[j] < p)
      BY <1>3, <3>1 DEF Leads
    <3>2. QED
      BY <1>2, <1>5, <3>1
  <2>4. QED
    BY <2>1, <2>2, <2>3
<1>6. CASE p < m
  <2>1. Len(r) = m - p /\ q = <<>> /\ Len(r) # 0
    BY <1>3, <1>6 DEF Leads
  <2>2. r # <<>>
    BY <2>1
  <2>3. k \notin S
    <3>1. ASSUME k \in S PROVE ~(p < m /\ p < P[k + 1] /\ P[k] < m)
      BY <1>3, <3>1 DEF Leads
    <3>2. QED
      BY <1>2, <1>6, <3>1
  <2>4. QED
    BY <2>1, <2>2, <2>3
<1>7. QED
  BY <1>4, <1>5, <1>6

-----------------------------------------------------------------------------
(* A session in step.                                                       *)

Sent(F) == {x \in 1..Len(F) : F[x].do = "send"}

\* t is left of script F and v of script G, which mirrors it; q and r is what the
\* first one and the second one have sent and the other has not received.
Together(F, G, t, v, q, r) ==
    \E P : \E p, m \in Nat :
        /\ Clock(F, P) /\ Dual(F, G) /\ At(t, F, P, p) /\ At(v, G, P, m)
        /\ Sync(Sent(F), Sent(G), P, p, m, q, r)

LEMMA SentCourse ==
    ASSUME NEW F \in Seq(Steps), NEW G \in Seq(Steps), NEW P, Clock(F, P), Dual(F, G)
    PROVE  Course(P, Len(F), Sent(F), Sent(G)) /\ Len(F) \in Nat
<1>1. PICK l \in Nat : l = Len(F) /\ l = Len(G)
  BY DEF Dual
<1>2. /\ P \in [1..(l + 1) -> Nat]
      /\ \A x, y \in 1..(l + 1) : x =< y => P[x] =< P[y]
  BY <1>1 DEF Clock
<1>3. "send" \in Messages
  BY DEF Messages
<1>4. \A x \in 1..l : /\ F[x].do \in Messages <=> G[x].do \in Messages
                      /\ F[x].do \in Messages => ((F[x].do = "send") <=> (G[x].do # "send"))
  BY <1>1 DEF Dual, Mirrors
<1>5. /\ Sent(F) \subseteq 1..l /\ Sent(G) \subseteq 1..l
      /\ \A x \in Sent(F) : F[x].do = "send"
      /\ \A x \in Sent(G) : G[x].do = "send"
  BY <1>1 DEF Sent
<1>6. Sent(F) \cap Sent(G) = {}
  BY <1>3, <1>4, <1>5
<1>7. \A x \in Sent(F) \cup Sent(G) : P[x] < P[x + 1]
  <2>1. ASSUME NEW x \in Sent(F) \cup Sent(G) PROVE P[x] < P[x + 1]
    <3>1. x \in 1..Len(F) /\ F[x].do \in Messages
      BY <1>1, <1>3, <1>4, <1>5
    <3>2. QED
      BY <3>1, MessageWeight
  <2>2. QED
    BY <2>1
<1>8. QED
  BY <1>1, <1>2, <1>5, <1>6, <1>7 DEF Course

\* The step that one side is in is one that it sends, or one that the other sends.
LEMMA AtStep ==
    ASSUME NEW F \in Seq(Steps), NEW G \in Seq(Steps), NEW P, Clock(F, P), Dual(F, G),
           NEW t \in Seq(Steps), t # <<>>, Head(t).do \in Messages, NEW p, At(t, F, P, p)
    PROVE  \E k \in Sent(F) \cup Sent(G) :
               /\ P[k] =< p /\ p < P[k + 1]
               /\ k \in Sent(F) <=> Head(t).do = "send"
               /\ k \in Sent(G) <=> Head(t).do # "send"
<1>1. PICK k \in 1..Len(F) : F[k].do = Head(t).do /\ P[k] =< p /\ p < P[k + 1]
  BY AtMessage
<1>2. /\ Len(F) = Len(G) /\ G[k].do \in Messages
      /\ (F[k].do = "send") <=> (G[k].do # "send")
  BY <1>1 DEF Dual, Mirrors
<1>3. /\ k \in Sent(F) <=> Head(t).do = "send"
      /\ k \in Sent(G) <=> Head(t).do # "send"
  BY <1>1, <1>2 DEF Sent
<1>4. QED
  BY <1>1, <1>3

LEMMA TogetherStart ==
    ASSUME NEW F \in Seq(Steps), NEW G \in Seq(Steps), HasClock(F), Dual(F, G),
           NEW q, NEW r, q = <<>>, r = <<>>
    PROVE  Together(F, G, F, G, q, r)
<1>1. PICK P : Clock(F, P)
  BY DEF HasClock
<1>2. Clock(G, P)
  BY <1>1, SameClock
<1>3. PICK p \in Nat : p = P[1] /\ At(F, F, P, p) /\ At(G, G, P, p)
  BY <1>1, <1>2, AtStart
<1>4. Len(q) = 0 /\ Len(r) = 0
  OBVIOUS
<1>5. Sync(Sent(F), Sent(G), P, p, p, q, r)
  <2>1. p - p = 0 /\ ~(p < p)
    BY <1>3
  <2>2. QED
    BY <1>4, <2>1 DEF Sync, Leads
<1>6. QED
  BY <1>1, <1>3, <1>5 DEF Together

LEMMA TogetherTurned ==
    ASSUME NEW F, NEW G, NEW t, NEW v, NEW q, NEW r, Together(F, G, t, v, q, r)
    PROVE  Together(G, F, v, t, r, q)
<1>1. PICK P, p, m : /\ p \in Nat /\ m \in Nat
                     /\ Clock(F, P) /\ Dual(F, G) /\ At(t, F, P, p) /\ At(v, G, P, m)
                     /\ Sync(Sent(F), Sent(G), P, p, m, q, r)
  BY DEF Together
<1>2. Clock(G, P)
  BY <1>1, SameClock
<1>3. Dual(G, F)
  BY <1>1 DEF Dual, Mirrors
<1>4. Sync(Sent(G), Sent(F), P, m, p, r, q)
  BY <1>1 DEF Sync
<1>5. QED
  BY <1>1, <1>2, <1>3, <1>4 DEF Together

LEMMA TogetherLocal ==
    ASSUME NEW F \in Seq(Steps), NEW G, NEW t \in Seq(Steps), t # <<>>,
           Head(t).do \notin Messages, NEW v, NEW q, NEW r, Together(F, G, t, v, q, r)
    PROVE  Together(F, G, Rest(t), v, q, r)
<1>1. PICK P, p, m : /\ p \in Nat /\ m \in Nat
                     /\ Clock(F, P) /\ Dual(F, G) /\ At(t, F, P, p) /\ At(v, G, P, m)
                     /\ Sync(Sent(F), Sent(G), P, p, m, q, r)
  BY DEF Together
<1>2. At(Rest(t), F, P, p + 0)
  BY <1>1, AtRest
<1>3. p + 0 = p
  BY <1>1
<1>4. At(Rest(t), F, P, p)
  BY <1>2, <1>3
<1>5. QED
  BY <1>1, <1>4 DEF Together

LEMMA TogetherSend ==
    ASSUME NEW F \in Seq(Steps), NEW G \in Seq(Steps), NEW t \in Seq(Steps), t # <<>>,
           Head(t).do = "send", NEW v, NEW U, NEW q \in Seq(U), NEW r,
           NEW w \in Seq(U), Len(w) = Len(q) + 1, Together(F, G, t, v, q, r)
    PROVE  Together(F, G, Rest(t), v, w, r)
<1>1. PICK P, p, m : /\ p \in Nat /\ m \in Nat
                     /\ Clock(F, P) /\ Dual(F, G) /\ At(t, F, P, p) /\ At(v, G, P, m)
                     /\ Sync(Sent(F), Sent(G), P, p, m, q, r)
  BY DEF Together
<1>2. Head(t).do \in Messages
  BY DEF Messages
<1>3. At(Rest(t), F, P, p + 1)
  BY <1>1, <1>2, AtRest
<1>4. PICK k : k \in Sent(F) /\ P[k] =< p /\ p < P[k + 1]
  BY <1>1, <1>2, AtStep
<1>5. Sync(Sent(F), Sent(G), P, p + 1, m, w, r)
  <2>1. PICK l \in Nat : Course(P, l, Sent(F), Sent(G))
    BY <1>1, SentCourse
  <2>2. QED
    BY <1>1, <1>4, <2>1, SyncSend
<1>6. p + 1 \in Nat
  BY <1>1
<1>7. QED
  BY <1>1, <1>3, <1>5, <1>6 DEF Together

LEMMA TogetherReceive ==
    ASSUME NEW F \in Seq(Steps), NEW G \in Seq(Steps), NEW t \in Seq(Steps), t # <<>>,
           Head(t).do \in Messages, NEW v, NEW U, NEW q, NEW r \in Seq(U), r # <<>>,
           Together(F, G, t, v, q, r)
    PROVE  Together(F, G, Rest(t), v, q, Tail(r))
<1>1. PICK P, p, m : /\ p \in Nat /\ m \in Nat
                     /\ Clock(F, P) /\ Dual(F, G) /\ At(t, F, P, p) /\ At(v, G, P, m)
                     /\ Sync(Sent(F), Sent(G), P, p, m, q, r)
  BY DEF Together
<1>2. At(Rest(t), F, P, p + 1)
  BY <1>1, AtRest
<1>3. \A x \in Sent(F) : P[x] \in Nat /\ P[x + 1] \in Nat
  <2>1. \A x \in Sent(F) : x \in 1..Len(F) /\ F[x].do \in Messages
    BY DEF Sent, Messages
  <2>2. QED
    BY <1>1, <2>1, MessageWeight
<1>4. Sync(Sent(F), Sent(G), P, p + 1, m, q, Tail(r))
  BY <1>1, <1>3, SyncReceive
<1>5. p + 1 \in Nat
  BY <1>1
<1>6. QED
  BY <1>1, <1>2, <1>4, <1>5 DEF Together

\* The two sides do not wait for each other.
LEMMA TogetherFree ==
    ASSUME NEW F \in Seq(Steps), NEW G \in Seq(Steps),
           NEW t \in Seq(Steps), t # <<>>, Head(t).do \in Messages,
           NEW v \in Seq(Steps), v # <<>>, Head(v).do \in Messages,
           NEW q, NEW r, Together(F, G, t, v, q, r)
    PROVE  ~ /\ IF Head(t).do = "send" THEN q # <<>> ELSE r = <<>>
             /\ IF Head(v).do = "send" THEN r # <<>> ELSE q = <<>>
<1>1. PICK P, p, m : /\ p \in Nat /\ m \in Nat
                     /\ Clock(F, P) /\ Dual(F, G) /\ At(t, F, P, p) /\ At(v, G, P, m)
                     /\ Sync(Sent(F), Sent(G), P, p, m, q, r)
  BY DEF Together
<1>2. Clock(G, P) /\ Dual(G, F)
  <2>1. Clock(G, P)
    BY <1>1, SameClock
  <2>2. Dual(G, F)
    BY <1>1 DEF Dual, Mirrors
  <2>3. QED
    BY <2>1, <2>2
<1>3. PICK k \in Sent(F) \cup Sent(G) :
          P[k] =< p /\ p < P[k + 1] /\ (k \in Sent(F) <=> Head(t).do = "send")
  BY <1>1, AtStep
<1>4. PICK j \in Sent(G) \cup Sent(F) :
          P[j] =< m /\ m < P[j + 1] /\ (j \in Sent(G) <=> Head(v).do = "send")
  BY <1>1, <1>2, AtStep
<1>5. PICK l \in Nat : Course(P, l, Sent(F), Sent(G))
  BY <1>1, SentCourse
<1>6. ~ /\ IF k \in Sent(F) THEN q # <<>> ELSE r = <<>>
        /\ IF j \in Sent(G) THEN r # <<>> ELSE q = <<>>
  <2>1. j \in Sent(F) \cup Sent(G)
    BY <1>4
  <2>2. QED
    BY <1>1, <1>3, <1>4, <1>5, <2>1, SyncFree
<1>7. QED
  BY <1>3, <1>4, <1>6

\* What the server has left to do in the session of s: all of it, before it serves the
\* client (here).
View(s, ts, v, here) ==
    /\ ~here => v = ServerSide(s)
    /\ here => \/ ts = <<CommandStep>> /\ v = ServerSide(s)
               \/ ts = <<ParamsStep(s)>> /\ s.cmd # "SHUT" /\ v = Tail(ServerSide(s))
               \/ ts \in Seq(DataSteps) /\ v = ts
InStep(s, t, ts, q, r, here) ==
    \E v \in Seq(Steps) :
        View(s, ts, v, here) /\ Together(ClientScript(s), ServerSide(s), t, v, q, r)

\* A token goes out or comes in.
Moved(do, out, in, out2, in2) ==
    \/ do = "send" /\ Len(out2) = Len(out) + 1 /\ in2 = in
    \/ do \in {"recv", "once"} /\ in # <<>> /\ in2 = Tail(in) /\ out2 = out
    \/ do = "stats" /\ out2 = out /\ in2 = in

LEMMA TogetherMoved ==
    ASSUME NEW F \in Seq(Steps), NEW G \in Seq(Steps), NEW t \in Seq(Steps), t # <<>>, NEW v,
           NEW q \in Seq(Tok), NEW r \in Seq(Tok), NEW w \in Seq(Tok), NEW x,
           Moved(Head(t).do, q, r, w, x), Together(F, G, t, v, q, r)
    PROVE  Together(F, G, Rest(t), v, w, x)
<1>1. CASE Head(t).do = "send" /\ Len(w) = Len(q) + 1 /\ x = r
  BY <1>1, TogetherSend
<1>2. CASE Head(t).do \in {"recv", "once"} /\ r # <<>> /\ x = Tail(r) /\ w = q
  <2>1. Head(t).do \in Messages
    BY <1>2 DEF Messages
  <2>2. Together(F, G, Rest(t), v, q, Tail(r))
    BY <1>2, <2>1, TogetherReceive
  <2>3. QED
    BY <1>2, <2>2
<1>3. CASE Head(t).do = "stats" /\ w = q /\ x = r
  <2>1. Head(t).do \notin Messages
    BY <1>3 DEF Messages
  <2>2. QED
    BY <1>3, <2>1, TogetherLocal
<1>4. QED
  BY <1>1, <1>2, <1>3 DEF Moved

LEMMA SideTypes ==
    ASSUME NEW s \in Sessions
    PROVE  /\ ClientScript(s) \in Seq(Steps) /\ ServerSide(s) \in Seq(Steps)
           /\ HasClock(ClientScript(s)) /\ Dual(ClientScript(s), ServerSide(s))
BY ClientShape, ServerSideShape, ScriptsMirror

LEMMA InStepStart ==
    ASSUME NEW s \in Sessions, NEW ts, NEW q, NEW r, q = <<>>, r = <<>>
    PROVE  InStep(s, ClientScript(s), ts, q, r, FALSE)
<1>1. PICK F \in Seq(Steps), G \in Seq(Steps) : /\ F = ClientScript(s) /\ G = ServerSide(s)
                                                /\ HasClock(F) /\ Dual(F, G)
  BY SideTypes
<1>2. Together(F, G, F, G, q, r)
  BY <1>1, TogetherStart
<1>3. View(s, ts, G, FALSE)
  BY <1>1 DEF View
<1>4. QED
  BY <1>1, <1>2, <1>3 DEF InStep

LEMMA InStepAccept ==
    ASSUME NEW s, NEW t, NEW ts, NEW q, NEW r, NEW u, u = <<CommandStep>>,
           InStep(s, t, ts, q, r, FALSE)
    PROVE  InStep(s, t, u, q, r, TRUE)
BY DEF InStep, View

LEMMA InStepClient ==
    ASSUME NEW s \in Sessions, NEW t \in Seq(Steps), t # <<>>, NEW ts, NEW here,
           NEW q \in Seq(Tok), NEW r \in Seq(Tok), NEW w \in Seq(Tok), NEW x,
           Moved(Head(t).do, q, r, w, x), InStep(s, t, ts, q, r, here)
    PROVE  InStep(s, Rest(t), ts, w, x, here)
<1>1. PICK v \in Seq(Steps) :
          View(s, ts, v, here) /\ Together(ClientScript(s), ServerSide(s), t, v, q, r)
  BY DEF InStep
<1>2. Together(ClientScript(s), ServerSide(s), Rest(t), v, w, x)
  BY <1>1, SideTypes, TogetherMoved
<1>3. QED
  BY <1>1, <1>2 DEF InStep

LEMMA InStepServer ==
    ASSUME NEW s \in Sessions, NEW t, NEW ts \in Seq(Steps), ts # <<>>,
           NEW q \in Seq(Tok), NEW r \in Seq(Tok), NEW w, NEW x \in Seq(Tok),
           Moved(Head(ts).do, r, q, x, w), InStep(s, t, ts, q, r, TRUE)
    PROVE  InStep(s, t, Rest(ts), w, x, TRUE)
<1>1. PICK v \in Seq(Steps) :
          View(s, ts, v, TRUE) /\ Together(ClientScript(s), ServerSide(s), t, v, q, r)
  BY DEF InStep
<1>2. Head(ts).do \notin {"command", "params"}
  BY DEF Moved
<1>3. ts \in Seq(DataSteps) /\ v = ts
  <2>1. ts # <<CommandStep>> /\ ts # <<ParamsStep(s)>>
    BY <1>2 DEF CommandStep, ParamsStep
  <2>2. QED
    BY <1>1, <2>1 DEF View
<1>4. Together(ServerSide(s), ClientScript(s), ts, t, r, q)
  BY <1>1, <1>3, TogetherTurned
<1>5. Together(ServerSide(s), ClientScript(s), Rest(ts), t, x, w)
  BY <1>4, SideTypes, TogetherMoved
<1>6. Together(ClientScript(s), ServerSide(s), t, Rest(ts), w, x)
  BY <1>5, TogetherTurned
<1>7. Rest(ts) \in Seq(DataSteps) /\ Rest(ts) \in Seq(Steps)
  BY <1>3, RestIn, RestType
<1>8. View(s, Rest(ts), Rest(ts), TRUE)
  BY <1>7 DEF View
<1>9. QED
  BY <1>6, <1>7, <1>8 DEF InStep

\* The server has received a token from the client.
LEMMA ServerReceives ==
    ASSUME NEW s \in Sessions, NEW t, NEW v \in Seq(Steps), v # <<>>, Head(v).do \in Messages,
           NEW q \in Seq(Tok), q # <<>>, NEW r,
           Together(ClientScript(s), ServerSide(s), t, v, q, r)
    PROVE  Together(ClientScript(s), ServerSide(s), t, Rest(v), Tail(q), r)
<1>1. Together(ServerSide(s), ClientScript(s), v, t, r, q)
  BY TogetherTurned
<1>2. Together(ServerSide(s), ClientScript(s), Rest(v), t, r, Tail(q))
  BY <1>1, SideTypes, TogetherReceive
<1>3. QED
  BY <1>2, TogetherTurned

LEMMA InStepCommand ==
    ASSUME NEW s \in Sessions, s.cmd # "SHUT", NEW t, NEW ts, ts # <<>>, Head(ts).do = "command",
           NEW q \in Seq(Tok), q # <<>>, NEW r, InStep(s, t, ts, q, r, TRUE),
           NEW u, u = <<ParamsStep(s)>>
    PROVE  InStep(s, t, u, Tail(q), r, TRUE)
<1>1. PICK v \in Seq(Steps) :
          View(s, ts, v, TRUE) /\ Together(ClientScript(s), ServerSide(s), t, v, q, r)
  BY DEF InStep
<1>2. v = ServerSide(s)
  <2>1. ts # <<ParamsStep(s)>>
    BY DEF ParamsStep
  <2>2. ts \notin Seq(DataSteps)
    <3>1. ASSUME ts \in Seq(DataSteps) PROVE FALSE
      <4>1. Head(ts) \in DataSteps
        BY <3>1, HeadTailProperties
      <4>2. QED
        BY <4>1 DEF DataSteps
    <3>2. QED
      BY <3>1
  <2>3. QED
    BY <1>1, <2>1, <2>2 DEF View
<1>3. v # <<>> /\ Head(v).do \in Messages /\ Rest(v) = Tail(v) /\ Tail(v) \in Seq(Steps)
  BY <1>2, ServerSideShape DEF CommandStep, Messages
<1>4. Together(ClientScript(s), ServerSide(s), t, Tail(v), Tail(q), r)
  <2>1. Together(ClientScript(s), ServerSide(s), t, Rest(v), Tail(q), r)
    BY <1>1, <1>3, ServerReceives
  <2>2. QED
    BY <1>3, <2>1
<1>5. View(s, u, Tail(v), TRUE)
  BY <1>2 DEF View
<1>6. QED
  BY <1>3, <1>4, <1>5 DEF InStep

LEMMA InStepParams ==
    ASSUME NEW s \in Sessions, s.cmd # "SHUT", NEW t, NEW ts, ts # <<>>, Head(ts).do = "params",
           NEW q \in Seq(Tok), q # <<>>, NEW r, InStep(s, t, ts, q, r, TRUE)
    PROVE  InStep(s, t, ServerScript(s), Tail(q), r, TRUE)
<1>1. PICK v \in Seq(Steps) :
          View(s, ts, v, TRUE) /\ Together(ClientScript(s), ServerSide(s), t, v, q, r)
  BY DEF InStep
<1>2. v = Tail(ServerSide(s))
  <2>1. ts # <<CommandStep>>
    BY DEF CommandStep
  <2>2. ts \notin Seq(DataSteps)
    <3>1. ASSUME ts \in Seq(DataSteps) PROVE FALSE
      <4>1. Head(ts) \in DataSteps
        BY <3>1, HeadTailProperties
      <4>2. QED
        BY <4>1 DEF DataSteps
    <3>2. QED
      BY <3>1
  <2>3. QED
    BY <1>1, <2>1, <2>2 DEF View
<1>3. PICK w : w = ServerScript(s)
  OBVIOUS
<1>4. v # <<>> /\ Head(v).do \in Messages /\ Rest(v) = w
  BY <1>2, <1>3, ServerSideShape DEF ParamsStep, Messages
<1>5. w \in Seq(DataSteps) /\ w \in Seq(Steps)
  BY <1>3, ServerShape, SubSteps
<1>6. Together(ClientScript(s), ServerSide(s), t, w, Tail(q), r)
  <2>1. Together(ClientScript(s), ServerSide(s), t, Rest(v), Tail(q), r)
    BY <1>1, <1>4, ServerReceives
  <2>2. QED
    BY <1>4, <2>1
<1>7. View(s, w, w, TRUE)
  BY <1>5 DEF View
<1>8. QED
  BY <1>3, <1>5, <1>6, <1>7 DEF InStep

LEMMA InStepFree ==
    ASSUME NEW s \in Sessions, NEW t \in Seq(Steps), t # <<>>, Head(t).do \in Messages,
           NEW ts \in Seq(Steps), ts # <<>>, Head(ts).do \in Messages,
           NEW q, NEW r, InStep(s, t, ts, q, r, TRUE)
    PROVE  ~ /\ IF Head(t).do = "send" THEN q # <<>> ELSE r = <<>>
             /\ IF Head(ts).do = "send" THEN r # <<>> ELSE q = <<>>
<1>1. PICK v \in Seq(Steps) :
          View(s, ts, v, TRUE) /\ Together(ClientScript(s), ServerSide(s), t, v, q, r)
  BY DEF InStep
<1>2. v # <<>> /\ Head(v).do = Head(ts).do
  <2>1. CASE ts = <<CommandStep>> /\ v = ServerSide(s)
    BY <2>1, ServerSideShape
  <2>2. CASE ts = <<ParamsStep(s)>> /\ s.cmd # "SHUT" /\ v = Tail(ServerSide(s))
    BY <2>2, ServerSideShape
  <2>3. CASE v = ts
    BY <2>3
  <2>4. QED
    BY <1>1, <2>1, <2>2, <2>3 DEF View
<1>3. Head(v).do \in Messages
  BY <1>2
<1>4. ~ /\ IF Head(t).do = "send" THEN q # <<>> ELSE r = <<>>
        /\ IF Head(v).do = "send" THEN r # <<>> ELSE q = <<>>
  BY <1>1, <1>2, <1>3, SideTypes, TogetherFree
<1>5. QED
  BY <1>2, <1>4

-----------------------------------------------------------------------------
(* Sessions are in step.                                                    *)

Running(c) == session[c] # None /\ ~fault[c] /\ c \notin closed[c] /\ Server \notin closed[c]

\* In a session in which nothing has gone wrong, client and server are in step.
StepInv(c) ==
    Running(c) =>
        InStep(session[c], todo[c], todo[Server], toServer[c], toClient[c], serving = c)

\* Nothing is sent or received in a session.
Quiet(c) ==
    /\ session'[c] = session[c] /\ todo'[c] = todo[c] /\ closed'[c] = closed[c]
    /\ toServer'[c] = toServer[c] /\ toClient'[c] = toClient[c]
    /\ fault[c] => fault'[c]

LEMMA QuietKeeps ==
    ASSUME NEW c \in Clients, StepInv(c), Quiet(c),
           (serving' = c) <=> (serving = c), serving = c => todo'[Server] = todo[Server]
    PROVE  StepInv(c)'
<1>1. PICK s, t, ts, q, r : /\ s = session[c] /\ t = todo[c] /\ ts = todo[Server]
                            /\ q = toServer[c] /\ r = toClient[c]
  OBVIOUS
<1>2. PICK u : u = todo'[Server]
  OBVIOUS
<1>3. Running(c)' => Running(c)
  BY DEF Running, Quiet
<1>4. CASE serving = c
  <2>1. InStep(s, t, ts, q, r, TRUE) => InStep(s, t, u, q, r, TRUE)
    BY <1>1, <1>2, <1>4
  <2>2. QED
    BY <1>1, <1>2, <1>3, <1>4, <2>1 DEF StepInv, Quiet
<1>5. CASE serving # c
  <2>1. InStep(s, t, ts, q, r, FALSE) => InStep(s, t, u, q, r, FALSE)
    BY DEF InStep, View
  <2>2. QED
    BY <1>1, <1>2, <1>3, <1>5, <2>1 DEF StepInv, Quiet
<1>6. QED
  BY <1>4, <1>5

\* What a step of a script does to the streams, of a client ...
LEMMA ClientMoves ==
    ASSUME TypeInv, NEW c \in Clients, ScriptStep(c)
    PROVE  /\ Active(c) /\ todo[c] # <<>> /\ Advance(c)
           /\ serving' = serving /\ session' = session /\ closed' = closed
           /\ \A d \in Clients \ {c} : /\ toServer'[d] = toServer[d] /\ toClient'[d] = toClient[d]
                                       /\ fault'[d] = fault[d]
           /\ fault[c] => fault'[c]
           /\ \/ fault'[c] \/ Server \in closed[c]
              \/ Moved(Head(todo[c]).do, toServer[c], toClient[c], toServer'[c], toClient'[c])
<1>1. Active(c) /\ todo[c] # <<>> /\ Advance(c)
  BY DEF ScriptStep, SendToken, RecvToken, RecvOnce, ComputeStats, Doing
<1>2. /\ c # Server /\ Conn(c) = c /\ Peer(c) = Server
      /\ In(c) = toClient[c] /\ Out(c) = toServer[c]
      /\ toServer[c] \in Seq(Tok) /\ toClient[c] \in Seq(Tok) /\ todo[c] \in Seq(Steps)
  BY <1>1, ClientFacts
<1>3. PICK a, q, r : a = Head(todo[c]) /\ q = toServer[c] /\ r = toClient[c]
                     /\ q \in Seq(Tok) /\ r \in Seq(Tok) /\ a \in Steps
  BY <1>1, <1>2, RestType
<1>4. serving' = serving /\ session' = session /\ closed' = closed
  BY DEF ScriptStep, SendToken, RecvToken, RecvOnce, ComputeStats, netVars
<1>5. CASE SendToken(c)
  <2>1. a.do = "send" /\ toClient' = toClient /\ fault' = fault
    BY <1>2, <1>3, <1>5 DEF SendToken, Doing, SetOut
  <2>2. \/ Server \in closed[c] /\ toServer' = toServer
        \/ toServer' = [toServer EXCEPT ![c] = Append(q, a.tok)]
    BY <1>2, <1>3, <1>5 DEF SendToken, SetOut
  <2>3. a.tok \in Tok
    BY <1>3 DEF Steps
  <2>4. Len(Append(q, a.tok)) = Len(q) + 1
    BY <1>3, <2>3, AppendProperties
  <2>5. Server \in closed[c] \/ Moved(a.do, q, r, toServer'[c], toClient'[c])
    BY <1>3, <2>1, <2>2, <2>4 DEF Moved, TypeInv
  <2>6. \A d \in Clients \ {c} : toServer'[d] = toServer[d]
    BY <2>2 DEF TypeInv
  <2>7. QED
    BY <1>1, <1>3, <1>4, <2>1, <2>5, <2>6
<1>6. CASE RecvToken(c)
  <2>1. a.do = "recv" /\ r # <<>> /\ toServer' = toServer /\ fault' = fault
    BY <1>2, <1>3, <1>6 DEF RecvToken, Doing, SetIn
  <2>2. toClient' = [toClient EXCEPT ![c] = Tail(r)]
    BY <1>2, <1>3, <1>6 DEF RecvToken, SetIn
  <2>3. toClient'[c] = Tail(r) /\ \A d \in Clients \ {c} : toClient'[d] = toClient[d]
    BY <2>2 DEF TypeInv
  <2>4. Moved(a.do, q, r, toServer'[c], toClient'[c])
    BY <1>3, <2>1, <2>3 DEF Moved
  <2>5. QED
    BY <1>1, <1>3, <1>4, <2>1, <2>3, <2>4
<1>7. CASE RecvOnce(c)
  <2>1. a.do = "once"
    BY <1>3, <1>7 DEF RecvOnce, Doing
  <2>2. \/ /\ r # <<>> /\ toServer' = toServer /\ fault' = fault
           /\ toClient' = [toClient EXCEPT ![c] = Tail(r)]
        \/ /\ toServer' = toServer /\ fault' = [fault EXCEPT ![c] = TRUE]
           /\ toClient' = [toClient EXCEPT ![c] = <<"rest">> \o Tail(r)]
        \/ toServer' = toServer /\ toClient' = toClient /\ fault' = fault /\ Server \in closed[c]
    BY <1>2, <1>3, <1>7 DEF RecvOnce, SetIn, Eof
  <2>3. \A d \in Clients \ {c} : /\ toServer'[d] = toServer[d] /\ toClient'[d] = toClient[d]
                                 /\ fault'[d] = fault[d]
    BY <2>2 DEF TypeInv
  <2>4. \/ r # <<>> /\ toServer'[c] = q /\ fault'[c] = fault[c] /\ toClient'[c] = Tail(r)
        \/ fault'[c] = TRUE
        \/ fault'[c] = fault[c] /\ Server \in closed[c]
    BY <1>3, <2>2 DEF TypeInv
  <2>5. fault'[c] \/ Server \in closed[c] \/ Moved(a.do, q, r, toServer'[c], toClient'[c])
    BY <2>1, <2>4 DEF Moved
  <2>6. QED
    BY <1>1, <1>3, <1>4, <2>3, <2>4, <2>5
<1>8. CASE ComputeStats(c)
  <2>1. a.do = "stats" /\ toServer' = toServer /\ toClient' = toClient /\ fault' = fault
    BY <1>3, <1>8 DEF ComputeStats, Doing, netVars
  <2>2. Moved(a.do, q, r, toServer'[c], toClient'[c])
    BY <1>3, <2>1 DEF Moved
  <2>3. QED
    BY <1>1, <1>3, <1>4, <2>1, <2>2
<1>9. QED
  BY <1>5, <1>6, <1>7, <1>8 DEF ScriptStep

\* ... and of the server.
LEMMA ServerMoves ==
    ASSUME TypeInv, ConnInv, SessionsInv, ScriptStep(Server), NEW c, c = serving
    PROVE  /\ c \in Clients /\ todo[Server] # <<>> /\ Advance(Server)
           /\ serving' = serving /\ session' = session /\ closed' = closed
           /\ \A d \in Clients \ {c} : /\ toServer'[d] = toServer[d] /\ toClient'[d] = toClient[d]
                                       /\ fault'[d] = fault[d]
           /\ fault[c] => fault'[c]
           /\ \/ fault'[c] \/ c \in closed[c]
              \/ Moved(Head(todo[Server]).do, toClient[c], toServer[c], toClient'[c], toServer'[c])
<1>1. Active(Server) /\ todo[Server] # <<>> /\ Advance(Server)
  BY DEF ScriptStep, SendToken, RecvToken, RecvOnce, ComputeStats, Doing
<1>2. /\ c \in Clients /\ Conn(Server) = c /\ Peer(Server) = c
      /\ In(Server) = toServer[c] /\ Out(Server) = toClient[c]
      /\ toServer[c] \in Seq(Tok) /\ toClient[c] \in Seq(Tok) /\ todo[Server] \in Seq(Steps)
  BY <1>1, ServerFacts DEF Active
<1>3. PICK a, q, r : a = Head(todo[Server]) /\ q = toServer[c] /\ r = toClient[c]
                     /\ q \in Seq(Tok) /\ r \in Seq(Tok) /\ a \in Steps
  BY <1>1, <1>2, RestType
<1>4. serving' = serving /\ session' = session /\ closed' = closed
  BY DEF ScriptStep, SendToken, RecvToken, RecvOnce, ComputeStats, netVars
<1>5. CASE SendToken(Server)
  <2>1. a.do = "send" /\ toServer' = toServer /\ fault' = fault
    BY <1>2, <1>3, <1>5 DEF SendToken, Doing, SetOut
  <2>2. \/ c \in closed[c] /\ toClient' = toClient
        \/ toClient' = [toClient EXCEPT ![c] = Append(r, a.tok)]
    BY <1>2, <1>3, <1>5 DEF SendToken, SetOut
  <2>3. a.tok \in Tok
    BY <1>3 DEF Steps
  <2>4. Len(Append(r, a.tok)) = Len(r) + 1
    BY <1>3, <2>3, AppendProperties
  <2>5. c \in closed[c] \/ Moved(a.do, r, q, toClient'[c], toServer'[c])
    BY <1>2, <1>3, <2>1, <2>2, <2>4 DEF Moved, TypeInv
  <2>6. \A d \in Clients \ {c} : toClient'[d] = toClient[d]
    BY <2>2 DEF TypeInv
  <2>7. QED
    BY <1>1, <1>2, <1>3, <1>4, <2>1, <2>5, <2>6
<1>6. CASE RecvToken(Server)
  <2>1. a.do = "recv" /\ q # <<>> /\ toClient' = toClient /\ fault' = fault
    BY <1>2, <1>3, <1>6 DEF RecvToken, Doing, SetIn
  <2>2. toServer' = [toServer EXCEPT ![c] = Tail(q)]
    BY <1>2, <1>3, <1>6 DEF RecvToken, SetIn
  <2>3. toServer'[c] = Tail(q) /\ \A d \in Clients \ {c} : toServer'[d] = toServer[d]
    BY <1>2, <2>2 DEF TypeInv
  <2>4. Moved(a.do, r, q, toClient'[c], toServer'[c])
    BY <1>3, <2>1, <2>3 DEF Moved
  <2>5. QED
    BY <1>1, <1>2, <1>3, <1>4, <2>1, <2>3, <2>4
<1>7. CASE RecvOnce(Server)
  <2>1. a.do = "once"
    BY <1>3, <1>7 DEF RecvOnce, Doing
  <2>2. \/ /\ q # <<>> /\ toClient' = toClient /\ fault' = fault
           /\ toServer' = [toServer EXCEPT ![c] = Tail(q)]
        \/ /\ toClient' = toClient /\ fault' = [fault EXCEPT ![c] = TRUE]
           /\ toServer' = [toServer EXCEPT ![c] = <<"rest">> \o Tail(q)]
        \/ toServer' = toServer /\ toClient' = toClient /\ fault' = fault /\ c \in closed[c]
    BY <1>2, <1>3, <1>7 DEF RecvOnce, SetIn, Eof
  <2>3. \A d \in Clients \ {c} : /\ toServer'[d] = toServer[d] /\ toClient'[d] = toClient[d]
                                 /\ fault'[d] = fault[d]
    BY <2>2 DEF TypeInv
  <2>4. \/ q # <<>> /\ toClient'[c] = r /\ fault'[c] = fault[c] /\ toServer'[c] = Tail(q)
        \/ fault'[c] = TRUE
        \/ fault'[c] = fault[c] /\ c \in closed[c]
    BY <1>2, <1>3, <2>2 DEF TypeInv
  <2>5. fault'[c] \/ c \in closed[c] \/ Moved(a.do, r, q, toClient'[c], toServer'[c])
    BY <2>1, <2>4 DEF Moved
  <2>6. QED
    BY <1>1, <1>2, <1>3, <1>4, <2>3, <2>4, <2>5
<1>8. CASE ComputeStats(Server)
  <2>1. a.do = "stats" /\ toServer' = toServer /\ toClient' = toClient /\ fault' = fault
    BY <1>3, <1>8 DEF ComputeStats, Doing, netVars
  <2>2. Moved(a.do, r, q, toClient'[c], toServer'[c])
    BY <1>3, <2>1 DEF Moved
  <2>3. QED
    BY <1>1, <1>2, <1>3, <1>4, <2>1, <2>2
<1>9. QED
  BY <1>5, <1>6, <1>7, <1>8 DEF ScriptStep

LEMMA InStepOfClient ==
    ASSUME NetInv, TypeInv', NEW c \in Clients, ScriptStep(c), \A d \in Clients : StepInv(d)
    PROVE  \A d \in Clients : StepInv(d)'
<1>1. TypeInv
  BY DEF NetInv
<1>2. /\ Active(c) /\ todo[c] # <<>> /\ Advance(c)
      /\ serving' = serving /\ session' = session /\ closed' = closed
      /\ \A d \in Clients \ {c} : /\ toServer'[d] = toServer[d] /\ toClient'[d] = toClient[d]
                                  /\ fault'[d] = fault[d]
      /\ fault[c] => fault'[c]
      /\ \/ fault'[c] \/ Server \in closed[c]
         \/ Moved(Head(todo[c]).do, toServer[c], toClient[c], toServer'[c], toClient'[c])
  BY <1>1, ClientMoves
<1>3. /\ c # Server /\ c \in Parties /\ session[c] \in Sessions /\ session[c] # None
      /\ c \notin closed[c]
      /\ toServer[c] \in Seq(Tok) /\ toClient[c] \in Seq(Tok) /\ todo[c] \in Seq(Steps)
  BY <1>1, <1>2, ClientFacts
<1>4. todo'[c] = Rest(todo[c]) /\ \A x \in Parties \ {c} : todo'[x] = todo[x]
  BY <1>1, <1>2, <1>3, Advances
<1>5. todo'[Server] = todo[Server]
  BY <1>3, <1>4, PartyFacts
<1>6. \A d \in Clients \ {c} : StepInv(d)'
  <2>1. ASSUME NEW d \in Clients \ {c} PROVE StepInv(d)'
    <3>1. Quiet(d)
      BY <1>2, <1>4 DEF Quiet, Parties
    <3>2. QED
      BY <1>2, <1>5, <3>1, QuietKeeps
  <2>2. QED
    BY <2>1
<1>7. StepInv(c)'
  <2>1. PICK s \in Sessions, t \in Seq(Steps), ts \in Seq(Steps),
             q \in Seq(Tok), r \in Seq(Tok), here \in BOOLEAN :
            /\ s = session[c] /\ t = todo[c] /\ q = toServer[c] /\ r = toClient[c]
            /\ ts = todo[Server] /\ here = (serving = c)
    BY <1>1, <1>3, PartyFacts DEF TypeInv
  <2>2. PICK w \in Seq(Tok), x \in Seq(Tok) : w = toServer'[c] /\ x = toClient'[c]
    BY DEF TypeInv
  <2>3. SUFFICES ASSUME Running(c)' PROVE InStep(s, Rest(t), ts, w, x, here)
    BY <1>2, <1>4, <1>5, <2>1, <2>2 DEF StepInv
  <2>4. Running(c) /\ ~fault'[c] /\ Server \notin closed[c]
    BY <1>2, <2>3 DEF Running
  <2>5. InStep(s, t, ts, q, r, here)
    BY <2>1, <2>4 DEF StepInv
  <2>6. Moved(Head(t).do, q, r, w, x)
    BY <1>2, <2>1, <2>2, <2>4
  <2>7. t # <<>>
    BY <1>2, <2>1
  <2>8. QED
    BY <2>5, <2>6, <2>7, InStepClient
<1>8. QED
  BY <1>6, <1>7

LEMMA InStepOfServer ==
    ASSUME NetInv, TypeInv', ScriptStep(Server), \A d \in Clients : StepInv(d)
    PROVE  \A d \in Clients : StepInv(d)'
<1>1. TypeInv /\ ConnInv /\ SessionsInv
  BY DEF NetInv
<1>2. PICK c : c = serving
  OBVIOUS
<1>3. /\ c \in Clients /\ todo[Server] # <<>> /\ Advance(Server)
      /\ serving' = serving /\ session' = session /\ closed' = closed
      /\ \A d \in Clients \ {c} : /\ toServer'[d] = toServer[d] /\ toClient'[d] = toClient[d]
                                  /\ fault'[d] = fault[d]
      /\ fault[c] => fault'[c]
      /\ \/ fault'[c] \/ c \in closed[c]
         \/ Moved(Head(todo[Server]).do, toClient[c], toServer[c], toClient'[c], toServer'[c])
  BY <1>1, <1>2, ServerMoves
<1>4. serving # None
  BY <1>2, <1>3, PartyFacts
<1>5. /\ session[c] \in Sessions /\ todo[Server] \in Seq(Steps)
      /\ toServer[c] \in Seq(Tok) /\ toClient[c] \in Seq(Tok)
  BY <1>1, <1>2, <1>4, ServerFacts
<1>6. todo'[Server] = Rest(todo[Server]) /\ \A x \in Parties \ {Server} : todo'[x] = todo[x]
  BY <1>1, <1>3, PartyFacts, Advances
<1>7. \A d \in Clients : todo'[d] = todo[d]
  BY <1>6, PartyFacts DEF Parties
<1>8. \A d \in Clients \ {c} : StepInv(d)'
  <2>1. ASSUME NEW d \in Clients \ {c} PROVE StepInv(d)'
    <3>1. Quiet(d)
      BY <1>3, <1>7 DEF Quiet
    <3>2. QED
      BY <1>2, <1>3, <3>1, QuietKeeps
  <2>2. QED
    BY <2>1
<1>9. StepInv(c)'
  <2>1. PICK s \in Sessions, t \in Seq(Steps), ts \in Seq(Steps),
             q \in Seq(Tok), r \in Seq(Tok) :
            /\ s = session[c] /\ t = todo[c] /\ q = toServer[c] /\ r = toClient[c]
            /\ ts = todo[Server]
    BY <1>1, <1>3, <1>5 DEF TypeInv, Parties
  <2>2. PICK w, x \in Seq(Tok) : w = toServer'[c] /\ x = toClient'[c]
    BY <1>3 DEF TypeInv
  <2>3. SUFFICES ASSUME Running(c)' PROVE InStep(s, t, Rest(ts), w, x, TRUE)
    BY <1>2, <1>3, <1>6, <1>7, <2>1, <2>2 DEF StepInv
  <2>4. Running(c) /\ ~fault'[c] /\ c \notin closed[c]
    BY <1>3, <2>3 DEF Running
  <2>5. InStep(s, t, ts, q, r, TRUE)
    BY <1>2, <1>3, <2>1, <2>4 DEF StepInv
  <2>6. Moved(Head(ts).do, r, q, x, w)
    BY <1>3, <2>1, <2>2, <2>4
  <2>7. ts # <<>>
    BY <1>3, <2>1
  <2>8. x \in Seq(Tok)
    BY <1>3, <2>2 DEF TypeInv
  <2>9. QED
    BY <2>5, <2>6, <2>7, <2>8, InStepServer
<1>10. QED
  BY <1>8, <1>9

LEMMA InStepOfCommand ==
    ASSUME NetInv, RecvCommand, \A d \in Clients : StepInv(d)
    PROVE  \A d \in Clients : StepInv(d)'
<1>1. TypeInv /\ ConnInv /\ SessionsInv
  BY DEF NetInv
<1>2. serving # None /\ todo[Server] # <<>> /\ Head(todo[Server]).do = "command"
  BY DEF RecvCommand, Doing, Active
<1>3. PICK c : c = serving
  OBVIOUS
<1>4. /\ c \in Clients /\ session[c] \in Sessions /\ session[c] # None
      /\ Server \notin closed[c] /\ BeginInv(c) /\ Conn(Server) = c /\ Peer(Server) = c
      /\ In(Server) = toServer[c] /\ toServer[c] \in Seq(Tok) /\ todo[Server] \in Seq(Steps)
  BY <1>1, <1>2, <1>3, ServerFacts
<1>5. PICK s \in Sessions, ts \in Seq(Steps), q \in Seq(Tok) :
          s = session[c] /\ ts = todo[Server] /\ q = toServer[c]
  BY <1>4
<1>6. PICK t, r : t = todo[c] /\ r = toClient[c]
  OBVIOUS
<1>7. Asking(s, t, q, c \in closed[c])
  <2>1. Begun(s, t, ts, q, c \in closed[c], Server \notin closed[c], TRUE)
    BY <1>3, <1>4, <1>5, <1>6 DEF BeginInv, Begun
  <2>2. QED
    BY <1>2, <1>5, <2>1, BegunEarly
<1>8. UNCHANGED <<serving, session, closed, toClient>>
  BY DEF RecvCommand, SetIn
<1>9. \/ /\ q # <<>> /\ q[1] # "SHUT" /\ toServer' = [toServer EXCEPT ![c] = Tail(q)]
         /\ todo' = [todo EXCEPT ![Server] = AfterCommand(q[1])] /\ fault' = fault
      \/ /\ toServer' = [toServer EXCEPT ![c] = <<"rest">> \o Tail(q)]
         /\ todo' = [todo EXCEPT ![Server] = <<>>] /\ fault' = [fault EXCEPT ![c] = TRUE]
      \/ /\ toServer' = toServer /\ todo' = [todo EXCEPT ![Server] = <<>>] /\ fault' = fault
         /\ c \in closed[c]
  BY <1>3, <1>4, <1>5 DEF RecvCommand, SetIn, Eof
<1>10. \A d \in Clients : todo'[d] = todo[d]
  BY <1>1, <1>9, PartyFacts DEF TypeInv, Parties
<1>11. \A d \in Clients \ {c} : toServer'[d] = toServer[d] /\ fault'[d] = fault[d]
  BY <1>1, <1>9 DEF TypeInv
<1>12. \A d \in Clients \ {c} : StepInv(d)'
  <2>1. ASSUME NEW d \in Clients \ {c} PROVE StepInv(d)'
    <3>1. Quiet(d)
      BY <1>8, <1>10, <1>11 DEF Quiet
    <3>2. QED
      BY <1>3, <1>8, <3>1, QuietKeeps
  <2>2. QED
    BY <2>1
<1>13. StepInv(c)'
  <2>1. SUFFICES ASSUME Running(c)'
                 PROVE  InStep(s, t, todo'[Server], toServer'[c], r, TRUE)
    BY <1>3, <1>4, <1>5, <1>6, <1>8, <1>10 DEF StepInv
  <2>2. c \notin closed[c] /\ ~fault'[c]
    BY <1>8, <2>1 DEF Running
  <2>3. /\ q # <<>> /\ q[1] # "SHUT" /\ toServer'[c] = Tail(q)
        /\ todo'[Server] = AfterCommand(q[1]) /\ fault'[c] = fault[c]
    BY <1>1, <1>4, <1>9, <2>2, PartyFacts DEF TypeInv
  <2>4. PICK u : u = AfterCommand(q[1])
    OBVIOUS
  <2>5. u = <<ParamsStep(s)>> /\ s.cmd # "SHUT"
    <3>1. AtParams(s, t, Tail(q), c \in closed[c]) /\ u = <<ParamsStep(s)>>
      BY <1>7, <2>3, <2>4, CommandRead
    <3>2. QED
      BY <3>1 DEF AtParams
  <2>6. InStep(s, t, ts, q, r, TRUE)
    <3>1. Running(c)
      BY <1>4, <2>2, <2>3 DEF Running
    <3>2. QED
      BY <1>3, <1>4, <1>5, <1>6, <3>1 DEF StepInv
  <2>7. InStep(s, t, u, Tail(q), r, TRUE)
    BY <1>2, <1>5, <2>3, <2>5, <2>6, InStepCommand
  <2>8. QED
    BY <2>3, <2>4, <2>7
<1>14. QED
  BY <1>12, <1>13

LEMMA InStepOfParams ==
    ASSUME NetInv, RecvParams, \A d \in Clients : StepInv(d)
    PROVE  \A d \in Clients : StepInv(d)'
<1>1. TypeInv /\ ConnInv /\ SessionsInv
  BY DEF NetInv
<1>2. serving # None /\ todo[Server] # <<>> /\ Head(todo[Server]).do = "params"
  BY DEF RecvParams, Doing, Active
<1>3. PICK c : c = serving
  OBVIOUS
<1>4. /\ c \in Clients /\ session[c] \in Sessions /\ session[c] # None
      /\ Server \notin closed[c] /\ BeginInv(c)
      /\ In(Server) = toServer[c] /\ toServer[c] \in Seq(Tok) /\ todo[Server] \in Seq(Steps)
  BY <1>1, <1>2, <1>3, ServerFacts
<1>5. PICK s \in Sessions, ts \in Seq(Steps), q \in Seq(Tok) :
          s = session[c] /\ ts = todo[Server] /\ q = toServer[c]
  BY <1>4
<1>6. PICK t, r : t = todo[c] /\ r = toClient[c]
  OBVIOUS
<1>7. AtParams(s, t, q, c \in closed[c])
  <2>1. Begun(s, t, ts, q, c \in closed[c], Server \notin closed[c], TRUE)
    BY <1>3, <1>4, <1>5, <1>6 DEF BeginInv, Begun
  <2>2. QED
    BY <1>2, <1>5, <2>1, BegunEarly
<1>8. UNCHANGED <<serving, session, closed, toClient>>
  BY DEF RecvParams, SetIn
<1>9. q # <<>> /\ toServer' = [toServer EXCEPT ![c] = Tail(q)]
  BY <1>3, <1>4, <1>5 DEF RecvParams, SetIn
<1>10. q[1] = s /\ s.cmd # "SHUT"
  BY <1>7, <1>9 DEF AtParams
<1>11. PICK script :
          /\ todo' = [todo EXCEPT ![Server] = script]
          /\ \/ script = ServerScript(s) /\ fault' = fault
             \/ fault' = [fault EXCEPT ![c] = TRUE]
  BY <1>3, <1>4, <1>5, <1>10 DEF RecvParams
<1>12. todo'[Server] = script /\ \A d \in Clients : todo'[d] = todo[d]
  BY <1>1, <1>11, PartyFacts DEF TypeInv, Parties
<1>13. \A d \in Clients \ {c} : toServer'[d] = toServer[d] /\ fault'[d] = fault[d]
  BY <1>1, <1>9, <1>11 DEF TypeInv
<1>14. \A d \in Clients \ {c} : StepInv(d)'
  <2>1. ASSUME NEW d \in Clients \ {c} PROVE StepInv(d)'
    <3>1. Quiet(d)
      BY <1>8, <1>12, <1>13 DEF Quiet
    <3>2. QED
      BY <1>3, <1>8, <3>1, QuietKeeps
  <2>2. QED
    BY <2>1
<1>15. StepInv(c)'
  <2>1. toServer'[c] = Tail(q)
    BY <1>1, <1>4, <1>9 DEF TypeInv
  <2>2. SUFFICES ASSUME Running(c)' PROVE InStep(s, t, script, Tail(q), r, TRUE)
    BY <1>3, <1>4, <1>5, <1>6, <1>8, <1>12, <2>1 DEF StepInv
  <2>3. c \notin closed[c] /\ ~fault'[c]
    BY <1>8, <2>2 DEF Running
  <2>4. script = ServerScript(s) /\ ~fault[c]
    BY <1>1, <1>4, <1>11, <2>3 DEF TypeInv
  <2>5. InStep(s, t, ts, q, r, TRUE)
    <3>1. Running(c)
      BY <1>4, <2>3, <2>4 DEF Running
    <3>2. QED
      BY <1>3, <1>4, <1>5, <1>6, <3>1 DEF StepInv
  <2>6. QED
    BY <1>2, <1>5, <1>9, <1>10, <2>4, <2>5, InStepParams
<1>16. QED
  BY <1>14, <1>15

LEMMA InStepOfAccept ==
    ASSUME NetInv, Accept, \A d \in Clients : StepInv(d)
    PROVE  \A d \in Clients : StepInv(d)'
<1>1. TypeInv
  BY DEF NetInv
<1>2. PICK c \in Clients : session[c] # None /\ Server \notin closed[c] /\ serving' = c
  BY DEF Accept, Connected
<1>3. /\ serving = None /\ todo' = [todo EXCEPT ![Server] = <<CommandStep>>]
      /\ session' = session /\ closed' = closed /\ toServer' = toServer /\ toClient' = toClient
      /\ fault' = fault
  BY DEF Accept, Step, CommandStep, netVars
<1>4. PICK ts : ts = <<CommandStep>>
  OBVIOUS
<1>5. todo'[Server] = ts /\ \A d \in Clients : todo'[d] = todo[d] /\ d # None
  BY <1>1, <1>3, <1>4, PartyFacts DEF TypeInv, Parties
<1>6. \A d \in Clients \ {c} : StepInv(d)'
  <2>1. ASSUME NEW d \in Clients \ {c} PROVE StepInv(d)'
    <3>1. Quiet(d)
      BY <1>3, <1>5 DEF Quiet
    <3>2. ~(serving' = d) /\ ~(serving = d)
      BY <1>2, <1>3, <1>5
    <3>3. QED
      BY <3>1, <3>2, QuietKeeps
  <2>2. QED
    BY <2>1
<1>7. StepInv(c)'
  <2>1. PICK s, t, q, r, u : /\ s = session[c] /\ t = todo[c] /\ q = toServer[c] /\ r = toClient[c]
                             /\ u = todo[Server]
    OBVIOUS
  <2>2. SUFFICES ASSUME Running(c)' PROVE InStep(s, t, ts, q, r, TRUE)
    BY <1>2, <1>3, <1>5, <2>1 DEF StepInv
  <2>3. Running(c)
    BY <1>3, <2>2 DEF Running
  <2>4. serving # c
    BY <1>3, <1>5
  <2>5. InStep(s, t, u, q, r, FALSE)
    BY <2>1, <2>3, <2>4 DEF StepInv
  <2>6. QED
    BY <1>4, <2>5, InStepAccept
<1>8. QED
  BY <1>6, <1>7

LEMMA InStepOfConnect ==
    ASSUME NetInv, NEW c \in Clients, Connect(c), \A d \in Clients : StepInv(d)
    PROVE  \A d \in Clients : StepInv(d)'
<1>1. TypeInv /\ ConnInv
  BY DEF NetInv
<1>2. PICK s \in Sessions : /\ session' = [session EXCEPT ![c] = s]
                            /\ todo' = [todo EXCEPT ![c] = ClientScript(s)]
  BY DEF Connect
<1>3. /\ serving' = serving /\ closed' = closed /\ toServer' = toServer /\ toClient' = toClient
      /\ fault' = fault /\ session[c] = None
  BY DEF Connect, Connected, netVars
<1>4. c # None /\ c # Server /\ c \in Parties
  BY PartyFacts DEF Parties
<1>5. /\ serving # c /\ toServer[c] = <<>> /\ toClient[c] = <<>>
  BY <1>1, <1>3, <1>4 DEF ConnInv
<1>6. todo'[Server] = todo[Server] /\ todo'[c] = ClientScript(s) /\ session'[c] = s
  BY <1>1, <1>2, <1>4, PartyFacts DEF TypeInv
<1>7. \A d \in Clients \ {c} : StepInv(d)'
  <2>1. ASSUME NEW d \in Clients \ {c} PROVE StepInv(d)'
    <3>1. Quiet(d)
      BY <1>1, <1>2, <1>3 DEF Quiet, TypeInv, Parties
    <3>2. QED
      BY <1>3, <1>6, <3>1, QuietKeeps
  <2>2. QED
    BY <2>1
<1>8. StepInv(c)'
  <2>1. PICK ts, q, r : ts = todo[Server] /\ q = toServer[c] /\ r = toClient[c]
    OBVIOUS
  <2>2. InStep(s, ClientScript(s), ts, q, r, FALSE)
    BY <1>5, <2>1, InStepStart
  <2>3. QED
    BY <1>3, <1>5, <1>6, <2>1, <2>2 DEF StepInv
<1>9. QED
  BY <1>7, <1>8

\* A session that one of the two has left is not in step.
LEMMA InStepOfClosing ==
    ASSUME NetInv, \A d \in Clients : StepInv(d), session' = session,
           \A d \in Clients :
              \/ d \in closed'[d] \/ Server \in closed'[d]
              \/ Quiet(d) /\ ((serving' = d) <=> (serving = d)) /\ todo'[Server] = todo[Server]
              \/ Quiet(d) /\ serving' # d /\ serving # d
              \/ session[d] = None
    PROVE  \A d \in Clients : StepInv(d)'
<1>1. SUFFICES ASSUME NEW d \in Clients PROVE StepInv(d)'
  OBVIOUS
<1>2. CASE d \in closed'[d] \/ Server \in closed'[d]
  BY <1>2 DEF StepInv, Running
<1>3. CASE Quiet(d) /\ ((serving' = d) <=> (serving = d)) /\ todo'[Server] = todo[Server]
  BY <1>3, QuietKeeps
<1>4. CASE Quiet(d) /\ serving' # d /\ serving # d
  <2>1. StepInv(d)
    OBVIOUS
  <2>2. QED
    BY <1>4, <2>1, QuietKeeps
<1>5. CASE session[d] = None
  BY <1>5 DEF StepInv, Running
<1>6. QED
  BY <1>2, <1>3, <1>4, <1>5

LEMMA InStepOfClientClosing ==
    ASSUME NetInv, \A d \in Clients : StepInv(d), NEW c \in Clients, Active(c), CloseSocket(c),
           serving' = serving, session' = session,
           fault' = fault \/ fault' = [fault EXCEPT ![c] = TRUE]
    PROVE  \A d \in Clients : StepInv(d)'
<1>1. TypeInv
  BY DEF NetInv
<1>2. c # Server /\ c \in Parties /\ Conn(c) = c
  BY <1>1, ClientFacts
<1>3. /\ closed' = [closed EXCEPT ![c] = @ \cup {c}]
      /\ toClient' = [toClient EXCEPT ![c] = <<>>] /\ toServer' = toServer
      /\ todo' = [todo EXCEPT ![c] = <<>>]
  BY <1>2 DEF CloseSocket, SetIn
<1>4. c \in closed'[c] /\ todo'[Server] = todo[Server]
  BY <1>1, <1>2, <1>3, PartyFacts DEF TypeInv
<1>5. \A d \in Clients \ {c} : Quiet(d)
  BY <1>1, <1>3 DEF Quiet, TypeInv, Parties
<1>6. QED
  BY <1>4, <1>5, InStepOfClosing

LEMMA InStepOfServerClosing ==
    ASSUME NetInv, \A d \in Clients : StepInv(d), serving # None, CloseSocket(Server),
           serving' = None, session' = session,
           fault' = fault \/ fault' = [fault EXCEPT ![serving] = TRUE]
    PROVE  \A d \in Clients : StepInv(d)'
<1>1. TypeInv /\ ConnInv /\ SessionsInv
  BY DEF NetInv
<1>2. PICK c : c = serving
  OBVIOUS
<1>3. c \in Clients /\ Conn(Server) = c
  BY <1>1, <1>2, ServerFacts
<1>4. /\ closed' = [closed EXCEPT ![c] = @ \cup {Server}]
      /\ toServer' = [toServer EXCEPT ![c] = <<>>] /\ toClient' = toClient
      /\ todo' = [todo EXCEPT ![Server] = <<>>]
  BY <1>2, <1>3 DEF CloseSocket, SetIn
<1>5. Server \in closed'[c]
  BY <1>1, <1>3, <1>4 DEF TypeInv
<1>6. \A d \in Clients \ {c} : Quiet(d) /\ serving' # d /\ serving # d
  <2>1. ASSUME NEW d \in Clients \ {c} PROVE Quiet(d) /\ serving' # d /\ serving # d
    <3>1. todo'[d] = todo[d] /\ d # None
      BY <1>1, <1>4, PartyFacts DEF TypeInv, Parties
    <3>2. closed'[d] = closed[d] /\ toServer'[d] = toServer[d] /\ (fault[d] => fault'[d])
      BY <1>1, <1>2, <1>4 DEF TypeInv
    <3>3. QED
      BY <1>2, <1>4, <3>1, <3>2 DEF Quiet
  <2>2. QED
    BY <2>1
<1>7. QED
  BY <1>5, <1>6, InStepOfClosing

LEMMA InStepOfExit ==
    ASSUME NetInv, \A d \in Clients : StepInv(d), NEW how, ServerExits(how)
    PROVE  \A d \in Clients : StepInv(d)'
<1>1. session' = session
  BY DEF ServerExits
<1>2. \A d \in Clients : Server \in closed'[d] \/ session[d] = None
  BY DEF ServerExits, Connected
<1>3. QED
  BY <1>1, <1>2, InStepOfClosing

LEMMA InStepNext ==
    ASSUME NetInv, [Next]_vars, \A d \in Clients : StepInv(d)
    PROVE  \A d \in Clients : StepInv(d)'
<1>1. TypeInv'
  BY NetNext DEF NetInv
<1>2. CASE Accept
  BY <1>2, InStepOfAccept
<1>3. CASE ServerStep
  <2>1. CASE ScriptStep(Server)
    BY <1>1, <2>1, InStepOfServer
  <2>2. CASE RecvCommand
    BY <2>2, InStepOfCommand
  <2>3. CASE RecvParams
    BY <2>3, InStepOfParams
  <2>4. CASE ServerEnds
    BY <2>4, InStepOfServerClosing DEF ServerEnds
  <2>5. CASE Shutdown \/ ServerCrash
    BY <2>5, InStepOfExit DEF Shutdown, ServerCrash
  <2>6. QED
    BY <1>3, <2>1, <2>2, <2>3, <2>4, <2>5 DEF ServerStep
<1>4. CASE ServerTimesOut
  <2>1. serving # None
    BY <1>4 DEF ServerTimesOut, Blocked, Active
  <2>2. QED
    BY <1>4, <2>1, InStepOfServerClosing DEF ServerTimesOut
<1>5. ASSUME NEW c \in Clients, Connect(c) \/ ClientStep(c) \/ ClientGivesUp(c) \/ RstArrives(c)
      PROVE  \A d \in Clients : StepInv(d)'
  <2>1. CASE Connect(c)
    BY <2>1, InStepOfConnect
  <2>2. CASE ScriptStep(c)
    BY <1>1, <2>2, InStepOfClient
  <2>3. CASE ClientEnds(c)
    BY <2>3, InStepOfClientClosing DEF ClientEnds
  <2>4. CASE ClientGivesUp(c)
    BY <2>4, InStepOfClientClosing DEF ClientGivesUp
  <2>5. CASE RstArrives(c)
    BY <2>5 DEF RstArrives, StepInv, Running
  <2>6. QED
    BY <1>5, <2>1, <2>2, <2>3, <2>4, <2>5 DEF ClientStep
<1>6. CASE UNCHANGED vars
  BY <1>6 DEF vars, netVars, StepInv, Running
<1>7. QED
  BY <1>2, <1>3, <1>4, <1>5, <1>6 DEF Next

LEMMA InStepFrees ==
    ASSUME NetInv, \A d \in Clients : StepInv(d)
    PROVE  NeverBothWaiting
<1>1. TypeInv /\ ConnInv /\ SessionsInv
  BY DEF NetInv
<1>2. SUFFICES ASSUME NEW c \in Clients, serving = c, ~fault[c], Blocked(Server), Blocked(c)
               PROVE  FALSE
  BY DEF NeverBothWaiting
<1>3. serving # None
  BY <1>2, PartyFacts
<1>4. /\ session[c] \in Sessions /\ session[c] # None /\ Server \notin closed[c]
      /\ Conn(Server) = c /\ Peer(Server) = c
      /\ In(Server) = toServer[c] /\ Out(Server) = toClient[c] /\ todo[Server] \in Seq(Steps)
      /\ toServer[c] \in Seq(Tok) /\ toClient[c] \in Seq(Tok)
  BY <1>1, <1>2, <1>3, ServerFacts
<1>5. Active(c)
  BY <1>2 DEF Blocked
<1>6. /\ c \notin closed[c] /\ Conn(c) = c /\ Peer(c) = Server
      /\ In(c) = toClient[c] /\ Out(c) = toServer[c] /\ todo[c] \in Seq(Steps)
  BY <1>1, <1>5, ClientFacts
<1>7. PICK s \in Sessions, t \in Seq(Steps), ts \in Seq(Steps), q \in Seq(Tok), r \in Seq(Tok) :
          /\ s = session[c] /\ t = todo[c] /\ ts = todo[Server]
          /\ q = toServer[c] /\ r = toClient[c]
  BY <1>4, <1>6
<1>8. InStep(s, t, ts, q, r, TRUE)
  <2>1. Running(c)
    BY <1>2, <1>4, <1>6 DEF Running
  <2>2. QED
    BY <1>2, <1>7, <2>1 DEF StepInv
<1>9. /\ t # <<>> /\ IF Head(t).do = "send" THEN Len(q) = Capacity
                     ELSE Head(t).do \notin {"stats", "spin"} /\ r = <<>>
  BY <1>2, <1>6, <1>7 DEF Blocked
<1>10. /\ ts # <<>> /\ IF Head(ts).do = "send" THEN Len(r) = Capacity
                       ELSE Head(ts).do \notin {"stats", "spin"} /\ q = <<>>
  BY <1>2, <1>4, <1>7 DEF Blocked
<1>11. Head(t).do \in Messages /\ Head(ts).do \in Messages
  <2>1. Head(t) \in Steps /\ Head(ts) \in Steps
    BY <1>9, <1>10, RestType
  <2>2. Head(t).do \in Dos /\ Head(ts).do \in Dos
    BY <2>1 DEF Steps
  <2>3. QED
    BY <1>9, <1>10, <2>2 DEF Dos, Messages
<1>12. /\ Len(q) = Capacity => q # <<>>
       /\ Len(r) = Capacity => r # <<>>
  <2>1. Capacity # 0
    BY NetwAssumption
  <2>2. QED
    BY <2>1
<1>13. /\ IF Head(t).do = "send" THEN q # <<>> ELSE r = <<>>
       /\ IF Head(ts).do = "send" THEN r # <<>> ELSE q = <<>>
  BY <1>9, <1>10, <1>12
<1>14. QED
  BY <1>8, <1>9, <1>10, <1>11, <1>13, InStepFree

\* Client and server never wait for each other in a session in which nothing goes
\* wrong (netw.py:205-259): one of the two can send or receive, however little the
\* streams hold and whatever is measured.
THEOREM NeverWaiting == Spec => []NeverBothWaiting
<1> DEFINE Stepping == \A d \in Clients : StepInv(d)
<1>1. Init => Stepping
  BY DEF Init, StepInv, Running
<1>2. NetInv /\ Stepping /\ [Next]_vars => Stepping'
  BY InStepNext
<1>3. NetInv /\ Stepping => NeverBothWaiting
  BY InStepFrees
<1>4. QED
  BY <1>1, <1>2, <1>3, NetSafe, PTL DEF Spec

=============================================================================
