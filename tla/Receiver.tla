------------------------------ MODULE Receiver ------------------------------
(***************************************************************************)
(* One run of solaz: the profile is selected and its templates expanded,   *)
(* and messages are received, one by one, until there are enough of them,  *)
(* the time is over, or something fails.  `stats` counts messages by       *)
(* topic, `payload` decodes each one with a type given on the command      *)
(* line, found by its topic, or named in its header, `headers` prints the  *)
(* headers of one.                                                         *)
(*                                                                         *)
(* A template is a pattern some of whose segments are placeholders, of     *)
(* kind "var"; the value of a variable is a segment.                       *)
(***************************************************************************)
EXTENDS TopicTypes, Sums, Functions, TLC

CONSTANTS
    Topics,      \* topics messages may have
    Headers,     \* type headers they may have, NoType: none
    NameOf(_),   \* a type's name: what follows the last slash
    Types,       \* names of the message types in the registry
    Sizes,       \* sizes of payloads, in bytes
    FileVars,    \* variables of the .vars file
    Options,     \* [config, profile, vars, mode, type, count, timeout, maxRuntime]
    MaxClock     \* bound of the clock

ASSUME ReceiverAssumption ==
    NoType \notin Types /\ Sizes \subseteq Nat /\ MaxClock \in Nat

\* The flags are numbers of either sign.  Profiles have finitely many patterns, which
\* are split at their slashes.
ASSUME OptionsAssumption ==
    \A o \in Options :
        /\ o.count \in Int /\ o.timeout \in Int /\ o.maxRuntime \in Int
        /\ \A k \in DOMAIN o.config :
              /\ IsFiniteSet(DOMAIN o.config[k].types)
              /\ \A t \in DOMAIN o.config[k].types : Len(t) \in Nat /\ DOMAIN t = 1..Len(t)

VARIABLES
    pc,       \* "start", "ready", "loop", "receiving", "done" or "failed"
    opts,     \* the options of this run; opts.config is the sequence of profiles:
              \* [name, fields, valid, protos, types], fields the variables used
              \* outside of types, a function from templates to segments
    mapping,  \* TopicTypes of the expanded profile
    registry, \* there is a registry of message types
    index,    \* the patterns of the index
    clock,    \* the time
    deadline, \* when the run is over, 0: no limit
    waitFrom, \* when the current receive began
    waitTill, \* when it times out, 0: never
    i,        \* messages handled in the loop
    topics,   \* statistics: [count, size] of each topic
    printed,  \* what was printed for each message: a type, or "headers"
    report,   \* the summary, once it is printed
    received, \* observer: all messages received
    failure   \* why the run failed

setup   == <<opts, mapping, registry, index, deadline>>
results == <<topics, printed, report>>
vars == <<pc, setup, clock, waitFrom, waitTill, i, results, received, failure>>

None == "none"

Init ==
    /\ pc = "start"
    /\ opts \in Options
    /\ mapping = <<>> /\ registry = FALSE /\ index = <<>>
    /\ clock = 1
    /\ deadline = 0 /\ waitFrom = 0 /\ waitTill = 0
    /\ i = 0
    /\ topics = <<>> /\ printed = <<>> /\ report = <<>> /\ received = <<>>
    /\ failure = None

Fail(why) == pc' = "failed" /\ failure' = why

-----------------------------------------------------------------------------
(* The profile.                                                            *)

\* There are profiles, and they have names that differ.
ConfigIsGood ==
    /\ opts.config # <<>>
    /\ \A k \in DOMAIN opts.config :
           opts.config[k].name # "" /\ \A l \in 1..(k - 1) : opts.config[k].name # opts.config[l].name

\* The profile named, or the first one.
Selected ==
    {k \in DOMAIN opts.config :
        IF opts.profile = "" THEN k = 1 ELSE opts.config[k].name = opts.profile}

\* Variables of the command line override those of the file.
Merged == opts.vars @@ FileVars

\* The placeholders of a profile that have no value.
Missing(profile) ==
    LET segments == UNION {Range(t) \cup {profile.types[t]} : t \in DOMAIN profile.types}
        used     == profile.fields \cup {s.text : s \in {x \in segments : x.kind = "var"}}
    IN  used \ DOMAIN Merged

Filled(s) == IF s.kind = "var" THEN Merged[s.text] ELSE s
Expand(template) == [k \in DOMAIN template |-> Filled(template[k])]

\* Templates that expand to the same pattern leave one type, that of the last one in
\* the order of a map.
Expansions(types) ==
    LET patterns == {Expand(t) : t \in DOMAIN types} IN
    {m \in [patterns -> {Filled(types[t]).text : t \in DOMAIN types}] :
        \A p \in patterns :
            \E t \in DOMAIN types : Expand(t) = p /\ m[p] = Filled(types[t]).text}

\* Payloads need the .proto files of the profile, which must compile.
LoadRegistry(profile) ==
    /\ registry' = (opts.mode = "payload" /\ profile.protos)
    /\ \/ pc' = "ready" /\ UNCHANGED failure
       \/ opts.mode = "payload" /\ profile.protos /\ Fail("registry")

\* The profile asked for must be there, have values for all its placeholders and be
\* complete.
LoadProfile ==
    /\ pc = "start"
    /\ \/ ~ConfigIsGood /\ Fail("config") /\ UNCHANGED <<mapping, registry>>
       \/ /\ ConfigIsGood /\ Selected = {}
          /\ Fail("no profile") /\ UNCHANGED <<mapping, registry>>
       \/ /\ ConfigIsGood
          /\ \E k \in Selected :
                LET profile == opts.config[k] IN
                \/ /\ Missing(profile) # {}
                   /\ Fail("missing variables") /\ UNCHANGED <<mapping, registry>>
                \/ /\ Missing(profile) = {} /\ ~profile.valid
                   /\ Fail("invalid") /\ UNCHANGED <<mapping, registry>>
                \/ /\ Missing(profile) = {} /\ profile.valid
                   /\ mapping' \in Expansions(profile.types)
                   /\ LoadRegistry(profile)
    /\ UNCHANGED <<opts, index, deadline, clock, waitFrom, waitTill, i, results, received>>

-----------------------------------------------------------------------------
(* The loop.                                                               *)

\* The handler is made, with an index if it decodes payloads, then the service
\* connected and the receiver started, either of which may fail.
Start ==
    /\ pc = "ready"
    /\ index' \in IF opts.mode = "payload" THEN Indexes(mapping) ELSE {<<>>}
    /\ \/ Fail("connect") /\ UNCHANGED deadline
       \/ /\ deadline' = IF opts.maxRuntime > 0 THEN clock + opts.maxRuntime ELSE 0
          /\ pc' = "loop" /\ UNCHANGED failure
    /\ UNCHANGED <<opts, mapping, registry, clock, waitFrom, waitTill, i, results, received>>

TimeIsOver == deadline > 0 /\ clock >= deadline

\* mutant: the whole timeout, whatever remains
WaitInFull == opts.timeout
\* How long the next receive waits: no longer than the time that remains.
Wait ==
    IF deadline > 0 /\ deadline - clock < opts.timeout THEN deadline - clock ELSE opts.timeout

\* A receive with a negative timeout, which nothing shortens, waits for ever.
BeginReceive ==
    /\ pc = "loop" /\ i < opts.count /\ ~TimeIsOver
    /\ waitFrom' = clock
    /\ waitTill' = IF Wait < 0 THEN 0 ELSE clock + Wait
    /\ pc' = "receiving"
    /\ UNCHANGED <<setup, clock, i, results, received, failure>>

\* The type of a message: by the flag, else by its topic, else by its header.
TypeByTopic(msg) ==
    IF opts.type # NoType THEN opts.type ELSE Lookup(index, mapping, msg.topic)
\* mutant: the header comes first
TypeOfHeaderFirst(msg) ==
    IF opts.type = NoType /\ msg.header # NoType THEN msg.header ELSE TypeByTopic(msg)
TypeOf(msg) == IF TypeByTopic(msg) = NoType THEN msg.header ELSE TypeByTopic(msg)

\* Why a message is not printed: a payload that is there may still fail to decode.
Refusals(msg) ==
    IF TypeByTopic(msg) = Tie THEN {Tie}
    ELSE IF msg.size = 0 THEN {"empty"}
    ELSE IF ~registry THEN {"no registry"}
    ELSE IF TypeOf(msg) = NoType THEN {"unknown type"}
    ELSE IF NameOf(TypeOf(msg)) \notin Types THEN {"no descriptor"}
    ELSE {"unmarshal", None}

WritePayload(msg) ==
    /\ opts.mode = "payload"
    /\ \E why \in Refusals(msg) :
           IF why = None
           THEN /\ printed' = Append(printed, NameOf(TypeOf(msg)))
                /\ pc' = "loop" /\ UNCHANGED failure
           ELSE Fail(why) /\ UNCHANGED printed
    /\ UNCHANGED topics

WriteHeaders(msg) ==
    /\ opts.mode = "headers"
    /\ printed' = Append(printed, "headers")
    /\ pc' = "loop"
    /\ UNCHANGED <<topics, failure>>

CountMessage(msg) ==
    /\ opts.mode = "stats"
    /\ LET old == IF msg.topic \in DOMAIN topics THEN topics[msg.topic]
                  ELSE [count |-> 0, size |-> 0]
       IN  topics' = [t \in DOMAIN topics \cup {msg.topic} |->
                         IF t = msg.topic
                         THEN [count |-> old.count + 1, size |-> old.size + msg.size]
                         ELSE topics[t]]
    /\ pc' = "loop"
    /\ UNCHANGED <<printed, failure>>

Messages == [topic : Topics, header : Headers, size : Sizes]

\* A message arrives; if it cannot be handled, the run is over.
Receive ==
    /\ pc = "receiving"
    /\ \E msg \in Messages :
           /\ WritePayload(msg) \/ WriteHeaders(msg) \/ CountMessage(msg)
           /\ received' = Append(received, msg)
    /\ i' = IF pc' = "loop" THEN i + 1 ELSE i
    /\ UNCHANGED <<setup, clock, waitFrom, waitTill, report>>

Total(field) == SumOf([t \in DOMAIN topics |-> topics[t][field]])

\* The end of the loop: statistics are summed up and printed.
Finish ==
    /\ pc' = "done"
    /\ report' = IF topics = <<>> THEN <<>>
                 ELSE <<[rows |-> topics, count |-> Total("count"), size |-> Total("size")]>>
    /\ UNCHANGED <<setup, clock, waitFrom, waitTill, i, topics, printed, received, failure>>

LeaveLoop == pc = "loop" /\ (i >= opts.count \/ TimeIsOver) /\ Finish

TimedOut == waitTill > 0 /\ clock >= waitTill

\* At the deadline a timeout ends the loop, before it the run.
TimeoutAtDeadline == pc = "receiving" /\ TimedOut /\ TimeIsOver /\ Finish
TimeoutFails ==
    /\ pc = "receiving" /\ TimedOut /\ ~TimeIsOver
    /\ Fail("timeout")
    /\ UNCHANGED <<setup, clock, waitFrom, waitTill, i, results, received>>

ReceiveFails ==
    /\ pc = "receiving"
    /\ Fail("receive")
    /\ UNCHANGED <<setup, clock, waitFrom, waitTill, i, results, received>>

\* Time passes; a receive that has timed out returns before it goes on.
Tick ==
    /\ pc \in {"ready", "loop", "receiving"} /\ clock < MaxClock
    /\ pc = "receiving" => ~TimedOut
    /\ clock' = clock + 1
    /\ UNCHANGED <<pc, setup, waitFrom, waitTill, i, results, received, failure>>

Next ==
    \/ LoadProfile \/ Start \/ BeginReceive \/ Receive
    \/ LeaveLoop \/ TimeoutAtDeadline \/ TimeoutFails \/ ReceiveFails \/ Tick

Spec == Init /\ [][Next]_vars

-----------------------------------------------------------------------------
(* Properties.                                                             *)

\* In whatever order the map and sort.Slice leave the patterns (topic_match.go:57-85),
\* the scan that stops at the first change of rank (topic_match.go:98-111) finds the
\* same for a topic: the type of a pattern that matches and of which no other one that
\* matches is a case; a tie only between patterns of as many segments, of which no
\* match with more literals is a case; and no type only if nothing matches.
LookupIsMostSpecific ==
    pc = "loop" /\ opts.mode = "payload" =>
        \A t \in Topics :
            LET found == Lookup(index, mapping, t) IN
            /\ found \in Found(mapping, t) \/ (found = Tie /\ MayTie(mapping, t))
            /\ i = 0 => \A other \in Indexes(mapping) : Lookup(other, mapping, t) = found

\* The loop stops when the maximal runtime elapses (solace.go:77-99): unless --timeout is
\* negative, no receive waits longer; a loop that ends early ends there; and a run that
\* fails of a timeout had waited a whole --timeout without a message, and was not at
\* its end.
DeadlineIsKept ==
    /\ pc = "receiving" /\ deadline > 0 /\ opts.timeout >= 0 => clock =< deadline
    /\ failure = "timeout" =>
           opts.timeout >= 0 /\ clock - waitFrom >= opts.timeout /\ ~TimeIsOver
    /\ pc = "done" => i = (IF opts.count > 0 THEN opts.count ELSE 0) \/ TimeIsOver

MessagesOf(t) == {k \in DOMAIN received : received[k].topic = t}
Bytes(keys) == SumOf([k \in keys |-> received[k].size])

\* What is printed of a message: the type of the command line, or else of a most specific
\* pattern, or else of its header.
Shown(name, msg) ==
    \/ opts.type # NoType /\ name = NameOf(opts.type)
    \/ /\ opts.type = NoType
       /\ \E type \in Found(mapping, msg.topic) :
              name = NameOf(IF type # NoType THEN type ELSE msg.header)

\* Every message received is in the result, unless it is the one that ended the run
\* (solace.go:96-101): printed with its type; or counted with its size under its topic
\* and, when the loop ends without a failure, in the totals.
NothingIsLost ==
    /\ opts.mode = "stats" =>
           /\ DOMAIN topics = {received[k].topic : k \in DOMAIN received}
           /\ \A t \in DOMAIN topics :
                  topics[t] = [count |-> Cardinality(MessagesOf(t)), size |-> Bytes(MessagesOf(t))]
           /\ pc = "done" /\ i > 0 =>
                  report = <<[rows |-> topics, count |-> i, size |-> Bytes(DOMAIN received)]>>
    /\ opts.mode # "stats" => Len(printed) = i
    /\ opts.mode = "payload" =>
           \A k \in DOMAIN printed : Shown(printed[k], received[k])

=============================================================================
