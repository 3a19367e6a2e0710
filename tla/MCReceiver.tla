----------------------------- MODULE MCReceiver -----------------------------
(* A small instance of Receiver for TLC.                                     *)
EXTENDS Receiver

MCHasPrefix(level, prefix) == prefix = "" \/ (prefix = "d" /\ level \in {"d1", "d2"})
MCNameOf(type) == IF type = "url/B" THEN "B" ELSE type

MCTopics == {<<"a", "d1">>, <<"a", "d2", "b">>, <<"d1", "a">>, <<"d1", "d2", "d1">>}
MCHeaders == {NoType, "A", "url/B", "X"}
MCFileVars == "x" :> Lit("z") @@ "t" :> Lit("B")
Var(name) == [kind |-> "var", text |-> name]

A == Lit("A")
B == Lit("B")

\* Patterns of the same score and of different lengths, ties, a placeholder that may
\* expand to a pattern that is there, and a > in the middle.
Mixed ==
    <<Lit("a"), Rest>> :> A @@ <<Lit("a"), AnyLevel>> :> B
    @@ <<Prefix("d"), Var("x")>> :> Var("t") @@ <<Prefix("d"), Lit("a")>> :> A
\* Prefixes against a literal, and a pattern that is a longer case of another.
Rivals ==
    <<Prefix("d"), Prefix("d"), Prefix("d")>> :> A @@ <<Lit("d1"), AnyLevel, AnyLevel>> :> B
    @@ <<Lit("a"), Rest>> :> A @@ <<Lit("a"), AnyLevel, Rest>> :> B
Chains ==
    <<Lit("a"), AnyLevel, Rest>> :> B @@ <<AnyLevel, Rest, Lit("b")>> :> A
    @@ <<AnyLevel, Lit("d1")>> :> B @@ <<Lit("a"), AnyLevel>> :> A @@ <<Rest>> :> B

Profile(name, valid, protos, types) ==
    [name |-> name, fields |-> {"x"}, valid |-> valid, protos |-> protos, types |-> types]

Config ==
    <<Profile("mixed", TRUE, TRUE, Mixed), Profile("chains", TRUE, TRUE, Chains),
      Profile("rivals", TRUE, TRUE, Rivals), Profile("bare", TRUE, FALSE, <<Rest>> :> A),
      [Profile("open", TRUE, TRUE, <<>>) EXCEPT !.fields = {"y"}],
      Profile("broken", FALSE, TRUE, <<>>)>>

Opts(profile, mode, type, count, maxRuntime) ==
    [config |-> Config, profile |-> profile, vars |-> "x" :> Lit("a"), mode |-> mode,
     type |-> type, count |-> count, timeout |-> 2, maxRuntime |-> maxRuntime]

MCOptions ==
    {Opts(p, "payload", t, 2, m) : p \in {"", "chains"}, t \in {NoType, "A"}, m \in {0, 3}}
    \cup {[Opts("", "payload", NoType, 1, 3) EXCEPT !.vars = <<>>]}
    \cup {Opts("", "stats", NoType, 2, m) : m \in {0, 3}}
    \cup {Opts("rivals", "payload", NoType, 1, 0), Opts("", "headers", NoType, 1, 3)}
    \cup {Opts("", "stats", NoType, -1, 0), [Opts("", "stats", NoType, 1, 3) EXCEPT !.timeout = -1]}
    \cup {Opts(p, "payload", NoType, 1, 0) : p \in {"bare", "open", "broken", "absent"}}
    \cup {[Opts("", "stats", NoType, 1, 0) EXCEPT !.config = <<Config[1], Config[1]>>]}

=============================================================================
