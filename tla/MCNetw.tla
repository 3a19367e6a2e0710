------------------------------- MODULE MCNetw -------------------------------
(* A small instance of Netw for TLC: two clients, messages longer than the   *)
(* streams between the processes, and a measurement of no pings.             *)
EXTENDS Netw

AllSessions ==
    {[cmd |-> "SPDT", n |-> 2, size |-> 1], [cmd |-> "SPDT", n |-> 0, size |-> 1],
     [cmd |-> "LATN", n |-> 2, size |-> 2], [cmd |-> "LATN", n |-> 0, size |-> 1],
     [cmd |-> "SPDT", n |-> 1, size |-> 0], [cmd |-> "SHUT", n |-> 0, size |-> 1]}

=============================================================================
