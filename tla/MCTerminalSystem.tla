-------------------------- MODULE MCTerminalSystem --------------------------
(* Instances of TerminalSystem for TLC: one client. *)
EXTENDS TerminalSystem

CONSTANTS i1, s1, s2, l1, l2

OneClient == [s \in SessionId |-> i1]
OnePeer == [l \in Link |-> i1]

\* Each session of the client has a link of its own.
OwnLines == [s \in SessionId |-> IF s = s1 THEN l1 ELSE l2]

\* A client that is connected is bound at the server, and the code it returns
\* is the one its process ended with.
ClientIsTrue == OpenIsBound /\ CodeIsTrue
=============================================================================
