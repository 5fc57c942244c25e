----------------------------- MODULE SessionPool -----------------------------
(***************************************************************************)
(* What the terminal server promises about its sessions, whatever threads, *)
(* tasks and callbacks it is made of: a session is opened once and only    *)
(* while there is room; a link is given to an open session that has none,  *)
(* at most once, and only when the far end is the session's own client;    *)
(* sessions close one at a time and stay closed.                           *)
(***************************************************************************)
EXTENDS Naturals, FiniteSets

CONSTANTS SessionId, Link, owner, peer, MaxTotal, NoLink

VARIABLES
    open,    \* sessions that are open
    opened,  \* sessions that have been opened
    carrier  \* link of an open session

poolVars == <<open, opened, carrier>>

Init ==
    /\ open = {}
    /\ opened = {}
    /\ carrier = [s \in SessionId |-> NoLink]

Open(s) ==
    /\ s \notin opened
    /\ Cardinality(open) < MaxTotal
    /\ open' = open \union {s}
    /\ opened' = opened \union {s}
    /\ UNCHANGED carrier

Bind(s, l) ==
    /\ s \in open
    /\ carrier[s] = NoLink
    /\ peer[l] = owner[s]
    /\ \A other \in SessionId : carrier[other] # l
    /\ carrier' = [carrier EXCEPT ![s] = l]
    /\ UNCHANGED <<open, opened>>

Close(s) ==
    /\ s \in open
    /\ open' = open \ {s}
    /\ carrier' = [carrier EXCEPT ![s] = NoLink]
    /\ UNCHANGED opened

Next == \E s \in SessionId : Open(s) \/ Close(s) \/ \E l \in Link : Bind(s, l)

Spec == Init /\ [][Next]_poolVars
=============================================================================
