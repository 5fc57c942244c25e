-------------------------- MODULE MCTerminalService --------------------------
(* Instances of TerminalService for TLC.                                   *)
EXTENDS TerminalService, TLC

CONSTANTS i1, i2, s1, s2, s3, l1, l2

\* One client: every session and every link is its own.
OneClient == [s \in SessionId |-> i1]
OnePeer == [l \in Link |-> i1]

\* Two clients: s3 belongs to the second, everything else to the first.
TwoClients == [s \in SessionId |-> IF s = s3 THEN i2 ELSE i1]

\* The sessions of one client are interchangeable, and so are its links.
SessionSymmetry == Permutations(SessionId)
TwoClientSymmetry == Permutations({s1, s2}) \union Permutations(Link)
=============================================================================
