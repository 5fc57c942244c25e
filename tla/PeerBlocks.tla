------------------------------ MODULE PeerBlocks ------------------------------
(***************************************************************************)
(* Blocking of peers (services/lxmf_service.py, models/rbac.py): the table *)
(* peer_blocks of the database, which survives a restart, the list of      *)
(* prefixes of the policy in memory, which does not, and the contacts,     *)
(* which only show.  One thread blocks and unblocks; LXMF's thread checks  *)
(* the sender of each message.                                             *)
(***************************************************************************)
EXTENDS Naturals, FiniteSets, SequencesExt

CONSTANTS
    Peer,         \* identities
    Configured,   \* prefixes the configuration blocks: a sequence
    Matches(_, _) \* Matches(prefix, key): either begins with the other

\* A whole identity is a prefix of itself alone.
ASSUME BlocksAssumption ==
    /\ IsFiniteSet(Peer) /\ "destination" \notin Peer
    /\ Configured \in Seq(ToSet(Configured))
    /\ \A p \in Peer, q \in Peer : Matches(p, q) <=> p = q

VARIABLES
    table,     \* peer_blocks
    blocked,   \* RBACPolicy.blocked
    contacts,  \* contacts.blocked
    known,     \* peers whose identity NodeStore finds for their destination
    service,   \* "down", "open": messages come in, "seeded"
    call,      \* block_peer or unblock_peer: <<where it stands, peer>>
    check      \* the message under check

blocksVars == <<table, blocked, contacts, known, service, call, check>>

NoBlocking == <<"idle">>
NoCheck == [at |-> "idle"]

\* kept: prefixes that block the sender, if it is known, and have been in the
\* list all the time; quiet: nothing was removed from the list meanwhile.
Check == [at : {"loop", "dispatch"}, peer : Peer, key : Peer \union {"destination"},
          i : Nat, kept : SUBSET (Peer \union ToSet(Configured)), quiet : BOOLEAN]

BlocksTypeOK ==
    /\ table \subseteq Peer
    /\ blocked \in Seq(Peer \union ToSet(Configured))
    /\ IsInjective(Configured) => IsInjective(blocked)
    /\ contacts \subseteq Peer
    /\ known \subseteq Peer
    /\ service \in {"down", "open", "seeded"}
    /\ call = NoBlocking \/ call \in ({"policy", "contacts"} \X {"block", "unblock"} \X Peer)
    /\ check = NoCheck \/ check \in Check

BlocksInit ==
    /\ table \in SUBSET Peer
    /\ blocked = Configured
    /\ contacts = {}
    /\ known \in SUBSET Peer
    /\ service = "down"
    /\ call = NoBlocking
    /\ check = NoCheck

\* resolve_role(key) = Role.BLOCKED, when nobody changes the list.
IsBlocked(key) == \E p \in ToSet(blocked) : Matches(p, key)

-----------------------------------------------------------------------------
(* block_peer and unblock_peer.                                             *)

\* The policy's list may change: a check under way is told.
ListBecomes(s) ==
    /\ blocked' = s
    /\ check' = IF check = NoCheck THEN NoCheck
                ELSE [check EXCEPT !.kept = @ \intersect ToSet(s),
                                   !.quiet = @ /\ IsPrefix(blocked, s)]

\* Mutant of BlockWrites: a failed write goes on to the policy.
BlockWritesOrNot(p) ==
    /\ call = NoBlocking
    /\ table' \in {table, table \union {p}}
    /\ call' = <<"policy", "block", p>>
    /\ UNCHANGED <<blocked, contacts, known, service, check>>

\* The authoritative write; when it fails nothing else happens.
BlockWrites(p) ==
    /\ call = NoBlocking
    /\ table' = table \union {p}
    /\ call' = <<"policy", "block", p>>
    /\ UNCHANGED <<blocked, contacts, known, service, check>>

UnblockDeletes(p) ==
    /\ call = NoBlocking
    /\ p \in table
    /\ table' = table \ {p}
    /\ call' = <<"policy", "unblock", p>>
    /\ UNCHANGED <<blocked, contacts, known, service, check>>

\* Mutant of WritesPolicy: block() does not look whether it is there.
WritesPolicyTwice ==
    /\ call # NoBlocking /\ call[1] = "policy"
    /\ ListBecomes(IF call[2] = "unblock" THEN RemoveFirst(blocked, call[3])
                   ELSE Append(blocked, call[3]))
    /\ call' = <<"contacts", call[2], call[3]>>
    /\ UNCHANGED <<table, contacts, known, service>>

\* RBACPolicy.block and unblock.
WritesPolicy ==
    /\ call # NoBlocking /\ call[1] = "policy"
    /\ ListBecomes(IF call[2] = "unblock" THEN RemoveFirst(blocked, call[3])
                   ELSE IF Contains(blocked, call[3]) THEN blocked
                   ELSE Append(blocked, call[3]))
    /\ call' = <<"contacts", call[2], call[3]>>
    /\ UNCHANGED <<table, contacts, known, service>>

\* Best effort: it may fail.
WritesContacts(fails) ==
    /\ call # NoBlocking /\ call[1] = "contacts"
    /\ contacts' = IF fails THEN contacts
                   ELSE IF call[2] = "block" THEN contacts \union {call[3]}
                   ELSE contacts \ {call[3]}
    /\ call' = NoBlocking
    /\ UNCHANGED <<table, blocked, known, service, check>>

-----------------------------------------------------------------------------
(* LXMFService.initialize: messages come in once the router has the         *)
(* callback; _seed_blocks_to_rbac is its last step.  The service blocks     *)
(* before it is initialized as well.                                        *)

RegistersDelivery ==
    /\ service = "down" /\ call = NoBlocking
    /\ service' = "open"
    /\ UNCHANGED <<table, blocked, contacts, known, call, check>>

\* Mutant of Seeds: the first entry is enough.
SeedsOne ==
    /\ service = "open" /\ call = NoBlocking
    /\ \E p \in table : ListBecomes(IF IsBlocked(p) THEN blocked ELSE Append(blocked, p))
    /\ service' = "seeded"
    /\ UNCHANGED <<table, contacts, known, call>>

Seeds ==
    /\ service = "open" /\ call = NoBlocking
    /\ ListBecomes(blocked \o SetToSeq({p \in table : ~IsBlocked(p)}))
    /\ service' = "seeded"
    /\ UNCHANGED <<table, contacts, known, call>>

\* The process ends at any point and another one starts: the policy is read
\* from the configuration again.
Restarts ==
    /\ service # "down"
    /\ blocked' = Configured
    /\ service' = "down"
    /\ call' = NoBlocking
    /\ check' = NoCheck
    /\ UNCHANGED <<table, contacts, known>>

-----------------------------------------------------------------------------
(* _handle_lxmf_message, on LXMF's thread, with a callback registered.      *)

\* Mutant of Receives: the policy is asked for the destination.
ReceivesRaw(p) ==
    /\ service # "down" /\ check = NoCheck
    /\ check' = [at |-> "loop", peer |-> p, key |-> "destination", i |-> 1,
                 kept |-> {q \in ToSet(blocked) : p \in known /\ Matches(q, p)}, quiet |-> TRUE]
    /\ UNCHANGED <<table, blocked, contacts, known, service, call>>

\* The key is the identity, or the destination's hash, which no prefix
\* matches.
Receives(p) ==
    /\ service # "down" /\ check = NoCheck
    /\ check' = [at |-> "loop", peer |-> p,
                 key |-> IF p \in known THEN p ELSE "destination", i |-> 1,
                 kept |-> {q \in ToSet(blocked) : p \in known /\ Matches(q, p)}, quiet |-> TRUE]
    /\ UNCHANGED <<table, blocked, contacts, known, service, call>>

\* One turn of the loop of resolve_role: Python's iterator is an index into
\* the list as it is now.
Compares ==
    /\ check.at = "loop"
    /\ check' = IF check.i > Len(blocked) THEN [check EXCEPT !.at = "dispatch"]
                ELSE IF check.key # "destination" /\ Matches(blocked[check.i], check.key)
                THEN NoCheck
                ELSE [check EXCEPT !.i = @ + 1]
    /\ UNCHANGED <<table, blocked, contacts, known, service, call>>

\* The callbacks get the message.
Dispatches ==
    /\ check.at = "dispatch"
    /\ check' = NoCheck
    /\ UNCHANGED <<table, blocked, contacts, known, service, call>>

\* An announce of the peer is stored.
Learns(p) ==
    /\ p \notin known
    /\ known' = known \union {p}
    /\ UNCHANGED <<table, blocked, contacts, service, call, check>>

BlocksNext ==
    \/ \E p \in Peer : BlockWrites(p) \/ UnblockDeletes(p) \/ Receives(p) \/ Learns(p)
    \/ WritesPolicy \/ \E fails \in BOOLEAN : WritesContacts(fails)
    \/ RegistersDelivery \/ Seeds \/ Restarts \/ Compares \/ Dispatches

BlocksSpec == BlocksInit /\ [][BlocksNext]_blocksVars

-----------------------------------------------------------------------------
(* Properties.                                                             *)

\* Between calls the policy in memory blocks whoever the database blocks,
\* after any number of blocks, unblocks and restarts in the middle of them.
BlocksSurvive ==
    service = "seeded" /\ call = NoBlocking => \A p \in table : IsBlocked(p)

\* And nobody else but whom the configuration blocks.
NothingElseBlocked ==
    call = NoBlocking => ToSet(blocked) \subseteq table \union ToSet(Configured)

\* A message is not dispatched when its sender's identity is known and was
\* blocked at its arrival, unless the list has lost an entry meanwhile.
BlockedIsDropped ==
    check.at = "dispatch" /\ check.quiet => check.kept = {}

\* "Block a peer by identity_hash - all future messages silently dropped."
\* (services/lxmf_service.py:1045): not even while another one is unblocked.
StaysDropped ==
    check.at = "dispatch" => check.kept = {}
=============================================================================
