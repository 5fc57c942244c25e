----------------------------- MODULE AccessPolicy -----------------------------
(***************************************************************************)
(* Who may do what (models/rbac.py): roles, explicit grants and blocked     *)
(* prefixes, with the lists for Reticulum that are kept per capability; the  *)
(* part of the configuration file it is read from (services/config.py), and  *)
(* the command that changes that part (cli.py, cmd_api_auth).  One            *)
(* capability stands for all of a tier.  PeerBlocks has the check of a         *)
(* message while the prefixes change.                                          *)
(***************************************************************************)
EXTENDS Naturals, SequencesExt

CONSTANTS
    Member,             \* identities
    Prefix,             \* prefixes that may be blocked
    Covers(_, _),       \* Covers(prefix, member): either begins with the other
    Line,               \* roster entries that may be written to the file
    Asked,              \* capabilities lists are asked for
    MaxPolicyChanges    \* bound: changes of the policy, of the file and by commands

VARIABLES
    text,       \* the rbac section of the file
    policy,     \* the RBACPolicy of the node
    cache,      \* _allow_list_cache
    said,       \* members a command says it has added, until they are removed or
                \* edited: "new", or "had" an entry before
    moves

policyVars == <<text, policy, cache, said, moves>>

Tier == <<"blocked", "none", "peer", "monitor", "operator", "admin">>
Role == {Tier[i] : i \in 1..Len(Tier)}
Rank(r) == CHOOSE i \in 1..Len(Tier) : Tier[i] = r

\* Capability.ALL: one of each tier, and the one that only grants give.
FromTier == [peer |-> "chat.send", monitor |-> "web.read",
             operator |-> "terminal.restricted", admin |-> "terminal.full"]
Capability == {FromTier[r] : r \in DOMAIN FromTier} \cup {"vpn.handshake"}

\* ROLE_CAPABILITIES: a tier has those of the tiers below.
RoleCapabilities(r) == {FromTier[t] : t \in {u \in DOMAIN FromTier : Rank(u) <= Rank(r)}}

\* An entry of the file, which may name a role or a grant nobody knows, and the section.
FileEntry == [identity : Member, role : Role \cup {"typo"}, grants : SUBSET (Capability \cup {"typo"})]
Section == [default_role : Role \cup {"typo"}, roster : Seq(FileEntry), blocked : SUBSET Prefix]

ASSUME PolicyAssumption ==
    /\ IsFiniteSet(Member) /\ Line \subseteq FileEntry
    /\ Asked \subseteq Capability
    /\ MaxPolicyChanges \in Nat

Entry == [role : Role, grants : SUBSET Capability]
Policy == [default_role : Role, roster : UNION {[M -> Entry] : M \in SUBSET Member},
           blocked : SUBSET Prefix]

PolicyTypeOK ==
    /\ policy \in Policy /\ text \in Section
    /\ DOMAIN cache \subseteq Capability
    /\ \A c \in DOMAIN cache : cache[c] \subseteq Member
    /\ DOMAIN said \subseteq Member /\ \A m \in DOMAIN said : said[m] \in {"had", "new"}
    /\ moves \in 0..MaxPolicyChanges

-----------------------------------------------------------------------------
(* What a policy decides.                                                   *)

ResolveRole(p, m) ==
    IF \E q \in p.blocked : Covers(q, m) THEN "blocked"
    ELSE IF m \in DOMAIN p.roster THEN p.roster[m].role ELSE p.default_role

HasCapability(p, m, c) ==
    /\ ResolveRole(p, m) # "blocked"
    /\ \/ c \in RoleCapabilities(ResolveRole(p, m))
       \/ m \in DOMAIN p.roster /\ c \in p.roster[m].grants

\* What get_allow_list puts together when it has nothing kept.
Holders(p, c) ==
    {m \in DOMAIN p.roster :
        p.roster[m].role # "blocked" /\ c \in RoleCapabilities(p.roster[m].role) \cup p.roster[m].grants}

-----------------------------------------------------------------------------
(* The file.                                                                *)

\* _parse_rbac: an entry whose role is unknown is skipped, an unknown grant dropped;
\* of two entries of one identity the later one counts.
Readable(t) == {i \in 1..Len(t.roster) : t.roster[i].role \in Role}
LastOf(t, m) ==
    CHOOSE i \in Readable(t) : /\ t.roster[i].identity = m
                               /\ \A j \in Readable(t) : t.roster[j].identity = m => j <= i
ParseRBAC(t) ==
    [default_role |-> IF t.default_role \in Role THEN t.default_role ELSE "peer",
     roster |-> [m \in {t.roster[i].identity : i \in Readable(t)} |->
                    [role |-> t.roster[LastOf(t, m)].role,
                     grants |-> t.roster[LastOf(t, m)].grants \cap Capability]],
     blocked |-> t.blocked]

\* Mutant of Written: grants are not written.
WrittenWithoutGrants(p) ==
    [default_role |-> p.default_role,
     roster |-> SetToSeq({[identity |-> m, role |-> p.roster[m].role, grants |-> {}] : m \in DOMAIN p.roster}),
     blocked |-> p.blocked]

\* to_dict: one entry per identity.
Written(p) ==
    [default_role |-> p.default_role,
     roster |-> SetToSeq({[identity |-> m, role |-> p.roster[m].role, grants |-> p.roster[m].grants] :
                             m \in DOMAIN p.roster}),
     blocked |-> p.blocked]

-----------------------------------------------------------------------------
(* The node: what it does with its policy.                                  *)

\* f with x for m.
With(f, m, x) == [n \in DOMAIN f \cup {m} |-> IF n = m THEN x ELSE f[n]]

PolicyMoves == moves < MaxPolicyChanges /\ moves' = moves + 1
Invalidated == [c \in {} |-> {}]

\* The file may hold two entries of one identity, and words nobody knows.
PolicyInit ==
    /\ \E d \in {"none", "monitor", "typo"} :
           \E r \in {<<>>} \cup {<<e>> : e \in Line} \cup (Line \X Line) :
               text = [default_role |-> d, roster |-> r, blocked |-> {}]
    /\ policy = ParseRBAC(text) /\ cache = Invalidated
    /\ said = [m \in {} |-> "new"] /\ moves = 0

\* The node starts again, with a policy of its own.
LoadsPolicy ==
    /\ policy' = ParseRBAC(text) /\ cache' = Invalidated
    /\ UNCHANGED <<text, said, moves>>

AddRosterEntry(e) ==
    /\ e.role \in Role /\ PolicyMoves
    /\ policy' = [policy EXCEPT !.roster =
                      With(@, e.identity, [role |-> e.role, grants |-> e.grants \cap Capability])]
    /\ cache' = Invalidated
    /\ UNCHANGED <<text, said>>

\* Mutant of RemoveRosterEntry: the lists are kept.
RemoveRosterEntryKeeps(m) ==
    /\ m \in DOMAIN policy.roster /\ PolicyMoves
    /\ policy' = [policy EXCEPT !.roster = [n \in DOMAIN @ \ {m} |-> @[n]]]
    /\ UNCHANGED <<text, cache, said>>

RemoveRosterEntry(m) ==
    /\ m \in DOMAIN policy.roster /\ PolicyMoves
    /\ policy' = [policy EXCEPT !.roster = [n \in DOMAIN @ \ {m} |-> @[n]]]
    /\ cache' = Invalidated
    /\ UNCHANGED <<text, said>>

Block(q) ==
    /\ q \notin policy.blocked /\ PolicyMoves
    /\ policy' = [policy EXCEPT !.blocked = @ \cup {q}]
    /\ cache' = Invalidated
    /\ UNCHANGED <<text, said>>

Unblock(q) ==
    /\ q \in policy.blocked /\ PolicyMoves
    /\ policy' = [policy EXCEPT !.blocked = @ \ {q}]
    /\ cache' = Invalidated
    /\ UNCHANGED <<text, said>>

\* A list that is kept is returned as it is.
GetAllowList(c) ==
    /\ c \notin DOMAIN cache
    /\ cache' = [d \in DOMAIN cache \cup {c} |-> IF d = c THEN Holders(policy, c) ELSE cache[d]]
    /\ UNCHANGED <<text, policy, said, moves>>

-----------------------------------------------------------------------------
(* The file: the command that gives access to the web, and its owner.       *)

\* An identity without an entry gets one of role r; any other keeps its own.
Adds(m, r) ==
    LET p == ParseRBAC(text)
        had == m \in DOMAIN p.roster
    IN  /\ PolicyMoves
        /\ text' = Written(IF had THEN p
                           ELSE [p EXCEPT !.roster = With(@, m, [role |-> r, grants |-> {}])])
        /\ said' = IF m \in DOMAIN said THEN said ELSE With(said, m, IF had THEN "had" ELSE "new")
        /\ UNCHANGED <<policy, cache>>

\* Mutant of WebAuthAdd: the role a tier below.
WebAuthAddPeer(m) == Adds(m, "peer")

\* It says that the identity has been added as a monitor.
WebAuthAdd(m) == Adds(m, "monitor")

WebAuthRemove(m) ==
    LET p == ParseRBAC(text)
    IN  /\ m \in DOMAIN p.roster /\ PolicyMoves
        /\ text' = Written([p EXCEPT !.roster = [n \in DOMAIN @ \ {m} |-> @[n]]])
        /\ said' = [n \in DOMAIN said \ {m} |-> said[n]]
        /\ UNCHANGED <<policy, cache>>

\* The owner adds an entry at the end, or blocks a prefix.
OwnerWrites(e) ==
    /\ PolicyMoves /\ Len(text.roster) < 2
    /\ text' = [text EXCEPT !.roster = Append(@, e)]
    /\ said' = [n \in DOMAIN said \ {e.identity} |-> said[n]]
    /\ UNCHANGED <<policy, cache>>

OwnerBlocks(q) ==
    /\ PolicyMoves
    /\ text' = [text EXCEPT !.blocked = @ \cup {q}]
    /\ UNCHANGED <<policy, cache, said>>

PolicyNext ==
    \/ LoadsPolicy
    \/ \E e \in Line : AddRosterEntry(e) \/ OwnerWrites(e)
    \/ \E m \in Member : RemoveRosterEntry(m) \/ WebAuthAdd(m) \/ WebAuthRemove(m)
    \/ \E q \in Prefix : Block(q) \/ Unblock(q) \/ OwnerBlocks(q)
    \/ \E c \in Asked : GetAllowList(c)

PolicySpec == PolicyInit /\ [][PolicyNext]_policyVars

-----------------------------------------------------------------------------
(* Properties.                                                             *)

\* A list that is kept for a capability is the one that would be made now, after any
\* change of the roster.
ListsAreCurrent == \A c \in DOMAIN cache : cache[c] = Holders(policy, c)

\* Who is asked one by one and who is on the list are the same members of the
\* roster, but for those a prefix blocks, whom the lists do not leave out.
ListsAgree ==
    \A c \in DOMAIN cache : \A m \in DOMAIN policy.roster :
        (m \in cache[c]) <=>
            \/ HasCapability(policy, m, c)
            \/ /\ \E q \in policy.blocked : Covers(q, m)
               /\ HasCapability([policy EXCEPT !.blocked = {}], m, c)

\* Whatever policy the node has come to and whatever is in the file: written and read
\* again, it decides alike.
PolicyReadsBack ==
    /\ ParseRBAC(Written(policy)) = policy
    /\ ParseRBAC(Written(ParseRBAC(text))) = ParseRBAC(text)

\* Whom the command has given access to the web may read there, whatever it adds and
\* removes later: but for an identity that had an entry, which the command leaves as
\* it is, or that a prefix blocks.
AddedMayRead ==
    \A m \in DOMAIN said :
        \/ said[m] = "had"
        \/ \E q \in ParseRBAC(text).blocked : Covers(q, m)
        \/ HasCapability(ParseRBAC(text), m, "web.read")
===============================================================================
