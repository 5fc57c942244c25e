----------------------------- MODULE MessageDatabase -----------------------------
(***************************************************************************)
(* The database of messages and contacts (models/messages.py): init_db, which *)
(* every command opens it with and which brings an old file to today's schema, *)
(* while another process does the same or uses it, and either may die; the     *)
(* index for searches, kept by triggers; and the backfill of contacts.         *)
(*   In SQLite a CREATE TABLE outside a transaction is permanent at once; the   *)
(* INSERT that follows begins one, which ends with the commit.                 *)
(***************************************************************************)
EXTENDS Naturals, FiniteSets

CONSTANTS Opener,      \* processes
          Letter,      \* messages
          Known,       \* addresses of contacts that were kept by destination
          IdentityOf,  \* the identity behind a destination
          MaxCrashes   \* a bound

Nobody == "nobody"
ASSUME OpenersAssumption == Opener # {} /\ Nobody \notin Opener /\ MaxCrashes \in Nat
ASSUME IdentitiesAssumption == DOMAIN IdentityOf = Known /\ \A d \in Known : IdentityOf[d] \notin Known

Keyed == Known \cup {IdentityOf[d] : d \in Known}
Contacts == [name : Keyed, key : Keyed, backfill : BOOLEAN]

VARIABLES
    schema,   \* of contacts: by destination ("peer_hash"), by identity, or no table
    contacts, \* its rows
    scratch,  \* contacts_new exists
    mails,    \* the messages stored
    indexed,  \* those the search finds
    triggers, \* the index and its triggers exist
    opening,  \* per process: where init_db is
    writer,   \* who has the write lock
    died,     \* how many processes have died
    half,     \* one has died between its CREATE and its commit
    \* what the properties compare with
    owned,    \* the names of all contacts there ever were
    early,    \* messages stored before there was an index
    clash     \* a process looked at the schema while another was bringing it up

databaseVars == <<schema, contacts, scratch, mails, indexed, triggers, opening, writer, died, half, owned, early, clash>>

Migrating(p) == opening[p] \in {"creating", "copying", "committing"}

DatabaseTypeOK ==
    /\ schema \in {"none", "destination", "identity"} /\ contacts \subseteq Contacts /\ scratch \in BOOLEAN
    /\ mails \subseteq Letter /\ indexed \subseteq Letter /\ triggers \in BOOLEAN
    /\ opening \in [Opener -> {"closed", "looking", "creating", "copying", "committing", "indexing", "open", "failed"}]
    /\ writer \in Opener \cup {Nobody} /\ died \in 0..MaxCrashes /\ half \in BOOLEAN
    /\ owned \subseteq Keyed /\ early \subseteq Letter /\ clash \in BOOLEAN

\* A file that does not exist, or one of an earlier version with some rows.
DatabaseInit ==
    /\ \/ schema = "none" /\ contacts = {} /\ mails = {}
       \/ /\ schema = "destination" /\ mails \in SUBSET Letter
          /\ contacts \in SUBSET {[name |-> d, key |-> d, backfill |-> FALSE] : d \in Known}
    /\ owned = {c.name : c \in contacts} /\ early = mails
    /\ scratch = FALSE /\ indexed = {} /\ triggers = FALSE
    /\ opening = [p \in Opener |-> "closed"] /\ writer = Nobody /\ died = 0 /\ half = FALSE /\ clash = FALSE

Proceeds(p, to) == opening' = [opening EXCEPT ![p] = to]

\* The tables that do not exist, and the columns of messages.
CreatesTables(p) ==
    /\ opening[p] = "closed" /\ writer = Nobody /\ Proceeds(p, "looking")
    /\ schema' = IF schema = "none" THEN "identity" ELSE schema
    /\ UNCHANGED <<contacts, scratch, mails, indexed, triggers, writer, died, half, owned, early, clash>>

LooksAtContacts(p) ==
    /\ opening[p] = "looking" /\ Proceeds(p, IF schema = "destination" THEN "creating" ELSE "indexing")
    /\ clash' = (clash \/ \E q \in Opener \ {p} : Migrating(q))
    /\ UNCHANGED <<schema, contacts, scratch, mails, indexed, triggers, writer, died, half, owned, early>>

\* CREATE TABLE contacts_new: an error if it exists.
CreatesScratch(p) ==
    /\ opening[p] = "creating" /\ writer = Nobody
    /\ Proceeds(p, IF scratch THEN "failed" ELSE "copying") /\ scratch' = TRUE
    /\ UNCHANGED <<schema, contacts, mails, indexed, triggers, writer, died, half, owned, early, clash>>

\* INSERT ... SELECT peer_hash: an error if the other process was faster.
CopiesRows(p) ==
    /\ opening[p] = "copying" /\ writer = Nobody
    /\ IF schema = "destination" THEN Proceeds(p, "committing") /\ writer' = p
                                 ELSE Proceeds(p, "failed") /\ UNCHANGED writer
    /\ UNCHANGED <<schema, contacts, scratch, mails, indexed, triggers, died, half, owned, early, clash>>

\* Mutant of Commits: the old table is dropped before its rows are copied.
CommitsNothing(p) ==
    /\ opening[p] = "committing" /\ Proceeds(p, "indexing") /\ writer' = Nobody
    /\ schema' = "identity" /\ scratch' = FALSE /\ contacts' = {}
    /\ UNCHANGED <<mails, indexed, triggers, died, half, owned, early, clash>>

\* DROP, RENAME and the commit; the keys are destinations still.
Commits(p) ==
    /\ opening[p] = "committing" /\ Proceeds(p, "indexing") /\ writer' = Nobody
    /\ schema' = "identity" /\ scratch' = FALSE
    /\ contacts' = {[c EXCEPT !.backfill = TRUE] : c \in contacts}
    /\ UNCHANGED <<mails, indexed, triggers, died, half, owned, early, clash>>

\* The columns of contacts, the blocks, the indexes, the search and its triggers.
CreatesIndex(p) ==
    /\ opening[p] = "indexing" /\ writer = Nobody /\ Proceeds(p, "open") /\ triggers' = TRUE
    /\ UNCHANGED <<schema, contacts, scratch, mails, indexed, writer, died, half, owned, early, clash>>

Dies(p) ==
    /\ opening[p] \notin {"closed", "failed"} /\ died < MaxCrashes /\ died' = died + 1
    /\ half' = (half \/ opening[p] \in {"copying", "committing"})
    /\ Proceeds(p, "closed") /\ writer' = IF writer = p THEN Nobody ELSE writer
    /\ UNCHANGED <<schema, contacts, scratch, mails, indexed, triggers, owned, early, clash>>

Leaves(p) ==
    /\ opening[p] \in {"open", "failed"} /\ Proceeds(p, "closed")
    /\ UNCHANGED <<schema, contacts, scratch, mails, indexed, triggers, writer, died, half, owned, early, clash>>

-----------------------------------------------------------------------------
(* A process that has it open.  The triggers run for whoever writes.           *)

StoresMail(p, l) ==
    /\ opening[p] = "open" /\ writer = Nobody /\ l \notin mails
    /\ mails' = mails \cup {l}
    /\ indexed' = indexed \cup {l}
    /\ UNCHANGED <<schema, contacts, scratch, triggers, opening, writer, died, half, owned, early, clash>>

\* Mutant of DeletesMail: without its trigger.
DeletesUnseen(p, l) ==
    /\ opening[p] = "open" /\ writer = Nobody /\ l \in mails
    /\ mails' = mails \ {l} /\ early' = early \ {l}
    /\ UNCHANGED <<schema, contacts, scratch, indexed, triggers, opening, writer, died, half, owned, clash>>

DeletesMail(p, l) ==
    /\ opening[p] = "open" /\ writer = Nobody /\ l \in mails
    /\ mails' = mails \ {l} /\ indexed' = indexed \ {l} /\ early' = early \ {l}
    /\ UNCHANGED <<schema, contacts, scratch, triggers, opening, writer, died, half, owned, clash>>

\* An update takes a message that was not indexed into the index.
UpdatesMail(p, l) ==
    /\ opening[p] = "open" /\ writer = Nobody /\ l \in mails /\ indexed' = indexed \cup {l}
    /\ UNCHANGED <<schema, contacts, scratch, mails, triggers, opening, writer, died, half, owned, early, clash>>

\* A contact made today is kept by identity.
AddsContact(p, d) ==
    /\ opening[p] = "open" /\ writer = Nobody /\ \A c \in contacts : c.key # IdentityOf[d]
    /\ contacts' = contacts \cup {[name |-> IdentityOf[d], key |-> IdentityOf[d], backfill |-> FALSE]}
    /\ owned' = owned \cup {IdentityOf[d]}
    /\ UNCHANGED <<schema, scratch, mails, indexed, triggers, opening, writer, died, half, early, clash>>

\* Of the rows still to be done, those whose destination has been heard, one by one:
\* the key becomes the identity's, unless that has a row, which it also has after the
\* first of several destinations of one identity.
Backfills(p, heard) ==
    LET done == {c \in contacts : c.backfill /\ c.key \in heard}
        Same(c, e) == IdentityOf[c.key] = IdentityOf[e.key] IN
    /\ opening[p] = "open" /\ writer = Nobody /\ done # {}
    /\ \E first \in SUBSET {c \in done : \A e \in contacts : e.key # IdentityOf[c.key]} :
          /\ \A c, e \in first : Same(c, e) => c = e
          /\ \A c \in done : (\E e \in contacts : e.key = IdentityOf[c.key]) \/ \E e \in first : Same(c, e)
          /\ contacts' = (contacts \ done) \cup {[c EXCEPT !.backfill = FALSE] : c \in done \ first}
                         \cup {[c EXCEPT !.backfill = FALSE, !.key = IdentityOf[@]] : c \in first}
    /\ UNCHANGED <<schema, scratch, mails, indexed, triggers, opening, writer, died, half, owned, early, clash>>

OpenerStep(p) ==
    \/ CreatesTables(p) \/ LooksAtContacts(p) \/ CreatesScratch(p) \/ CopiesRows(p) \/ Commits(p)
    \/ CreatesIndex(p) \/ Dies(p) \/ Leaves(p)
    \/ \E l \in Letter : StoresMail(p, l) \/ DeletesMail(p, l) \/ UpdatesMail(p, l)
    \/ \E d \in Known : AddsContact(p, d)
    \/ \E heard \in SUBSET Known : Backfills(p, heard)

DatabaseNext == \E p \in Opener : OpenerStep(p)
DatabaseSpec == DatabaseInit /\ [][DatabaseNext]_databaseVars

-----------------------------------------------------------------------------
(* Properties.                                                             *)

\* Whatever dies, and whoever else opens the file: every contact there ever was has
\* its row, one key is one row's, and a row that waits for its identity still has the
\* destination it is known by.
ContactsSurvive ==
    /\ {c.name : c \in contacts} = owned
    /\ \A c, e \in contacts : c.key = e.key => c = e
    /\ \A c \in contacts : c.backfill => c.key \in Known /\ schema = "identity"

\* An opening fails only after a process has died between its CREATE and its commit,
\* or while two bring the file up at once; and only these leave a table behind.
OpeningFailsAfterDeath ==
    /\ \A p \in Opener : opening[p] = "failed" => half \/ clash
    /\ scratch => half \/ clash \/ \E p \in Opener : Migrating(p)

\* A search finds nothing that was deleted, and every message but those stored before
\* there was an index.
SearchFindsStored == indexed \subseteq mails /\ mails \ indexed \subseteq early
==================================================================================
