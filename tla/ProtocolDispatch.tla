---------------------------- MODULE ProtocolDispatch ----------------------------
(***************************************************************************)
(* What arrives over the mesh and what is sent (protocols/styrene.py,         *)
(* protocols/chat.py, protocols/registry.py).  A message of the Styrene       *)
(* protocol is decoded, given to the handlers of its type one after the other  *)
(* and then stored; tasks of one loop do so for several at a time, and a        *)
(* handler that waits lets the others register and unregister.  A message       *)
(* that is sent is handed to the router and stored after.                       *)
(***************************************************************************)
EXTENDS Naturals, Sequences, FiniteSets, SequencesExt

CONSTANTS Incoming,   \* messages that arrive
          Sending,    \* messages that are sent
          Listener,    \* handlers of the one type of message there is here
          Owner,      \* identities
          MaxRegistrations, MaxDatabaseErrors, MaxHeardOf, MaxEnds \* bounds

\* The destinations of an identity, and the identity itself.
Mailbox == [of : Owner, kind : {"operator", "lxmf"}]
Address == [of : Owner, kind : {"operator", "lxmf", "identity"}]

Nowhere == "nowhere"
NoAddress == [of |-> Nowhere, kind |-> Nowhere]

ASSUME DispatchAssumption ==
    /\ MaxRegistrations \in Nat /\ MaxDatabaseErrors \in Nat /\ MaxHeardOf \in Nat /\ MaxEnds \in Nat
    /\ Incoming \cap Sending = {} /\ Nowhere \notin Owner

VARIABLES
    protocols,  \* of the registry
    handlers,   \* external_handlers of the type, in order
    inbound,    \* per message: where its task is, the handlers it has called and found,
                \* and whether one was unregistered meanwhile
    outbound,   \* per message: where its task is, its address and the identity found
    router,     \* what the router has been given
    records,    \* the rows of the database
    recalled,   \* destinations Reticulum knows the identity of
    mapped,     \* those that the announce handler or the node store knows it of
    registrations, dbErrors, ends

dispatchVars == <<protocols, handlers, inbound, outbound, router, records, recalled, mapped, registrations,
                  dbErrors, ends>>

Waiting == [at |-> "away", found |-> <<>>, called |-> <<>>, disturbed |-> FALSE]
Unsent == [at |-> "away", to |-> NoAddress, found |-> Nowhere]
Row == [letter : Incoming, status : {"received", "pending"}] \cup [letter : Sending, status : {"pending"}]

DispatchTypeOK ==
    /\ protocols \subseteq {"chat", "styrene"} /\ handlers \in Seq(Listener)
    /\ \A l \in Incoming :
          /\ inbound[l].at \in {"away", "calling", "handling", "ending", "stored", "dropped", "unrouted", "lost"}
          /\ inbound[l].found \in Seq(Listener) /\ inbound[l].called \in Seq(Listener)
          /\ inbound[l].disturbed \in BOOLEAN
    /\ \A o \in Sending :
          /\ outbound[o].at \in {"away", "refused", "handed", "sent", "unrecorded", "lost"}
          /\ outbound[o].to \in Address \cup {NoAddress} /\ outbound[o].found \in Owner \cup {Nowhere}
    /\ router \subseteq Sending /\ records \subseteq Row
    /\ recalled \subseteq Mailbox /\ mapped \subseteq Mailbox
    /\ registrations \in 0..MaxRegistrations /\ dbErrors \in 0..MaxDatabaseErrors /\ ends \in 0..MaxEnds

DispatchInit ==
    /\ protocols = {} /\ handlers = <<>>
    /\ inbound = [l \in Incoming |-> Waiting] /\ outbound = [o \in Sending |-> Unsent]
    /\ router = {} /\ records = {} /\ recalled = {} /\ mapped = {}
    /\ registrations = 0 /\ dbErrors = 0 /\ ends = 0

\* From the router to the row nothing else of the loop runs.
LoopFree == \A o \in Sending : outbound[o].at # "handed"
Under(l) == inbound[l].at \in {"calling", "handling"}
Puts(l, at) == inbound' = [inbound EXCEPT ![l].at = at]

-----------------------------------------------------------------------------
(* Handlers and protocols.                                                 *)

RegisterHandler(h) ==
    /\ LoopFree /\ registrations < MaxRegistrations /\ registrations' = registrations + 1
    /\ handlers' = Append(handlers, h)
    /\ UNCHANGED <<protocols, inbound, outbound, router, records, recalled, mapped, dbErrors, ends>>

\* The first such handler, from the list that is being gone through.
UnregisterHandler(h) ==
    /\ LoopFree /\ registrations < MaxRegistrations /\ registrations' = registrations + 1
    /\ \E i \in DOMAIN handlers :
          /\ handlers[i] = h /\ \A j \in 1..(i - 1) : handlers[j] # h
          /\ handlers' = RemoveAt(handlers, i)
    /\ inbound' = [l \in Incoming |-> [inbound[l] EXCEPT !.disturbed = @ \/ Under(l)]]
    /\ UNCHANGED <<protocols, outbound, router, records, recalled, mapped, dbErrors, ends>>

\* What is registered already, or is not, raises.
RegisterProtocol(p) ==
    /\ registrations < MaxRegistrations /\ registrations' = registrations + 1
    /\ \/ p \notin protocols /\ protocols' = protocols \cup {p}
       \/ p \in protocols /\ protocols' = protocols \ {p}
    /\ UNCHANGED <<handlers, inbound, outbound, router, records, recalled, mapped, dbErrors, ends>>

-----------------------------------------------------------------------------
(* A message that arrives.                                                 *)

\* handle_message, when can_handle has said so: without data, or with an envelope that
\* cannot be decoded, it ends.
HandleMessage(l) ==
    /\ LoopFree /\ inbound[l].at = "away"
    /\ \/ Puts(l, "dropped")
       \/ inbound' = [inbound EXCEPT ![l] = [@ EXCEPT !.at = "calling", !.found = handlers]]
    /\ UNCHANGED <<protocols, handlers, outbound, router, records, recalled, mapped, registrations, dbErrors, ends>>

\* The registry goes by a field that only chat has: nothing else is routed.
RouteMessage(l) ==
    /\ LoopFree /\ inbound[l].at = "away"
    /\ \/ Puts(l, "unrouted")
       \/ "chat" \in protocols /\ Puts(l, "ending")
    /\ UNCHANGED <<protocols, handlers, outbound, router, records, recalled, mapped, registrations, dbErrors, ends>>

\* The list is gone through by position, as it is when the next one is called.
DispatchMessage(l) ==
    /\ LoopFree /\ inbound[l].at = "calling" /\ Len(inbound[l].called) < Len(handlers)
    /\ inbound' = [inbound EXCEPT ![l].at = "handling", ![l].called = Append(@, handlers[Len(@) + 1])]
    /\ UNCHANGED <<protocols, handlers, outbound, router, records, recalled, mapped, registrations, dbErrors, ends>>

\* Mutant of HandlerReturns: what a handler raises ends the task.
HandlerReturnsOrRaises(l) ==
    /\ LoopFree /\ inbound[l].at = "handling" /\ (Puts(l, "calling") \/ Puts(l, "lost"))
    /\ UNCHANGED <<protocols, handlers, outbound, router, records, recalled, mapped, registrations, dbErrors, ends>>

\* What a handler raises is logged, and the next one is called.
HandlerReturns(l) ==
    /\ LoopFree /\ inbound[l].at = "handling" /\ Puts(l, "calling")
    /\ UNCHANGED <<protocols, handlers, outbound, router, records, recalled, mapped, registrations, dbErrors, ends>>

\* A chat message is stored as if it were still to be delivered.
PersistMessage(l) ==
    /\ LoopFree
    /\ inbound[l].at = "ending" \/ (inbound[l].at = "calling" /\ Len(inbound[l].called) >= Len(handlers))
    /\ \/ /\ Puts(l, "stored") /\ UNCHANGED dbErrors
          /\ LET status == IF inbound[l].at = "ending" THEN "pending" ELSE "received" IN
             records' = records \cup {[letter |-> l, status |-> status]}
       \/ /\ dbErrors < MaxDatabaseErrors /\ dbErrors' = dbErrors + 1 /\ Puts(l, "lost") /\ UNCHANGED records
    /\ UNCHANGED <<protocols, handlers, outbound, router, recalled, mapped, registrations, ends>>

-----------------------------------------------------------------------------
(* A message that is sent.                                                 *)

\* Reticulum's recall, of a destination and of an identity.
Recall(a) == IF a \in recalled THEN a.of ELSE Nowhere
RecallIdentity(i) == IF \E a \in recalled : a.of = i THEN i ELSE Nowhere

\* Mutant of ResolveIdentity: an identity that was looked up is recalled as if it were a
\* destination.
ResolveAsDestination(a) == Recall(a)

\* _resolve_identity: the destination, what the announces and the store say of it, and
\* at last the address as an identity.
ResolveIdentity(a) ==
    LET looked_up == IF a \in mapped THEN RecallIdentity(a.of) ELSE Nowhere IN
    CASE Recall(a) # Nowhere -> Recall(a)
      [] Recall(a) = Nowhere /\ looked_up # Nowhere -> looked_up
      [] OTHER -> IF a.kind = "identity" THEN RecallIdentity(a.of) ELSE Nowhere

SendTypedMessage(o, a) ==
    /\ LoopFree /\ outbound[o].at = "away"
    /\ LET i == ResolveIdentity(a) IN
       IF i = Nowhere
       THEN outbound' = [outbound EXCEPT ![o] = [at |-> "refused", to |-> a, found |-> i]] /\ UNCHANGED router
       ELSE outbound' = [outbound EXCEPT ![o] = [at |-> "handed", to |-> a, found |-> i]] /\ router' = router \cup {o}
    /\ UNCHANGED <<protocols, handlers, inbound, records, recalled, mapped, registrations, dbErrors, ends>>

\* A chat message: the identity that the store has is recalled as a destination,
\* which it never is.
SendChat(o, a) ==
    /\ LoopFree /\ outbound[o].at = "away"
    /\ outbound' = [outbound EXCEPT ![o] = [at |-> "refused", to |-> a, found |-> Nowhere]]
    /\ UNCHANGED <<protocols, handlers, inbound, router, records, recalled, mapped, registrations, dbErrors, ends>>

\* A row, or an error that the sender takes for a message that was not sent.
PersistSent(o) ==
    /\ outbound[o].at = "handed"
    /\ \/ /\ outbound' = [outbound EXCEPT ![o].at = "sent"] /\ UNCHANGED dbErrors
          /\ records' = records \cup {[letter |-> o, status |-> "pending"]}
       \/ /\ dbErrors < MaxDatabaseErrors /\ dbErrors' = dbErrors + 1 /\ UNCHANGED records
          /\ outbound' = [outbound EXCEPT ![o].at = "unrecorded"]
    /\ UNCHANGED <<protocols, handlers, inbound, router, recalled, mapped, registrations, ends>>

-----------------------------------------------------------------------------
(* Reticulum and the announces, and the end of the process.                *)

\* An announce is heard by Reticulum, by the handler that maps it, or by both;
\* Reticulum forgets destinations that are not used.
AnnounceHeard(a) ==
    /\ Cardinality(recalled) + Cardinality(mapped) < MaxHeardOf \/ a \in recalled
    /\ \/ recalled' = recalled \cup {a} /\ mapped' \in {mapped, mapped \cup {a}}
       \/ recalled' = recalled \ {a} /\ UNCHANGED mapped
       \/ mapped' = mapped \cup {a} /\ UNCHANGED recalled
    /\ UNCHANGED <<protocols, handlers, inbound, outbound, router, records, registrations, dbErrors, ends>>

\* What is on disk stays.
ProcessEnds ==
    /\ ends < MaxEnds /\ ends' = ends + 1
    /\ protocols' = {} /\ handlers' = <<>> /\ router' = {}
    /\ inbound' = [l \in Incoming |-> IF inbound[l].at \in {"calling", "handling", "ending"}
                                      THEN [inbound[l] EXCEPT !.at = "lost", !.disturbed = TRUE] ELSE inbound[l]]
    /\ outbound' = [o \in Sending |-> IF outbound[o].at = "handed" THEN [outbound[o] EXCEPT !.at = "lost"]
                                      ELSE outbound[o]]
    /\ UNCHANGED <<records, recalled, mapped, registrations, dbErrors>>

DispatchNext ==
    \/ ProcessEnds
    \/ \E h \in Listener : RegisterHandler(h) \/ UnregisterHandler(h)
    \/ \E p \in {"chat", "styrene"} : RegisterProtocol(p)
    \/ \E l \in Incoming :
          \/ HandleMessage(l) \/ RouteMessage(l) \/ DispatchMessage(l) \/ HandlerReturns(l) \/ PersistMessage(l)
    \/ \E o \in Sending : PersistSent(o) \/ \E a \in Address : SendTypedMessage(o, a) \/ SendChat(o, a)
    \/ \E a \in Mailbox : AnnounceHeard(a)

DispatchSpec == DispatchInit /\ [][DispatchNext]_dispatchVars

-----------------------------------------------------------------------------
(* Properties.                                                             *)

\* Every handler that was registered when a message came has it, in order and once,
\* and so have those registered since, whatever the handlers raise; only an
\* unregistration while a handler waits can make the loop leave one out.
HandlersHaveIt ==
    \A l \in Incoming :
        inbound[l].at \in {"stored", "lost"} /\ ~inbound[l].disturbed => IsPrefix(inbound[l].found, inbound[l].called)

\* A message is stored once it has been handled, and a message that has been handled
\* or handed to the router is, unless the database fails or the process ends.
RecordsAreTrue ==
    /\ \A l \in Incoming : (inbound[l].at = "stored") <=> \E r \in records : r.letter = l
    /\ \A o \in Sending : (\E r \in records : r.letter = o) <=> outbound[o].at = "sent"
    /\ \A o \in Sending : outbound[o].at \in {"sent", "handed", "unrecorded"} => o \in router \/ ends > 0
    /\ (\E l \in Incoming : inbound[l].at = "lost") \/ (\E o \in Sending : outbound[o].at \in {"unrecorded", "lost"})
          => dbErrors > 0 \/ ends > 0

\* An address is resolved, to the identity behind it, whenever that can be recalled and
\* anybody knows whose the address is; a message goes there, and one that is refused
\* has not been handed to anybody.
GoesToOwner ==
    /\ \A a \in Address :
          /\ ResolveIdentity(a) \in {a.of, Nowhere}
          /\ a \in recalled \cup mapped \/ a.kind = "identity" =>
                (ResolveIdentity(a) # Nowhere <=> \E b \in recalled : b.of = a.of)
    /\ \A o \in Sending :
          /\ o \in router => outbound[o].found = outbound[o].to.of
          /\ outbound[o].at = "refused" => o \notin router /\ \A r \in records : r.letter # o
=================================================================================
