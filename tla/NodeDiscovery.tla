---------------------------- MODULE NodeDiscovery ----------------------------
(***************************************************************************)
(* Who is known on the mesh: the announces handled on threads of Reticulum *)
(* (StyreneAnnounceHandler of services/reticulum.py), the node store       *)
(* (services/node_store.py) that survives a restart, and the identity a    *)
(* message is sent to (LXMFService._resolve_identity and send_message).    *)
(* A destination is an identity's operator or LXMF delivery destination.   *)
(***************************************************************************)
EXTENDS Naturals, FiniteSets

CONSTANTS
    Identity,      \* identities of the mesh
    Admitted,       \* those the access mode admits
    HubPeer,       \* the identity of the hub: it is connected to by its delivery destination
    AnnounceThread,\* bound: announces handled at once
    MaxHeard,      \* bound: announces heard
    MaxStarts      \* bound: restarts

ASSUME DiscoveryAssumption ==
    /\ Admitted \subseteq Identity /\ HubPeer \in Identity
    /\ {"unknown", "placeholder"} \cap Identity = {}
    /\ MaxHeard \in Nat /\ MaxStarts \in Nat

VARIABLES
    discovered_devices,  \* by destination, in memory
    nodes,               \* the rows of the store, by destination
    remembered,          \* destinations whose identity Reticulum recalls
    unsaved,             \* destinations whose last save failed
    announce,            \* by thread, the announce it handles
    heard, starts,       \* count towards the bounds
    message              \* the message being sent: where it stands, to which destination

discoveryVars ==
    <<discovered_devices, nodes, remembered, unsaved, announce, heard, starts, message>>

Dest == Identity \X {"operator", "delivery"}
HubDest == <<HubPeer, "delivery">>

\* lxmf: the announce names the delivery destination; via: the interface is known.
Device == [type : {"styrene", "lxmf", "hub"}, lxmf : BOOLEAN, via : BOOLEAN,
           identity : Identity \cup {"placeholder"}]
Unknown == [type |-> "none"]
NoAnnounce == [at |-> "idle"]
NoMessage == <<"idle">>

Discovered == {d \in Dest : discovered_devices[d] # Unknown}
Stored == {d \in Dest : nodes[d] # Unknown}
IsStyrene(i) ==
    \E d \in Discovered : d[1] = i /\ discovered_devices[d].type = "styrene"

\* devices, operator: who was known when it came, and whether its node's operator was.
Handled == [at : {"compare", "keep", "save"}, dest : Dest, device : Device,
            devices : SUBSET Dest, operator : BOOLEAN]

DiscoveryTypeOK ==
    /\ discovered_devices \in [Dest -> Device \cup {Unknown}]
    /\ nodes \in [Dest -> Device \cup {Unknown}]
    /\ remembered \subseteq Dest /\ unsaved \subseteq Dest
    /\ announce \in [AnnounceThread -> Handled \cup {NoAnnounce}]
    /\ heard \in 0..MaxHeard /\ starts \in 0..MaxStarts
    /\ message = NoMessage \/
       message \in {"lookup", "recall", "wait", "path", "failed"} \X Dest \X (Identity \cup {"unknown", "placeholder"})
       \/ message \in {"direct", "propagated"} \X Dest \X Identity

DiscoveryInit ==
    /\ discovered_devices = [d \in Dest |-> Unknown]
    /\ nodes = [d \in Dest |-> Unknown]
    /\ remembered = {} /\ unsaved = {}
    /\ announce = [t \in AnnounceThread |-> NoAnnounce]
    /\ heard = 0 /\ starts = 0 /\ message = NoMessage

-----------------------------------------------------------------------------
(* Announces.                                                               *)

\* What an announce tells: an operator's may leave out the delivery
\* destination, a delivery announce may have the [styrene] prefix.
Announced(d, device) ==
    /\ device.identity = d[1]
    /\ IF d[2] = "operator" THEN device.type = "styrene"
       ELSE device.type \in {"styrene", "lxmf"} /\ ~device.lxmf

\* Admission, and Reticulum is told of the identity.  Only what looks like a
\* plain LXMF peer is compared with the devices known.
ReceivedAnnounce(t, d, device) ==
    /\ heard < MaxHeard /\ announce[t] = NoAnnounce
    /\ Announced(d, device)
    /\ d[1] \in Admitted
    /\ heard' = heard + 1
    /\ remembered' = remembered \cup {d}
    /\ announce' = [announce EXCEPT ![t] =
          [at |-> IF device.type = "lxmf" THEN "compare" ELSE "keep", dest |-> d,
           device |-> device, devices |-> Discovered,
           operator |-> <<d[1], "operator">> \in Discovered]]
    /\ UNCHANGED <<discovered_devices, nodes, unsaved, starts, message>>

\* The dictionary is iterated over while other threads add to it: the upgrade
\* of a known Styrene node, or no match, or an error that drops the announce.
Compare(t) ==
    LET a == announce[t] IN
    /\ a.at = "compare"
    /\ \/ /\ IsStyrene(a.dest[1])
          /\ announce' = [announce EXCEPT ![t].at = "keep", ![t].device.type = "styrene"]
       \/ /\ ~IsStyrene(a.dest[1]) /\ Discovered = a.devices
          /\ announce' = [announce EXCEPT ![t].at = "keep"]
       \/ /\ Discovered # a.devices
          /\ announce' = [announce EXCEPT ![t] = NoAnnounce]
    /\ UNCHANGED <<discovered_devices, nodes, remembered, unsaved, heard, starts, message>>

Keep(t) ==
    /\ announce[t].at = "keep"
    /\ discovered_devices' =
          [discovered_devices EXCEPT ![announce[t].dest] = announce[t].device]
    /\ announce' = [announce EXCEPT ![t].at = "save"]
    /\ UNCHANGED <<nodes, remembered, unsaved, heard, starts, message>>

\* Mutant of Upsert: the new row in the place of the old one.
UpsertPlain(d, device) == nodes' = [nodes EXCEPT ![d] = device]

\* save_node, under the lock: what the announce does not tell of the interface
\* is kept from the row that was there.
Upsert(d, device) ==
    nodes' = [nodes EXCEPT ![d] =
                [device EXCEPT !.via = @ \/ (nodes[d] # Unknown /\ nodes[d].via)]]

\* An error of the database is logged.
Save(t) ==
    LET d == announce[t].dest IN
    /\ announce[t].at = "save"
    /\ announce' = [announce EXCEPT ![t] = NoAnnounce]
    /\ \/ Upsert(d, announce[t].device) /\ UNCHANGED unsaved
       \/ unsaved' = unsaved \cup {d} /\ UNCHANGED nodes
    /\ UNCHANGED <<discovered_devices, remembered, heard, starts, message>>

\* HubConnection.connect stores the hub, with its address for an identity.
HubIsStored ==
    /\ Upsert(HubDest, [type |-> "hub", lxmf |-> FALSE, via |-> FALSE,
                        identity |-> "placeholder"])
    /\ UNCHANGED <<discovered_devices, remembered, unsaved, announce, heard, starts, message>>

\* The process ends: the store stays, and what Reticulum wrote to disk.
Restart ==
    /\ starts < MaxStarts
    /\ starts' = starts + 1
    /\ discovered_devices' = [d \in Dest |-> Unknown]
    /\ announce' = [t \in AnnounceThread |-> NoAnnounce]
    /\ remembered' \in SUBSET remembered
    /\ message' = NoMessage
    /\ UNCHANGED <<nodes, unsaved, heard>>

-----------------------------------------------------------------------------
(* send_message.                                                            *)

\* Two lookups: the row of the destination, or one that names it.
IdentityFor(d) ==
    IF nodes[d] # Unknown THEN nodes[d].identity
    ELSE IF d[2] = "delivery" /\ nodes[<<d[1], "operator">>] # Unknown
               /\ nodes[<<d[1], "operator">>].lxmf
         THEN nodes[<<d[1], "operator">>].identity
    ELSE "unknown"

Recalls(i) == \E d \in remembered : d[1] = i

\* Strategy 1: Reticulum recalls the destination's identity.
SendMessage(d) ==
    /\ message = NoMessage
    /\ message' = IF d \in remembered THEN <<"path", d, d[1]>> ELSE <<"lookup", d, "unknown">>
    /\ UNCHANGED <<discovered_devices, nodes, remembered, unsaved, announce, heard, starts>>

\* Mutant of LookUp: an identity the store knows is taken for resolved.
LookUpTrusting ==
    /\ message[1] = "lookup"
    /\ message' = <<IF IdentityFor(message[2]) = "unknown" THEN "wait" ELSE "path", message[2],
                    IdentityFor(message[2])>>
    /\ UNCHANGED <<discovered_devices, nodes, remembered, unsaved, announce, heard, starts>>

\* Strategies 2 and 3: the store.
LookUp ==
    /\ message[1] = "lookup"
    /\ message' = <<"recall", message[2], IdentityFor(message[2])>>
    /\ UNCHANGED <<discovered_devices, nodes, remembered, unsaved, announce, heard, starts>>

\* Its identity is recalled, or loaded from Reticulum's storage, which may hold
\* a file of a real identity; then a path request, if the limits allow one.
RecallStored ==
    /\ message[1] = "recall"
    /\ LET i == message[3] IN
       \/ i \in Identity /\ message' = <<"path", message[2], i>>
       \/ ~Recalls(i) /\ message' \in {"wait", "failed"} \X {message[2]} \X {i}
    /\ UNCHANGED <<discovered_devices, nodes, remembered, unsaved, announce, heard, starts>>

\* Polled for ten seconds.
Wait ==
    /\ message[1] = "wait"
    /\ LET d == message[2] i == message[3] IN
       IF d \in remembered THEN message' = <<"path", d, d[1]>>
       ELSE IF Recalls(i) THEN message' = <<"path", d, i>>
       ELSE message' = <<"failed", d, i>>
    /\ UNCHANGED <<discovered_devices, nodes, remembered, unsaved, announce, heard, starts>>

\* Direct if there is a path, propagated if there is none; the router takes it.
Routed(way) ==
    /\ message[1] = "path"
    /\ way \in {"direct", "propagated"}
    /\ message' = <<way, message[2], message[3]>>
    /\ UNCHANGED <<discovered_devices, nodes, remembered, unsaved, announce, heard, starts>>

\* The next message.
Sent ==
    /\ message # NoMessage /\ message[1] \in {"direct", "propagated", "failed"}
    /\ message' = NoMessage
    /\ UNCHANGED <<discovered_devices, nodes, remembered, unsaved, announce, heard, starts>>

SendStep ==
    \/ \E d \in Dest : SendMessage(d)
    \/ LookUp \/ RecallStored \/ Wait
    \/ \E way \in {"direct", "propagated"} : Routed(way)
    \/ Sent

DiscoveryNext ==
    \/ \E t \in AnnounceThread :
          \/ \E d \in Dest, device \in Device : ReceivedAnnounce(t, d, device)
          \/ Compare(t) \/ Keep(t) \/ Save(t)
    \/ HubIsStored \/ Restart \/ SendStep

DiscoverySpec == DiscoveryInit /\ [][DiscoveryNext]_discoveryVars

-----------------------------------------------------------------------------
(* Properties.                                                             *)

\* Whoever is discovered is in the store once no thread is about to save it,
\* unless that failed, and an interface that is known in memory was not lost by
\* saves that came in another order.
DiscoveredIsStored ==
    \A d \in Discovered \ unsaved :
        (\A t \in AnnounceThread : announce[t].at # "save" \/ announce[t].dest # d) =>
            d \in Stored /\ (discovered_devices[d].via => nodes[d].via)

\* An LXMF announce of a node whose operator announced is kept as a Styrene node, or
\* dropped, whatever other threads add meanwhile.
StyreneStaysStyrene ==
    \A t \in AnnounceThread :
        announce[t].at \in {"keep", "save"} /\ announce[t].operator =>
            announce[t].device.type = "styrene"

\* A message goes to the owner of its destination, never to an identity that
\* only stands in for one, whatever the store was told before a restart.
SentToOwner ==
    message # NoMessage /\ message[1] \in {"path", "direct", "propagated"} =>
        message[3] = message[2][1]
=============================================================================
