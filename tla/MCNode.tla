-------------------------------- MODULE MCNode --------------------------------
(* The modules of the headless node for one run of TLC: in a behaviour one of *)
(* them steps, which is chosen at the start.                                  *)
EXTENDS HubConnection, NodeServices, PeerBlocks, NodeDiscovery, AccessPolicy, RPCClient

CONSTANTS c1, c2

MCPeer == {"p1", "p2"}
MCConfigured == <<"p">>
MCMatches(a, b) == a = b \/ {a, b} = {"p", "p2"}

\* Entries of two members: every way to be refused or admitted, and words nobody knows.
MCLine == {[identity |-> "m1", role |-> "admin", grants |-> {}],
           [identity |-> "m1", role |-> "blocked", grants |-> {"vpn.handshake"}],
           [identity |-> "m2", role |-> "peer", grants |-> {"vpn.handshake", "typo"}],
           [identity |-> "m2", role |-> "typo", grants |-> {}]}
MCCovers(q, m) == m = "m1"

VARIABLE subject

MCInit ==
    /\ subject \in {"hub", "services", "blocks", "discovery", "policy", "calls"}
    /\ IF subject = "hub" THEN HubInit ELSE HubInit /\ ~has_path
    /\ IF subject = "services" THEN ServicesInit ELSE ServicesInit /\ online = {}
    /\ IF subject = "blocks" THEN BlocksInit ELSE BlocksInit /\ table = {} /\ known = {}
    /\ IF subject = "policy" THEN PolicyInit
       ELSE PolicyInit /\ text = [default_role |-> "none", roster |-> <<>>, blocked |-> {}]
    /\ DiscoveryInit /\ Init

MCNext ==
    /\ UNCHANGED subject
    /\ \/ /\ subject = "hub" /\ HubNext
          /\ UNCHANGED <<servicesVars, blocksVars, discoveryVars, policyVars, vars>>
       \/ /\ subject = "services" /\ ServicesNext
          /\ UNCHANGED <<allHubVars, blocksVars, discoveryVars, policyVars, vars>>
       \/ /\ subject = "blocks" /\ BlocksNext
          /\ UNCHANGED <<allHubVars, servicesVars, discoveryVars, policyVars, vars>>
       \/ /\ subject = "discovery" /\ DiscoveryNext
          /\ UNCHANGED <<allHubVars, servicesVars, blocksVars, policyVars, vars>>
       \/ /\ subject = "policy" /\ PolicyNext
          /\ UNCHANGED <<allHubVars, servicesVars, blocksVars, discoveryVars, vars>>
       \/ /\ subject = "calls" /\ Next
          /\ UNCHANGED <<allHubVars, servicesVars, blocksVars, discoveryVars, policyVars>>

MCVars == <<subject, allHubVars, servicesVars, blocksVars, discoveryVars, policyVars, vars>>
MCSpec ==
    /\ MCInit /\ [][MCNext]_MCVars
    /\ subject = "services" => ServicesFairness
    /\ Fairness /\ Clock

\* The types of every module's state.
NodeTypeOK == HubTypeOK /\ ServicesTypeOK /\ BlocksTypeOK /\ DiscoveryTypeOK /\ PolicyTypeOK /\ TypeOK

\* What the node reports of the network was so when it last looked: a hub
\* that is connected, a program that is offline; and what it has discovered
\* is in its store, with nothing lost to saves in another order. And what its
\* access policy says of a member it says on every way: asked one by one or listed
\* for Reticulum, kept in memory or written to the file and read again.
ReportsAreTrue ==
    /\ ConnectedWasSeen /\ OfflineIsKnown
    /\ DiscoveredIsStored /\ StyreneStaysStyrene
    /\ ListsAreCurrent /\ ListsAgree /\ PolicyReadsBack /\ AddedMayRead

\* Nobody's message goes astray: what is sent to the node finds the destination
\* it last announced, what it sends goes to the owner of the destination, and
\* whoever the database blocks, and nobody else, is blocked in memory after any
\* block, unblock and restart, and no message of theirs is dispatched.
DeliveryIsRight ==
    /\ NoStaleDelivery /\ SentToOwner
    /\ BlocksSurvive /\ NothingElseBlocked /\ BlockedIsDropped

\* Every call over the mesh ends, answered or not, and every reconnection that
\* the monitor sees is handled.
NothingWaits == CallEnds /\ ReconnectHandled
===============================================================================
