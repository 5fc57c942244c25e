----------------------------- MODULE NodeServices -----------------------------
(***************************************************************************)
(* The services of a headless program: CoreLifecycle (services/            *)
(* lifecycle.py), RNSService (services/rns_service.py), the life of        *)
(* LXMFService (services/lxmf_service.py) and device discovery             *)
(* (services/reticulum.py).                                                *)
(*                                                                         *)
(* The program's thread initializes, uses and shuts down; the interface    *)
(* monitor is a thread of its own.  pc is where the program's thread       *)
(* stands, at the points where a step of the monitor makes a difference.   *)
(* Reticulum cannot be created twice in a process.                         *)
(***************************************************************************)
EXTENDS Naturals, FiniteSets

CONSTANTS
    Interface,
    MaxInits,     \* bound: calls of CoreLifecycle.initialize
    MaxFlaps      \* bound: changes of the interfaces

ASSUME ServicesAssumption ==
    MaxInits \in Nat /\ MaxFlaps \in Nat /\ IsFiniteSet(Interface)

Gone == MaxFlaps + 1    \* no destination

VARIABLES
    pc,          \* the program's thread
    initialized, \* CoreLifecycle._initialized
    failed,      \* _rns_error_state is not NONE
    inits,       \* calls of initialize; the last is the name of its directory
    configDir,   \* _rns_config_dir, or 0
    dirs,        \* temporary configurations on disk
    tracked,     \* _temp_config_dirs
    made,        \* RNS.Reticulum() was called
    rnsUp,       \* RNSService._initialized and its _reticulum
    cached,      \* _destinations holds the operator's destination
    callback,    \* LXMF's callback is in _reconnect_callbacks
    lxmfUp,      \* LXMFService._initialized and its _router
    delivery,    \* _delivery_destination: reconnections before it, or Gone
    listening,   \* a router delivers to _handle_lxmf_message
    discovery    \* _announce_handler

VARIABLES
    monitor,     \* where the monitor's thread stands
    stop,        \* _monitor_stop_event
    online,      \* the interfaces that are
    last,        \* the interfaces _last_interface_states says are
    missed,      \* DOMAIN _disconnect_times
    unchecked,   \* the interfaces this pass has still to look at
    copied,      \* LXMF's callback is in the copied list
    handled,     \* reconnections handled
    since,       \* reconnections before LXMF's callback was registered
    flaps        \* counts towards MaxFlaps

lifecycleVars == <<initialized, failed, inits, configDir, dirs, tracked>>
serviceVars == <<made, rnsUp, cached, callback, lxmfUp, delivery, listening, discovery>>
mainVars == <<pc, lifecycleVars, serviceVars>>
interfaceVars == <<online, flaps>>
monitorVars == <<monitor, stop, last, missed, unchecked, copied, handled, since>>
servicesVars == <<mainVars, interfaceVars, monitorVars>>

LifecycleTypeOK ==
    /\ pc \in {"idle", "destination", "lxmf", "callback", "announce",
               "stop_lxmf", "stop_rns", "join", "clear"}
    /\ initialized \in BOOLEAN /\ failed \in BOOLEAN
    /\ inits \in 0..MaxInits /\ configDir \in 0..MaxInits
    /\ dirs \subseteq 1..MaxInits /\ tracked \subseteq 1..MaxInits

ServiceTypeOK ==
    /\ made \in BOOLEAN /\ rnsUp \in BOOLEAN /\ cached \in BOOLEAN
    /\ callback \in BOOLEAN /\ lxmfUp \in BOOLEAN /\ delivery \in 0..Gone
    /\ listening \in BOOLEAN /\ discovery \in BOOLEAN

MonitorTypeOK ==
    /\ monitor \in {"off", "wait", "pass", "call"} /\ stop \in BOOLEAN
    /\ online \subseteq Interface /\ last \subseteq Interface
    /\ missed \subseteq Interface /\ unchecked \subseteq Interface
    /\ copied \in BOOLEAN
    /\ handled \in 0..MaxFlaps /\ since \in 0..MaxFlaps /\ flaps \in 0..MaxFlaps

ServicesTypeOK == LifecycleTypeOK /\ ServiceTypeOK /\ MonitorTypeOK

ServicesInit ==
    /\ pc = "idle"
    /\ initialized = FALSE /\ failed = FALSE /\ inits = 0 /\ configDir = 0
    /\ dirs = {} /\ tracked = {}
    /\ made = FALSE /\ rnsUp = FALSE /\ cached = FALSE /\ callback = FALSE
    /\ lxmfUp = FALSE /\ delivery = Gone /\ listening = FALSE /\ discovery = FALSE
    /\ monitor = "off" /\ stop = FALSE
    /\ online \in SUBSET Interface
    /\ last = {} /\ missed = {} /\ unchecked = {}
    /\ copied = FALSE /\ handled = 0 /\ since = 0 /\ flaps = 0

-----------------------------------------------------------------------------
(* CoreLifecycle.initialize: without Reticulum the program goes on offline. *)

\* No identity, a configuration that cannot be written, a port in use.
FailsEarly(temporary) ==
    /\ pc = "idle" /\ ~initialized /\ inits < MaxInits
    /\ inits' = inits + 1
    /\ initialized' = TRUE
    /\ failed' = TRUE
    /\ configDir' = IF temporary THEN inits + 1 ELSE configDir
    /\ dirs' = IF temporary THEN dirs \union {inits + 1} ELSE dirs
    /\ tracked' = IF temporary THEN tracked \union {inits + 1} ELSE tracked
    /\ UNCHANGED <<pc, serviceVars, interfaceVars, monitorVars>>

\* The directory for the configuration: one that exists, or a temporary one.
TakesConfig(temporary) ==
    /\ inits' = inits + 1
    /\ configDir' = IF temporary THEN inits + 1 ELSE 0
    /\ dirs' = IF temporary THEN dirs \union {inits + 1} ELSE dirs
    /\ tracked' = IF temporary THEN tracked \union {inits + 1} ELSE tracked

\* Mutant of ReticulumFails: the error state of the service is not taken over.
ReticulumFailsQuietly(temporary) ==
    /\ pc = "idle" /\ ~initialized /\ inits < MaxInits
    /\ TakesConfig(temporary)
    /\ initialized' = TRUE
    /\ made' = TRUE
    /\ UNCHANGED <<pc, failed, rnsUp, cached, callback, lxmfUp, delivery, listening,
                   discovery, interfaceVars, monitorVars>>

\* RNSService.initialize: RNS.Reticulum() raises.
ReticulumFails(temporary) ==
    /\ pc = "idle" /\ ~initialized /\ inits < MaxInits
    /\ TakesConfig(temporary)
    /\ initialized' = TRUE
    /\ failed' = TRUE
    /\ made' = TRUE
    /\ UNCHANGED <<pc, rnsUp, cached, callback, lxmfUp, delivery, listening,
                   discovery, interfaceVars, monitorVars>>

\* It returns: the interface states are captured, the monitor is started.
ReticulumStarts(temporary) ==
    /\ pc = "idle" /\ ~initialized /\ inits < MaxInits
    /\ ~made
    /\ TakesConfig(temporary)
    /\ failed' = FALSE
    /\ made' = TRUE
    /\ rnsUp' = TRUE
    /\ last' = online
    /\ stop' = FALSE
    /\ monitor' = "wait"
    /\ pc' = "destination"
    /\ UNCHANGED <<initialized, cached, callback, lxmfUp, delivery, listening,
                   discovery, interfaceVars, missed, unchecked, copied, handled, since>>

\* create_operator_destination; then LXMF, if rpc.enabled.
CreatesDestination(rpc) ==
    /\ pc = "destination"
    /\ cached' = TRUE
    /\ pc' = IF rpc THEN "lxmf" ELSE "idle"
    /\ initialized' = ~rpc
    /\ UNCHANGED <<failed, inits, configDir, dirs, tracked, made, rnsUp, callback,
                   lxmfUp, delivery, listening, discovery, interfaceVars, monitorVars>>

\* The command line initializes LXMF when the lifecycle did not.
InitializeLXMF ==
    /\ pc = "idle" /\ initialized
    /\ rnsUp /\ ~lxmfUp
    /\ pc' = "lxmf"
    /\ UNCHANGED <<lifecycleVars, serviceVars, interfaceVars, monitorVars>>

-----------------------------------------------------------------------------
(* LXMFService.initialize, up to the seeding of blocks (PeerBlocks).        *)

\* The result of _initialize_lxmf is not looked at.
LXMFReturns == pc' = "idle" /\ initialized' = TRUE

\* The router cannot be made, or its identity is registered already.
LXMFFails ==
    /\ pc \in {"lxmf"}
    /\ LXMFReturns
    /\ UNCHANGED <<failed, inits, configDir, dirs, tracked, serviceVars,
                   interfaceVars, monitorVars>>

\* register_delivery_identity, register_delivery_callback.
RegistersIdentity ==
    /\ pc \in {"lxmf"}
    /\ ~listening
    /\ delivery' = handled
    /\ listening' = TRUE
    /\ lxmfUp' = TRUE
    /\ pc' = "callback"
    /\ UNCHANGED <<lifecycleVars, made, rnsUp, cached, callback, discovery,
                   interfaceVars, monitorVars>>

\* register_reconnect_callback.
RegistersCallback ==
    /\ pc = "callback"
    /\ callback' = TRUE
    /\ since' = handled
    /\ pc' = "announce"
    /\ UNCHANGED <<lifecycleVars, made, rnsUp, cached, lxmfUp, delivery, listening,
                   discovery, interfaceVars, monitor, stop, last, missed, unchecked,
                   copied, handled>>

\* The announcement reads the delivery destination, which may be gone.
Announces ==
    /\ pc = "announce"
    /\ lxmfUp' = (delivery # Gone)
    /\ LXMFReturns
    /\ UNCHANGED <<failed, inits, configDir, dirs, tracked, made, rnsUp, cached,
                   callback, delivery, listening, discovery, interfaceVars, monitorVars>>

-----------------------------------------------------------------------------
(* Discovery, shutdown, exit.                                               *)

StartDiscovery ==
    /\ pc = "idle" /\ initialized /\ ~discovery
    /\ discovery' = TRUE
    /\ UNCHANGED <<pc, lifecycleVars, made, rnsUp, cached, callback, lxmfUp,
                   delivery, listening, interfaceVars, monitorVars>>

\* stop_discovery, by the program or first of all in shutdown().
StopDiscovery(shutdown) ==
    /\ pc = "idle" /\ initialized
    /\ shutdown \/ discovery
    /\ discovery' = FALSE
    /\ pc' = IF shutdown THEN "stop_lxmf" ELSE pc
    /\ UNCHANGED <<lifecycleVars, made, rnsUp, cached, callback, lxmfUp, delivery,
                   listening, interfaceVars, monitorVars>>

\* LXMFService.shutdown: the delivery destination stays.
StopLXMF ==
    /\ pc = "stop_lxmf"
    /\ lxmfUp' = FALSE
    /\ pc' = "stop_rns"
    /\ UNCHANGED <<lifecycleVars, made, rnsUp, cached, callback, delivery, listening,
                   discovery, interfaceVars, monitorVars>>

\* RNSService.shutdown returns at once without Reticulum; else it sets the
\* monitor's event and joins it.
StopRNS ==
    /\ pc = "stop_rns"
    /\ IF rnsUp THEN pc' = "join" /\ stop' = TRUE
                ELSE pc' = "clear" /\ UNCHANGED stop
    /\ UNCHANGED <<lifecycleVars, serviceVars, interfaceVars, monitor, last, missed,
                   unchecked, copied, handled, since>>

\* The thread has ended, or two seconds are over.
Joined ==
    /\ pc = "join"
    /\ cached' = FALSE
    /\ callback' = FALSE
    /\ rnsUp' = FALSE
    /\ pc' = "clear"
    /\ UNCHANGED <<lifecycleVars, made, lxmfUp, delivery, listening, discovery,
                   interfaceVars, monitorVars>>

\* Mutant of CleansUp: the directory stays tracked but is not removed.
CleansUpLater ==
    /\ pc = "clear"
    /\ tracked' = tracked \ {configDir}
    /\ configDir' = 0
    /\ initialized' = FALSE
    /\ pc' = "idle"
    /\ UNCHANGED <<failed, inits, dirs, serviceVars, interfaceVars, monitorVars>>

\* The end of CoreLifecycle.shutdown.
CleansUp ==
    /\ pc = "clear"
    /\ dirs' = dirs \ {configDir}
    /\ tracked' = tracked \ {configDir}
    /\ configDir' = 0
    /\ initialized' = FALSE
    /\ pc' = "idle"
    /\ UNCHANGED <<failed, inits, serviceVars, interfaceVars, monitorVars>>

-----------------------------------------------------------------------------
(* The interface monitor.                                                   *)

InterfaceChanges(i) ==
    /\ flaps < MaxFlaps
    /\ flaps' = flaps + 1
    /\ online' = (online \ {i}) \union ({i} \ online)
    /\ UNCHANGED <<mainVars, monitorVars>>

MonitorEnds ==
    /\ monitor = "wait" /\ stop
    /\ monitor' = "off"
    /\ UNCHANGED <<mainVars, interfaceVars, stop, last, missed, unchecked, copied,
                   handled, since>>

\* The interval is over: _check_interface_states.
PassBegins ==
    /\ monitor = "wait" /\ ~stop
    /\ last # online
    /\ monitor' = "pass"
    /\ unchecked' = Interface
    /\ UNCHANGED <<mainVars, interfaceVars, stop, last, missed, copied, handled, since>>

PassEnds ==
    /\ monitor = "pass" /\ unchecked = {}
    /\ monitor' = "wait"
    /\ UNCHANGED <<mainVars, interfaceVars, stop, last, missed, unchecked, copied,
                   handled, since>>

\* Nothing to handle: it is as before, went offline, or was offline when the
\* states were captured.
Checks(i) ==
    /\ monitor = "pass" /\ i \in unchecked
    /\ ~(i \in online /\ i \notin last /\ i \in missed)
    /\ missed' = IF i \in last \ online THEN missed \union {i} ELSE missed
    /\ last' = IF i \in online THEN last \union {i} ELSE last \ {i}
    /\ unchecked' = unchecked \ {i}
    /\ UNCHANGED <<mainVars, interfaceVars, monitor, stop, copied, handled, since>>

\* It is back: under the lock, the cache is cleared and the callbacks copied.
HandlesReconnection(i) ==
    /\ monitor = "pass" /\ i \in unchecked
    /\ i \in online /\ i \notin last /\ i \in missed
    /\ cached' = FALSE
    /\ copied' = callback
    /\ handled' = handled + 1
    /\ monitor' = "call"
    /\ unchecked' = unchecked \ {i}
    /\ last' = last \union {i}
    /\ missed' = missed \ {i}
    /\ UNCHANGED <<pc, lifecycleVars, made, rnsUp, callback, lxmfUp, delivery,
                   listening, discovery, interfaceVars, stop, since>>

\* Mutants of CallsBack: an exception of a callback ends the thread; the
\* callback spares a destination that has not been announced.
CallsUnguarded ==
    /\ monitor = "call"
    /\ delivery' = IF copied THEN Gone ELSE delivery
    /\ monitor' = IF copied THEN "off" ELSE "pass"
    /\ UNCHANGED <<pc, lifecycleVars, made, rnsUp, cached, callback, lxmfUp, listening,
                   discovery, interfaceVars, stop, last, missed, unchecked, copied,
                   handled, since>>
CallsWhenIdle ==
    /\ monitor = "call"
    /\ delivery' = IF copied /\ pc # "announce" THEN Gone ELSE delivery
    /\ monitor' = "pass"
    /\ UNCHANGED <<pc, lifecycleVars, made, rnsUp, cached, callback, lxmfUp, listening,
                   discovery, interfaceVars, stop, last, missed, unchecked, copied,
                   handled, since>>

\* Outside the lock: LXMFService._handle_reconnection.
CallsBack ==
    /\ monitor = "call"
    /\ delivery' = IF copied THEN Gone ELSE delivery
    /\ monitor' = "pass"
    /\ UNCHANGED <<pc, lifecycleVars, made, rnsUp, cached, callback, lxmfUp, listening,
                   discovery, interfaceVars, stop, last, missed, unchecked, copied,
                   handled, since>>

MonitorStep ==
    \/ MonitorEnds \/ PassBegins \/ PassEnds \/ CallsBack
    \/ \E i \in Interface : Checks(i) \/ HandlesReconnection(i)

InitializeStep ==
    \/ \E temporary \in BOOLEAN :
          FailsEarly(temporary) \/ ReticulumFails(temporary) \/ ReticulumStarts(temporary)
    \/ \E rpc \in BOOLEAN : CreatesDestination(rpc)
    \/ InitializeLXMF \/ LXMFFails \/ RegistersIdentity \/ RegistersCallback \/ Announces

ShutdownStep == StopLXMF \/ StopRNS \/ Joined \/ CleansUp

ServicesNext ==
    \/ InitializeStep \/ ShutdownStep \/ MonitorStep
    \/ StartDiscovery \/ \E shutdown \in BOOLEAN : StopDiscovery(shutdown)
    \/ \E i \in Interface : InterfaceChanges(i)

\* Threads run; the monitor comes to every interface.
ServicesFairness ==
    /\ WF_servicesVars(MonitorStep)
    /\ WF_servicesVars(ShutdownStep)

ServicesSpec == ServicesInit /\ [][ServicesNext]_servicesVars /\ ServicesFairness

-----------------------------------------------------------------------------
(* Properties.                                                             *)

\* A program that is initialized knows whether it is offline, whatever
\* failed, and also when it is initialized again.
OfflineIsKnown == pc = "idle" /\ initialized => (rnsUp <=> ~failed)

\* Shutting down leaves nothing up and no directory, whichever step of the
\* initialization failed and whatever the monitor did meanwhile.
ShutdownIsComplete ==
    pc = "idle" /\ ~initialized =>
        /\ ~discovery /\ ~lxmfUp /\ ~rnsUp /\ ~callback /\ ~cached
        /\ dirs = {} /\ tracked = {}

\* LXMF does not keep a destination from before a reconnection that its
\* callback was registered for, on whatever thread the two happen.
NoStaleDelivery ==
    callback /\ handled > since /\ monitor # "call" => delivery = Gone

\* An interface the monitor has missed and that stays back is handled.
ReconnectHandled ==
    \A i \in Interface :
        i \in missed /\ i \in online ~> i \notin missed \/ i \notin online \/ stop

\* "RNS.Destination for LXMF delivery, or None if not initialized."
\* (services/lxmf_service.py:147)
DeliveryKnown == pc = "idle" /\ lxmfUp => delivery # Gone
=============================================================================
