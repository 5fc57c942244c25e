---------------------------- MODULE HubConnection ----------------------------
(***************************************************************************)
(* The connection to a hub (services/hub_connection.py): an address and    *)
(* flags beside Reticulum's path table, which is asked again at most every *)
(* PATH_CHECK_INTERVAL, with the limiter that bounds its path requests and *)
(* those of the other services.  All of it runs on one thread.             *)
(***************************************************************************)
EXTENDS PathRequestLimiter, Integers

CONSTANTS
    Hub,                   \* the hub's destination
    PATH_CHECK_INTERVAL,
    AnnounceInterval,      \* _announce_interval
    MaxNow                 \* bound: the clock stops

ASSUME HubAssumption ==
    /\ Hub \in Destination
    /\ PATH_CHECK_INTERVAL \in Nat /\ AnnounceInterval \in Nat /\ MaxNow \in Nat

Never == -1

VARIABLES
    has_path,        \* RNS.Transport.has_path(hub)
    connected,       \* _connected
    hub_address,     \* _hub_address is set
    hub_configured,  \* _hub_configured
    waiting_since,   \* _waiting_since, or Never
    last_check,      \* _last_path_check
    seen             \* when the code last found the path, or Never

flagVars == <<connected, hub_address, hub_configured, waiting_since, last_check>>
hubVars == <<has_path, flagVars, seen>>
allHubVars == <<limiterVars, hubVars>>

HubTypeOK ==
    /\ LimiterTypeOK
    /\ has_path \in BOOLEAN /\ connected \in BOOLEAN
    /\ hub_address \in BOOLEAN /\ hub_configured \in BOOLEAN
    /\ waiting_since \in Nat \union {Never}
    /\ last_check \in Nat
    /\ seen \in Nat \union {Never}

\* _last_path_check is 0.0, long before the first call.
HubInit ==
    /\ LimiterInit(PATH_CHECK_INTERVAL + 1)
    /\ has_path \in BOOLEAN
    /\ connected = FALSE
    /\ hub_address = FALSE
    /\ hub_configured = FALSE
    /\ waiting_since = Never
    /\ last_check = 0
    /\ seen = Never

SetConfigured ==
    /\ hub_configured' = ~hub_configured
    /\ UNCHANGED <<limiterVars, has_path, connected, hub_address, waiting_since,
                   last_check, seen>>

\* What a look at the path table leaves: the time, or no connection.
PathChecked ==
    /\ connected' = has_path
    /\ last_check' = IF has_path THEN now ELSE last_check
    /\ seen' = IF has_path THEN now ELSE seen

\* Mutant of CheckIsDue: only a connection never checked is.
CheckIsDueOnce == last_check = 0

CheckIsDue == now - last_check > PATH_CHECK_INTERVAL

\* is_connected, and status, which reads it.
IsConnected ==
    /\ connected /\ hub_address
    /\ CheckIsDue
    /\ PathChecked
    /\ UNCHANGED <<limiterVars, has_path, hub_address, hub_configured, waiting_since>>

ForcePathCheck ==
    /\ connected /\ hub_address
    /\ PathChecked
    /\ UNCHANGED <<limiterVars, has_path, hub_address, hub_configured, waiting_since>>

\* connect(): without a path one is requested and the waiting begins.
Connect ==
    /\ hub_address' = TRUE
    /\ connected' = has_path
    /\ IF has_path
       THEN /\ waiting_since' = Never
            /\ seen' = now
            /\ UNCHANGED limiterVars
       ELSE /\ RequestPath(Hub)
            /\ waiting_since' = now
            /\ UNCHANGED seen
    /\ UNCHANGED <<has_path, hub_configured, last_check>>

RetryConnection == hub_address /\ ~connected /\ Connect

Disconnect ==
    /\ hub_address' = FALSE
    /\ connected' = FALSE
    /\ waiting_since' = Never
    /\ UNCHANGED <<limiterVars, has_path, hub_configured, last_check, seen>>

\* send_message, _resolve_identity and the terminal client ask for the paths
\* of other destinations.
RequestOther(d) ==
    /\ d # Hub
    /\ RequestPath(d)
    /\ UNCHANGED hubVars

PathComesOrGoes ==
    /\ has_path' = ~has_path
    /\ UNCHANGED <<limiterVars, flagVars, seen>>

TimePasses ==
    /\ now < MaxNow
    /\ Tick
    /\ UNCHANGED hubVars

HubNext ==
    \/ SetConfigured \/ IsConnected \/ ForcePathCheck \/ Connect \/ RetryConnection
    \/ Disconnect \/ PathComesOrGoes \/ TimePasses
    \/ \E d \in Destination : RequestOther(d)

HubSpec == HubInit /\ [][HubNext]_allHubVars

-----------------------------------------------------------------------------
(* Properties.                                                             *)

\* What status returns if it is asked now.
Status ==
    CASE connected /\ hub_address /\ (CheckIsDue => has_path) -> "connected"
      [] ~connected /\ hub_address ->
            IF waiting_since = Never \/ now - waiting_since < AnnounceInterval
            THEN "waiting" ELSE "disconnected"
      [] ~connected /\ ~hub_address ->
            IF hub_configured THEN "waiting" ELSE "disabled"
      [] OTHER -> "waiting"

\* A hub that is reported connected has a path now, or had one when the code
\* looked, at most PATH_CHECK_INTERVAL ago, through every order of checks,
\* connects and disconnects.
ConnectedWasSeen ==
    Status = "connected" =>
        has_path \/ (seen # Never /\ now - seen <= PATH_CHECK_INTERVAL)
=============================================================================
