------------------------------ MODULE IPCBridge ------------------------------
(***************************************************************************)
(* Calls from the user interface to the daemon: IPCBridge (ipc/bridge.py)  *)
(* with the ControlClients it creates (ipc/client.py), shared by the tasks *)
(* of one asyncio loop.  A step is what runs between two awaits.           *)
(*                                                                         *)
(* A task t makes one call.  connect() leaves the client it is opening in  *)
(* bridge._client over its awaits, where another task's connect() may      *)
(* replace it.  The daemon is outside: it may die with all connections and *)
(* requests, and come back.                                                *)
(***************************************************************************)
EXTENDS Naturals, FiniteSets

CONSTANTS
    Client,        \* ControlClient objects: one per call, the bridge's and the one it
                   \* closes; one that is forgotten is reused
    Task,          \* calls
    MaxAttempts,   \* _MAX_RECONNECT_ATTEMPTS
    MaxCrashes,    \* bound: times the daemon dies
    NoClient

ASSUME BridgeAssumption ==
    /\ MaxAttempts \in Nat \ {0} /\ MaxCrashes \in Nat /\ NoClient \notin Client
    /\ IsFiniteSet(Task) /\ IsFiniteSet(Client) /\ Cardinality(Client) >= Cardinality(Task) + 2

Outcome == {"result", "timeout", "cancelled", "unreachable", "assertion"}

VARIABLES
    client,    \* bridge._client
    ready,     \* bridge._connected
    conn,      \* a client: "new", "opening", "open", "eof" or "closed"
    owner,     \* bridge.disconnect(): "using", "closing" or "left"
    dropped,   \* the client it closes
    up,        \* the daemon runs
    alive,     \* connections the daemon holds
    crashes,   \* times it has died
    call_at,        \* where a call stands, or how it ended
    held,      \* the client a call awaits
    attempts,  \* attempts of its _reconnect
    retried,   \* calls in the except branch of _call
    request,   \* the call's request: "none", "sent" or "answered"
    executed   \* times the daemon has carried it out

clientVars == <<client, ready, conn>>
ownerVars == <<owner, dropped>>
socketVars == <<up, alive, crashes, executed>>
callVars == <<call_at, held, attempts, retried, request>>
bridgeVars == <<clientVars, ownerVars, socketVars, callVars>>

BridgeTypeOK ==
    /\ client \in Client \union {NoClient}
    /\ ready \in BOOLEAN
    /\ conn \in [Client -> {"new", "opening", "open", "eof", "closed"}]
    /\ owner \in {"using", "closing", "left"}
    /\ dropped \in Client \union {NoClient}
    /\ up \in BOOLEAN
    /\ alive \subseteq Client
    /\ crashes \in 0..MaxCrashes
    /\ call_at \in [Task -> {"new", "reconnect", "opening", "ping", "drop", "wait"} \union Outcome]
    /\ held \in [Task -> Client \union {NoClient}]
    /\ attempts \in [Task -> 0..MaxAttempts]
    /\ retried \subseteq Task
    /\ request \in [Task -> {"none", "sent", "answered"}]
    /\ executed \in [Task -> Nat]

BridgeInit ==
    /\ client = NoClient
    /\ ready = FALSE
    /\ conn = [k \in Client |-> "new"]
    /\ owner = "using"
    /\ dropped = NoClient
    /\ up = TRUE
    /\ alive = {}
    /\ crashes = 0
    /\ call_at = [t \in Task |-> "new"]
    /\ held = [t \in Task |-> NoClient]
    /\ attempts = [t \in Task |-> 0]
    /\ retried = {}
    /\ request = [t \in Task |-> "none"]
    /\ executed = [t \in Task |-> 0]

Connected == ready /\ client # NoClient /\ conn[client] = "open"

\* Clients that only t may still refer to.  A connection that nobody refers to
\* stays open in the code, to no effect but the leak: its name is used again.
Free(t) ==
    {k \in Client : k \notin {client, dropped} /\ \A u \in Task \ {t} : held[u] # k}

Move(t, point, k) ==
    /\ call_at' = [call_at EXCEPT ![t] = point]
    /\ held' = [held EXCEPT ![t] = k]

-----------------------------------------------------------------------------
(* _call, _ensure_connected and _reconnect.                                *)

\* connect() begins: a new client replaces whatever the bridge has.
Opens(t) ==
    /\ client' = CHOOSE k \in Free(t) : TRUE
    /\ conn' = [conn EXCEPT ![client'] = "opening"]
    /\ alive' = alive \ {client'}
    /\ Move(t, "opening", client')

\* _request of client k: it needs an open connection, and the write fails on
\* one the daemon has dropped.  Then _call reconnects, without a pause and
\* with _connected off; it does so once.
Submit(t, k) ==
    \/ /\ conn[k] = "open" /\ k \in alive
       /\ Move(t, "wait", k)
       /\ request' = [request EXCEPT ![t] = "sent"]
       /\ ready' = TRUE
       /\ UNCHANGED <<client, conn, alive, attempts, retried>>
    \/ /\ ~(conn[k] = "open" /\ k \in alive)
       /\ t \notin retried
       /\ Opens(t)
       /\ attempts' = [attempts EXCEPT ![t] = 0]
       /\ retried' = retried \union {t}
       /\ ready' = FALSE
       /\ UNCHANGED request
    \/ /\ ~(conn[k] = "open" /\ k \in alive)
       /\ t \in retried
       /\ Move(t, "unreachable", NoClient)
       /\ ready' = TRUE
       /\ UNCHANGED <<client, conn, alive, attempts, retried, request>>

\* Mutant of AttemptFails: one attempt too many.
AttemptFailsLate(t) ==
    /\ attempts' = [attempts EXCEPT ![t] = @ + 1]
    /\ Move(t, IF attempts[t] + 1 > MaxAttempts THEN "unreachable" ELSE "reconnect",
            NoClient)

\* An attempt has failed: the last one ends the call.
AttemptFails(t) ==
    /\ attempts' = [attempts EXCEPT ![t] = @ + 1]
    /\ Move(t, IF attempts[t] + 1 = MaxAttempts THEN "unreachable" ELSE "reconnect",
            NoClient)

\* The call begins, or its _reconnect comes to its next attempt.
Proceed(t) ==
    /\ call_at[t] \in {"new", "reconnect"}
    /\ Connected
    /\ Submit(t, client)
    /\ UNCHANGED <<ownerVars, up, crashes, executed>>

StartAttempt(t) ==
    /\ call_at[t] \in {"new", "reconnect"}
    /\ ~Connected
    /\ Opens(t)
    /\ UNCHANGED <<ready, ownerVars, up, crashes, executed, attempts, retried, request>>

\* There is no daemon: bridge._client goes, be it this attempt's or not.
OpenFails(t) ==
    /\ call_at[t] = "opening"
    /\ ~up
    /\ conn' = [conn EXCEPT ![held[t]] = "closed"]
    /\ client' = NoClient
    /\ AttemptFails(t)
    /\ UNCHANGED <<ready, ownerVars, socketVars, retried, request>>

\* The client is open; the ping goes to whatever bridge._client is by now.
\* None raises AttributeError; a client that is not open fails the ping, is
\* disconnected (which does not stop its opening) and forgotten.
OpenSucceeds(t) ==
    /\ call_at[t] = "opening"
    /\ up
    /\ alive' = alive \union {held[t]}
    /\ conn' = [conn EXCEPT ![held[t]] = "open"]
    /\ IF client # NoClient /\ conn'[client] = "open"
       THEN /\ Move(t, "ping", client)
            /\ UNCHANGED <<client, attempts>>
       ELSE /\ client' = NoClient
            /\ AttemptFails(t)
    /\ UNCHANGED <<ready, ownerVars, up, crashes, executed, retried, request>>

\* The ping is answered and the bridge is connected; _ensure_connected asserts
\* that it has a client, and the call goes on with that one.
PingReturns(t) ==
    /\ call_at[t] = "ping"
    /\ conn[held[t]] = "open"
    /\ held[t] \in alive
    /\ IF client = NoClient
       THEN /\ Move(t, "assertion", NoClient)
            /\ ready' = TRUE
            /\ UNCHANGED <<client, conn, alive, attempts, retried, request>>
       ELSE Submit(t, client)
    /\ UNCHANGED <<ownerVars, up, crashes, executed>>

\* Mutant of CancelWaiters: disconnect() leaves the pending requests alone.
CancelNobody(k, except) == call_at

\* ControlClient.disconnect(): the receive task ends and the requests that
\* wait for it are cancelled.  A client that is still opening opens anyway.
CancelWaiters(k, except) ==
    [t \in Task |->
        IF held[t] = k /\ t \notin except /\ call_at[t] \in {"ping", "wait"}
        THEN "cancelled" ELSE call_at[t]]

Shut(k) ==
    /\ conn' = [conn EXCEPT ![k] = IF @ = "opening" THEN @ ELSE "closed"]
    /\ alive' = alive \ {k}

\* No answer within three seconds: bridge._client is disconnected.
PingFails(t) ==
    /\ call_at[t] = "ping"
    /\ IF client = NoClient
       THEN AttemptFails(t) /\ UNCHANGED <<conn, alive>>
       ELSE /\ Shut(client)
            /\ call_at' = [CancelWaiters(client, {t}) EXCEPT ![t] = "drop"]
            /\ held' = [held EXCEPT ![t] = client]
            /\ UNCHANGED attempts
    /\ UNCHANGED <<client, ready, ownerVars, up, crashes, executed, retried, request>>

\* ... and forgotten, whichever client it has by then.
DropDone(t) ==
    /\ call_at[t] = "drop"
    /\ client' = NoClient
    /\ AttemptFails(t)
    /\ UNCHANGED <<ready, conn, ownerVars, socketVars, retried, request>>

\* The answer arrives on the connection the request went out on.
AnswerArrives(t) ==
    /\ call_at[t] = "wait"
    /\ request[t] = "answered"
    /\ conn[held[t]] = "open"
    /\ Move(t, "result", NoClient)
    /\ UNCHANGED <<clientVars, ownerVars, socketVars, attempts, retried, request>>

\* Mutants of Timeout: a timeout is retried like a lost connection; there is
\* none once the connection is down.
TimeoutRetries(t) ==
    /\ call_at[t] = "wait"
    /\ t \notin retried
    /\ retried' = retried \union {t}
    /\ attempts' = [attempts EXCEPT ![t] = 0]
    /\ ready' = FALSE
    /\ Move(t, "reconnect", NoClient)
    /\ UNCHANGED <<client, conn, ownerVars, socketVars, request>>

TimeoutWhileOpen(t) ==
    /\ call_at[t] = "wait"
    /\ conn[held[t]] = "open"
    /\ Move(t, "timeout", NoClient)
    /\ UNCHANGED <<clientVars, ownerVars, socketVars, attempts, retried, request>>

\* The end of the connection does not end the wait, the timeout does.
Timeout(t) ==
    /\ call_at[t] = "wait"
    /\ Move(t, "timeout", NoClient)
    /\ UNCHANGED <<clientVars, ownerVars, socketVars, attempts, retried, request>>

-----------------------------------------------------------------------------
(* bridge.disconnect(), the receive loops and the daemon.                  *)

Leave ==
    /\ owner = "using"
    /\ ready' = FALSE
    /\ owner' = "closing"
    /\ dropped' = client
    /\ IF client = NoClient
       THEN UNCHANGED <<conn, alive, call_at>>
       ELSE Shut(client) /\ call_at' = CancelWaiters(client, {})
    /\ UNCHANGED <<client, up, crashes, executed, held, attempts, retried, request>>

Left ==
    /\ owner = "closing"
    /\ owner' = "left"
    /\ client' = NoClient
    /\ dropped' = NoClient
    /\ UNCHANGED <<ready, conn, socketVars, callVars>>

\* _receive_loop has read everything and finds the end of the stream.
SeeEof(k) ==
    /\ conn[k] = "open"
    /\ k \notin alive
    /\ k \in {client, dropped} \/ \E t \in Task : held[t] = k
    /\ \A t \in Task : held[t] = k => request[t] # "answered"
    /\ conn' = [conn EXCEPT ![k] = "eof"]
    /\ UNCHANGED <<client, ready, ownerVars, socketVars, callVars>>

\* The daemon carries out a request, whether or not anybody still waits.
Serve(t) ==
    /\ up
    /\ request[t] = "sent"
    /\ executed' = [executed EXCEPT ![t] = @ + 1]
    /\ request' = [request EXCEPT ![t] = "answered"]
    /\ UNCHANGED <<clientVars, ownerVars, up, alive, crashes, call_at, held, attempts,
                   retried>>

Crash ==
    /\ up
    /\ crashes < MaxCrashes
    /\ up' = FALSE
    /\ crashes' = crashes + 1
    /\ alive' = {}
    /\ request' = [t \in Task |-> IF request[t] = "sent" THEN "none" ELSE request[t]]
    /\ UNCHANGED <<clientVars, ownerVars, executed, call_at, held, attempts, retried>>

RestartsDaemon ==
    /\ ~up
    /\ up' = TRUE
    /\ UNCHANGED <<clientVars, ownerVars, alive, crashes, executed, callVars>>

-----------------------------------------------------------------------------
CallStep(t) ==
    \/ Proceed(t) \/ StartAttempt(t) \/ OpenFails(t) \/ OpenSucceeds(t)
    \/ PingReturns(t) \/ PingFails(t) \/ DropDone(t)
    \/ AnswerArrives(t) \/ Timeout(t)

BridgeNext ==
    \/ \E t \in Task : CallStep(t) \/ Serve(t)
    \/ \E k \in Client : SeeEof(k)
    \/ Leave \/ Left
    \/ Crash \/ RestartsDaemon

BridgeSpec == BridgeInit /\ [][BridgeNext]_bridgeVars

\* Tasks that can go on do, and timers fire; the daemon owes nothing.
BridgeFairness == \A t \in Task : WF_bridgeVars(CallStep(t))

-----------------------------------------------------------------------------
(* Properties.                                                             *)

\* What a call reports about its request is true, although _call may send it
\* again: the daemon carries it out at most once, has done so when there is a
\* result, and never does when the call says that it is not connected.
OutcomeIsTrue ==
    \A t \in Task :
        /\ executed[t] <= 1
        /\ call_at[t] = "result" => executed[t] = 1
        /\ call_at[t] \in {"unreachable", "assertion", "reconnect"} => executed[t] = 0

\* A request is only ever answered on the connection it was sent on: as long
\* as a call waits, nobody closes or reuses its client without ending it.
WaitersKept ==
    \A t \in Task :
        /\ call_at[t] = "wait" => held[t] # NoClient /\ conn[held[t]] \in {"open", "eof"}
        /\ call_at[t] \in {"opening", "ping", "drop"} => held[t] # NoClient
        /\ call_at[t] = "opening" =>
               conn[held[t]] = "opening" /\ \A u \in Task \ {t} : held[u] = held[t] => call_at[u] = "drop"

\* Every call ends, with the daemon or without.
BridgeCallEnds == \A t \in Task : (call_at[t] # "new") ~> (call_at[t] \in Outcome)

\* "If connection cannot be established": a call that gives up has seen the
\* daemon down.
UnreachableMeansDown ==
    owner = "using" => \A t \in Task : call_at[t] = "unreachable" => crashes > 0
=============================================================================
