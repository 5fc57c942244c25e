--------------------------- MODULE TerminalService ---------------------------
(***************************************************************************)
(* The session table of the terminal server (terminal/service.py): the     *)
(* sessions, the per-identity bookkeeping behind the limits, the links of  *)
(* the data plane, and the tasks that create and close sessions.           *)
(*                                                                         *)
(* Two threads change this state and take no lock: the asyncio event loop  *)
(* ("loop") runs the message handlers, the child monitors, the idle check  *)
(* and the identity verification; Reticulum's own thread ("rns") runs the  *)
(* link callbacks.  CPython switches threads at calls and at the end of a  *)
(* loop's body; an action is a stretch of one thread between two such      *)
(* points where the other thread's steps matter.  at[t] is where thread t  *)
(* stands, and loop tasks only switch when the loop is "idle" (an await).  *)
(*                                                                         *)
(* A request id is 16 random bytes drawn by one client, so the identity    *)
(* that asks for session s is the constant owner[s], and a link is opened  *)
(* by one client, peer[l].                                                 *)
(***************************************************************************)
EXTENDS Naturals, FiniteSets

CONSTANTS
    Identity,        \* RNS identities of clients
    SessionId,       \* request ids, one per session object
    Link,            \* link objects
    owner,           \* identity that requests session s
    peer,            \* identity at the far end of link l
    Authorized,      \* identities with a terminal capability (is_authorized)
    MaxPerIdentity,  \* max_sessions_per_identity
    MaxTotal,        \* max_total_sessions
    RateLimit,       \* session_request_rate_limit
    NoSession, NoLink

ASSUME TableAssumption ==
    /\ owner \in [SessionId -> Identity]
    /\ peer \in [Link -> Identity]
    /\ Authorized \subseteq Identity
    /\ MaxPerIdentity \in Nat /\ MaxTotal \in Nat /\ RateLimit \in Nat
    /\ NoSession \notin SessionId
    /\ NoLink \notin Link

Thread == {"loop", "rns"}

ClosePoints == {"remove", "check", "release"}

LoopPoints == {"idle", "limits", "track", "scan", "next"} \union ClosePoints

VARIABLES
    phase,         \* "new", "running" (handlers registered) or "stopped"
    idleTask,      \* _idle_check_loop: "none", "running" or "dead"
    sessions,      \* keys of self.sessions
    keys,          \* keys of _sessions_by_identity
    tracked,       \* its lists
    requests,      \* timestamps of the last minute in _request_timestamps
    child,         \* the session's process
    pty,           \* sessions whose master_fd is open
    monitor,       \* sessions whose _monitor_child task runs
    aged,          \* sessions already there at the last idle check
    link,          \* session.link
    assocPending,  \* sessions with _association_pending
    linkState,     \* "none", "active", "closed", "gone" (callback has run)
    identified,    \* links whose get_remote_identity() is available
    verifying,     \* session a link's _async_verify_and_associate is for
    terminal,      \* link._terminal_session
    at,            \* where each thread stands
    cur,           \* session the thread is creating or closing
    task,          \* what the loop returns to after a close
    rest           \* the loop's local list: sessions it has still to close,
                   \* keys it iterates over, sessions of an identity

tableVars == <<sessions, keys, tracked, requests>>
processVars == <<child, pty, monitor, aged>>
linkVars == <<link, assocPending, linkState, identified, verifying, terminal>>
threadVars == <<at, cur, task, rest>>
serviceVars == <<phase, idleTask>>
vars == <<serviceVars, tableVars, processVars, linkVars, threadVars>>

TypeOK ==
    /\ phase \in {"new", "running", "stopped"}
    /\ idleTask \in {"none", "running", "dead"}
    /\ sessions \subseteq SessionId
    /\ keys \subseteq Identity
    /\ tracked \in [Identity -> SUBSET SessionId]
    /\ requests \in [Identity -> 0..RateLimit]
    /\ child \in [SessionId -> {"none", "running", "exited", "reaped"}]
    /\ pty \subseteq SessionId
    /\ monitor \subseteq SessionId
    /\ aged \subseteq SessionId
    /\ link \in [SessionId -> Link \union {NoLink}]
    /\ assocPending \subseteq SessionId
    /\ linkState \in [Link -> {"none", "active", "closed", "gone"}]
    /\ identified \subseteq Link
    /\ verifying \in [Link -> SessionId \union {NoSession}]
    /\ terminal \in [Link -> SessionId \union {NoSession}]
    /\ at \in [Thread -> LoopPoints]
    /\ cur \in [Thread -> SessionId \union {NoSession}]
    /\ task \in {"none", "sweep", "stop"}
    /\ rest \subseteq SessionId

Init ==
    /\ phase = "new"
    /\ idleTask = "none"
    /\ sessions = {}
    /\ keys = {}
    /\ tracked = [i \in Identity |-> {}]
    /\ requests = [i \in Identity |-> 0]
    /\ child = [s \in SessionId |-> "none"]
    /\ pty = {}
    /\ monitor = {}
    /\ aged = {}
    /\ link = [s \in SessionId |-> NoLink]
    /\ assocPending = {}
    /\ linkState = [l \in Link |-> "none"]
    /\ identified = {}
    /\ verifying = [l \in Link |-> NoSession]
    /\ terminal = [l \in Link |-> NoSession]
    /\ at = [t \in Thread |-> "idle"]
    /\ cur = [t \in Thread |-> NoSession]
    /\ task = "none"
    /\ rest = {}

Idle(t) == at[t] = "idle"

Goto(t, point, s) ==
    /\ at' = [at EXCEPT ![t] = point]
    /\ cur' = [cur EXCEPT ![t] = s]

\* Where a thread goes on after _close_session: the loop may have more to
\* close on behalf of the idle check or of stop().
Return(t) == Goto(t, IF t = "loop" /\ task # "none" THEN "next" ELSE "idle", NoSession)

\* link.teardown(): a link already closed stays as it is.
Teardown(l) ==
    linkState' = IF l \in Link /\ linkState[l] = "active"
                 THEN [linkState EXCEPT ![l] = "closed"]
                 ELSE linkState

-----------------------------------------------------------------------------
(* _close_session.  The pop is atomic, so one caller goes on; what follows *)
(* interleaves with the other thread.                                      *)

\* Mutants of Pop: a second caller is not turned away, a lookup instead of pop.
PopNotExclusive(t, s) ==
    /\ sessions' = sessions \ {s}
    /\ IF s \in SessionId THEN Goto(t, "remove", s) ELSE Return(t)

PopKeeps(t, s) ==
    /\ sessions' = sessions
    /\ IF s \in sessions THEN Goto(t, "remove", s) ELSE Return(t)

\* self.sessions.pop(session_id, None): a no-op when the id is gone.
Pop(t, s) ==
    /\ sessions' = sessions \ {s}
    /\ IF s \in sessions THEN Goto(t, "remove", s) ELSE Return(t)

\* What a remove() of s does to the loop's comprehension over the same list:
\* s itself may be in the new list or not, and the iteration may skip the
\* element behind s.  (The list is a set here: any other may be behind s.)
ShrinksUnder(s) ==
    IF at["loop"] = "limits" /\ owner[cur["loop"]] = owner[s]
    THEN \E stale \in SUBSET {s}, skipped \in SUBSET rest :
            /\ Cardinality(skipped) <= 1
            /\ rest' = rest \ (stale \union skipped)
    ELSE rest' = rest

\* _untrack_session_for_identity up to the list's remove().
UntrackRemove(t) ==
    LET s == cur[t] IN
    LET i == owner[s] IN
    /\ at[t] = "remove"
    /\ tracked' = [tracked EXCEPT ![i] = @ \ {s}]
    /\ ShrinksUnder(s)
    /\ Goto(t, IF i \in keys THEN "check" ELSE "release", s)
    /\ UNCHANGED <<serviceVars, sessions, keys, requests, processVars, linkVars, task>>

\* "if not self._sessions_by_identity[source_identity]": an empty list goes,
\* and with it the timestamps of the identity.
UntrackCheck(t) ==
    LET i == owner[cur[t]] IN
    /\ at[t] = "check"
    /\ i \in keys
    /\ IF tracked[i] = {}
       THEN /\ keys' = keys \ {i}
            /\ requests' = [requests EXCEPT ![i] = 0]
       ELSE UNCHANGED <<keys, requests>>
    /\ Goto(t, "release", cur[t])
    /\ UNCHANGED <<serviceVars, sessions, tracked, processVars, linkVars, task, rest>>

\* The key has gone since the membership test: KeyError.  _close_session is
\* left before it touches the link, the PTY or the child; the exception ends
\* the idle check loop, stop() and the monitor task, and is swallowed by the
\* callers of the message handlers and of the link callbacks.
UntrackKeyError(t) ==
    /\ at[t] = "check"
    /\ owner[cur[t]] \notin keys
    /\ Goto(t, "idle", NoSession)
    /\ IF t = "loop"
       THEN /\ idleTask' = IF task = "sweep" THEN "dead" ELSE idleTask
            /\ task' = "none"
            /\ rest' = {}
       ELSE UNCHANGED <<idleTask, task, rest>>
    /\ UNCHANGED <<phase, tableVars, processVars, linkVars>>

\* The rest of _close_session: tear the link down, close the PTY, terminate
\* and reap the child.
Release(t) ==
    LET s == cur[t] IN
    /\ at[t] = "release"
    /\ Teardown(link[s])
    /\ pty' = pty \ {s}
    /\ child' = [child EXCEPT ![s] = "reaped"]
    /\ Return(t)
    /\ UNCHANGED <<serviceVars, tableVars, monitor, aged, link, assocPending,
                   identified, verifying, terminal, task, rest>>

CloseStep(t) ==
    \/ UntrackRemove(t)
    \/ UntrackCheck(t)
    \/ UntrackKeyError(t)
    \/ Release(t)

-----------------------------------------------------------------------------
(* The event loop: life cycle of the service and message handlers.         *)

Start ==
    /\ phase = "new"
    /\ Idle("loop")
    /\ phase' = "running"
    /\ idleTask' = "running"
    /\ UNCHANGED <<tableVars, processVars, linkVars, threadVars>>

\* stop(): cancel the idle check, then close the sessions one by one.
Stop ==
    /\ phase = "running"
    /\ Idle("loop")
    /\ idleTask' = "none"
    /\ task' = "stop"
    /\ rest' = sessions
    /\ Goto("loop", "next", NoSession)
    /\ UNCHANGED <<phase, tableVars, processVars, linkVars>>

StopDone ==
    /\ at["loop"] = "next"
    /\ task = "stop"
    /\ rest = {}
    /\ phase' = "stopped"
    /\ task' = "none"
    /\ Goto("loop", "idle", NoSession)
    /\ UNCHANGED <<idleTask, tableVars, processVars, linkVars, rest>>

\* Mutants of Count: the handlers stay registered after stop(), the rate limit
\* is not checked.
CountUnregistered(s) ==
    LET i == owner[s] IN
    /\ phase # "new"
    /\ Idle("loop")
    /\ i \in Authorized
    /\ child[s] = "none"
    /\ requests[i] < RateLimit
    /\ requests' = [requests EXCEPT ![i] = @ + 1]
    /\ rest' = tracked[i] \intersect sessions
    /\ Goto("loop", "limits", s)
    /\ UNCHANGED <<serviceVars, sessions, keys, tracked, processVars, linkVars, task>>

CountUnlimited(s) ==
    LET i == owner[s] IN
    /\ phase = "running"
    /\ Idle("loop")
    /\ i \in Authorized
    /\ child[s] = "none"
    /\ requests' = [requests EXCEPT ![i] = @ + 1]
    /\ rest' = tracked[i] \intersect sessions
    /\ Goto("loop", "limits", s)
    /\ UNCHANGED <<serviceVars, sessions, keys, tracked, processVars, linkVars, task>>

\* _check_rate_limits for a TERMINAL_REQUEST that passes the rate limit: the
\* timestamp is recorded, the identity's live sessions are collected.
Count(s) ==
    LET i == owner[s] IN
    /\ phase = "running"
    /\ Idle("loop")
    /\ i \in Authorized
    /\ child[s] = "none"
    /\ requests[i] < RateLimit
    /\ requests' = [requests EXCEPT ![i] = @ + 1]
    /\ rest' = tracked[i] \intersect sessions
    /\ Goto("loop", "limits", s)
    /\ UNCHANGED <<serviceVars, sessions, keys, tracked, processVars, linkVars, task>>

\* ... and become the identity's list again.
StoreList ==
    LET i == owner[cur["loop"]] IN
    /\ at["loop"] = "limits"
    /\ keys' = keys \union {i}
    /\ tracked' = [tracked EXCEPT ![i] = rest]
    /\ rest' = {}

\* Mutant of WithinLimits: > in place of >= in the total check.
WithinLimitsAndOne ==
    /\ Cardinality(rest) < MaxPerIdentity
    /\ Cardinality(sessions) <= MaxTotal

WithinLimits ==
    /\ Cardinality(rest) < MaxPerIdentity
    /\ Cardinality(sessions) < MaxTotal

\* Refused: over a session limit, or the dimensions, the terminal type, the
\* arguments or the command are invalid, or fork failed.
RefuseRequest ==
    /\ StoreList
    /\ Goto("loop", "idle", NoSession)
    /\ UNCHANGED <<serviceVars, sessions, requests, processVars, linkVars, task>>

\* _create_session up to the insertion in self.sessions.
AcceptRequest ==
    LET s == cur["loop"] IN
    /\ StoreList
    /\ WithinLimits
    /\ child' = [child EXCEPT ![s] = "running"]
    /\ pty' = pty \union {s}
    /\ sessions' = sessions \union {s}
    /\ Goto("loop", "track", s)
    /\ UNCHANGED <<serviceVars, requests, monitor, aged, linkVars, task>>

\* _track_session_for_identity, and the start of the monitor task.
Track ==
    LET s == cur["loop"] IN
    LET i == owner[s] IN
    /\ at["loop"] = "track"
    /\ keys' = keys \union {i}
    /\ tracked' = [tracked EXCEPT ![i] = @ \union {s}]
    /\ monitor' = monitor \union {s}
    /\ Goto("loop", "idle", NoSession)
    /\ UNCHANGED <<serviceVars, sessions, requests, child, pty, aged, linkVars,
                   task, rest>>

\* TERMINAL_CLOSE from the session's own client.
HandleClose(s) ==
    /\ phase = "running"
    /\ Idle("loop")
    /\ s \in sessions
    /\ Pop("loop", s)
    /\ UNCHANGED <<serviceVars, keys, tracked, requests, processVars, linkVars,
                   task, rest>>

\* TERMINAL_SIGNAL with an allowed signal that ends the process.
HandleSignal(s) ==
    /\ phase = "running"
    /\ Idle("loop")
    /\ s \in sessions
    /\ child[s] = "running"
    /\ child' = [child EXCEPT ![s] = "exited"]
    /\ UNCHANGED <<serviceVars, tableVars, pty, monitor, aged, linkVars,
                   threadVars>>

-----------------------------------------------------------------------------
(* The event loop: background tasks.                                       *)

\* Mutant of MonitorReaps: the child is reaped, its session stays.
MonitorOnlyReaps(s) ==
    /\ Idle("loop")
    /\ s \in monitor
    /\ child[s] = "exited"
    /\ child' = [child EXCEPT ![s] = "reaped"]
    /\ monitor' = monitor \ {s}
    /\ UNCHANGED <<serviceVars, tableVars, pty, aged, linkVars, threadVars>>

\* _monitor_child: waitpid returns the child, the session is closed.
MonitorReaps(s) ==
    /\ Idle("loop")
    /\ s \in monitor
    /\ child[s] = "exited"
    /\ child' = [child EXCEPT ![s] = "reaped"]
    /\ monitor' = monitor \ {s}
    /\ Pop("loop", s)
    /\ UNCHANGED <<serviceVars, keys, tracked, requests, pty, aged, linkVars,
                   task, rest>>

\* ... waitpid raises ChildProcessError: a close has reaped the child.
MonitorFindsReaped(s) ==
    /\ Idle("loop")
    /\ s \in monitor
    /\ child[s] = "reaped"
    /\ monitor' = monitor \ {s}
    /\ Pop("loop", s)
    /\ UNCHANGED <<serviceVars, keys, tracked, requests, child, pty, aged,
                   linkVars, task, rest>>

\* _check_idle_sessions starts to iterate over self.sessions.items().
IdleScan ==
    /\ Idle("loop")
    /\ idleTask = "running"
    /\ rest' = sessions
    /\ Goto("loop", "scan", NoSession)
    /\ UNCHANGED <<serviceVars, tableVars, processVars, linkVars, task>>

\* Mutant of IdleScanDone: no handoff timeout.
IdleScanNoHandoff ==
    /\ at["loop"] = "scan"
    /\ sessions = rest
    /\ rest' \in SUBSET sessions
    /\ aged' = sessions
    /\ task' = "sweep"
    /\ Goto("loop", "next", NoSession)
    /\ UNCHANGED <<serviceVars, tableVars, child, pty, monitor, linkVars>>

\* The iteration ends.  A session without link that the previous check has
\* seen is at least IDLE_CHECK_INTERVAL old, more than the handoff timeout;
\* any other session may or may not have reached one of its timeouts.
IdleScanDone ==
    /\ at["loop"] = "scan"
    /\ sessions = rest
    /\ \E quiet \in SUBSET sessions :
          rest' = quiet \union {s \in sessions \intersect aged : link[s] = NoLink}
    /\ aged' = sessions
    /\ task' = "sweep"
    /\ Goto("loop", "next", NoSession)
    /\ UNCHANGED <<serviceVars, tableVars, child, pty, monitor, linkVars>>

\* The other thread removed a session during the iteration: RuntimeError,
\* which ends _idle_check_loop.
IdleScanFails ==
    /\ at["loop"] = "scan"
    /\ sessions # rest
    /\ idleTask' = "dead"
    /\ rest' = {}
    /\ Goto("loop", "idle", NoSession)
    /\ UNCHANGED <<phase, tableVars, processVars, linkVars, task>>

\* Close the next session of the idle check or of stop().
CloseNext(s) ==
    /\ at["loop"] = "next"
    /\ s \in rest
    /\ rest' = rest \ {s}
    /\ Pop("loop", s)
    /\ UNCHANGED <<serviceVars, keys, tracked, requests, processVars, linkVars,
                   task>>

SweepDone ==
    /\ at["loop"] = "next"
    /\ task = "sweep"
    /\ rest = {}
    /\ task' = "none"
    /\ Goto("loop", "idle", NoSession)
    /\ UNCHANGED <<serviceVars, tableVars, processVars, linkVars, rest>>

\* Mutant of VerifyRefuses: the session is left locked.
VerifyRefusesLocked(l) ==
    LET s == verifying[l] IN
    /\ Idle("loop")
    /\ s # NoSession
    /\ \/ l \notin identified
       \/ peer[l] # owner[s]
       \/ link[s] # NoLink
    /\ verifying' = [verifying EXCEPT ![l] = NoSession]
    /\ Teardown(l)
    /\ UNCHANGED <<serviceVars, tableVars, processVars, link, assocPending,
                   identified, terminal, threadVars>>

\* _async_verify_and_associate refuses: no identity after all the retries,
\* another identity than the session's, or the session has a link already.
VerifyRefuses(l) ==
    LET s == verifying[l] IN
    /\ Idle("loop")
    /\ s # NoSession
    /\ \/ l \notin identified
       \/ peer[l] # owner[s]
       \/ link[s] # NoLink
    /\ assocPending' = assocPending \ {s}
    /\ verifying' = [verifying EXCEPT ![l] = NoSession]
    /\ Teardown(l)
    /\ UNCHANGED <<serviceVars, tableVars, processVars, link, identified,
                   terminal, threadVars>>

\* Mutants of Associate: no comparison of identities, no check for a link.
AssociateAnyPeer(l) ==
    LET s == verifying[l] IN
    /\ Idle("loop")
    /\ s # NoSession
    /\ l \in identified
    /\ link[s] = NoLink
    /\ terminal' = [terminal EXCEPT ![l] = s]
    /\ link' = [link EXCEPT ![s] = l]
    /\ assocPending' = assocPending \ {s}
    /\ verifying' = [verifying EXCEPT ![l] = NoSession]
    /\ UNCHANGED <<serviceVars, tableVars, processVars, linkState, identified,
                   threadVars>>

AssociateAgain(l) ==
    LET s == verifying[l] IN
    /\ Idle("loop")
    /\ s # NoSession
    /\ l \in identified
    /\ peer[l] = owner[s]
    /\ terminal' = [terminal EXCEPT ![l] = s]
    /\ link' = [link EXCEPT ![s] = l]
    /\ assocPending' = assocPending \ {s}
    /\ verifying' = [verifying EXCEPT ![l] = NoSession]
    /\ UNCHANGED <<serviceVars, tableVars, processVars, linkState, identified,
                   threadVars>>

\* ... or binds link and session, whatever has become of them meanwhile.
Associate(l) ==
    LET s == verifying[l] IN
    /\ Idle("loop")
    /\ s # NoSession
    /\ l \in identified
    /\ peer[l] = owner[s]
    /\ link[s] = NoLink
    /\ terminal' = [terminal EXCEPT ![l] = s]
    /\ link' = [link EXCEPT ![s] = l]
    /\ assocPending' = assocPending \ {s}
    /\ verifying' = [verifying EXCEPT ![l] = NoSession]
    /\ UNCHANGED <<serviceVars, tableVars, processVars, linkState, identified,
                   threadVars>>

-----------------------------------------------------------------------------
(* Reticulum's thread: link callbacks.                                     *)

LinkEstablished(l) ==
    /\ Idle("rns")
    /\ phase # "new"
    /\ linkState[l] = "none"
    /\ linkState' = [linkState EXCEPT ![l] = "active"]
    /\ UNCHANGED <<serviceVars, tableVars, processVars, link, assocPending,
                   identified, verifying, terminal, threadVars>>

\* Mutant of FirstPacket: _association_pending is not looked at.
FirstPacketUnlocked(l, s) ==
    /\ Idle("rns")
    /\ linkState[l] = "active"
    /\ terminal[l] = NoSession
    /\ verifying[l] = NoSession
    /\ IF s \in sessions
       THEN /\ assocPending' = assocPending \union {s}
            /\ verifying' = [verifying EXCEPT ![l] = s]
            /\ UNCHANGED linkState
       ELSE /\ Teardown(l)
            /\ UNCHANGED <<assocPending, verifying>>
    /\ UNCHANGED <<serviceVars, tableVars, processVars, link, identified,
                   terminal, threadVars>>

\* The first packet names a session; packets of a link that is being verified
\* are queued and those of an associated link are data.
FirstPacket(l, s) ==
    /\ Idle("rns")
    /\ linkState[l] = "active"
    /\ terminal[l] = NoSession
    /\ verifying[l] = NoSession
    /\ IF s \in sessions /\ s \notin assocPending
       THEN /\ assocPending' = assocPending \union {s}
            /\ verifying' = [verifying EXCEPT ![l] = s]
            /\ UNCHANGED linkState
       ELSE /\ Teardown(l)
            /\ UNCHANGED <<assocPending, verifying>>
    /\ UNCHANGED <<serviceVars, tableVars, processVars, link, identified,
                   terminal, threadVars>>

\* Mutant of OnLinkClosed: the session is not closed.
OnLinkClosedForgets(l) ==
    /\ Idle("rns")
    /\ linkState[l] = "closed"
    /\ linkState' = [linkState EXCEPT ![l] = "gone"]
    /\ UNCHANGED <<serviceVars, tableVars, processVars, link, assocPending,
                   identified, verifying, terminal, threadVars>>

\* _on_link_closed closes the session of the link, if it has one.
OnLinkClosed(l) ==
    /\ Idle("rns")
    /\ linkState[l] = "closed"
    /\ linkState' = [linkState EXCEPT ![l] = "gone"]
    /\ Pop("rns", terminal[l])
    /\ UNCHANGED <<serviceVars, keys, tracked, requests, processVars, link,
                   assocPending, identified, verifying, terminal, task, rest>>

-----------------------------------------------------------------------------
(* What happens outside the program.                                       *)

ChildExits(s) ==
    /\ child[s] = "running"
    /\ child' = [child EXCEPT ![s] = "exited"]
    /\ UNCHANGED <<serviceVars, tableVars, pty, monitor, aged, linkVars,
                   threadVars>>

\* The peer's identity proof arrives.
Identify(l) ==
    /\ linkState[l] = "active"
    /\ identified' = identified \union {l}
    /\ UNCHANGED <<serviceVars, tableVars, processVars, link, assocPending,
                   linkState, verifying, terminal, threadVars>>

\* The peer tears the link down, or it goes stale.
PeerCloses(l) ==
    /\ linkState[l] = "active"
    /\ Teardown(l)
    /\ UNCHANGED <<serviceVars, tableVars, processVars, link, assocPending,
                   identified, verifying, terminal, threadVars>>

\* The oldest timestamp of an identity leaves the one-minute window.
Expire(i) ==
    /\ requests[i] > 0
    /\ requests' = [requests EXCEPT ![i] = @ - 1]
    /\ UNCHANGED <<serviceVars, sessions, keys, tracked, processVars, linkVars,
                   threadVars>>

-----------------------------------------------------------------------------
SessionHandler(s) ==
    \/ Count(s)
    \/ HandleClose(s)
    \/ HandleSignal(s)

Monitor(s) == MonitorReaps(s) \/ MonitorFindsReaped(s)

Verify(l) == VerifyRefuses(l) \/ Associate(l)

LoopStep ==
    \/ CloseStep("loop")
    \/ RefuseRequest
    \/ AcceptRequest
    \/ Track
    \/ IdleScanDone
    \/ IdleScanFails
    \/ \E s \in SessionId : CloseNext(s)
    \/ SweepDone
    \/ StopDone

Next ==
    \/ Start
    \/ Stop
    \/ LoopStep
    \/ IdleScan
    \/ CloseStep("rns")
    \/ \E s \in SessionId : SessionHandler(s) \/ Monitor(s) \/ ChildExits(s)
    \/ \E i \in Identity : Expire(i)
    \/ \E l \in Link :
          \/ Verify(l)
          \/ LinkEstablished(l)
          \/ \E s \in SessionId : FirstPacket(l, s)
          \/ OnLinkClosed(l)
          \/ Identify(l)
          \/ PeerCloses(l)

Spec == Init /\ [][Next]_vars

\* A thread that is running goes on; asyncio runs every ready task in turn,
\* however often the others run too, and Reticulum reports a closed link.
Fairness ==
    /\ WF_vars(LoopStep)
    /\ WF_vars(CloseStep("rns"))
    /\ SF_vars(IdleScan)
    /\ \A s \in SessionId : SF_vars(Monitor(s))
    /\ \A l \in Link : SF_vars(Verify(l)) /\ SF_vars(OnLinkClosed(l))

FairSpec == Spec /\ Fairness

-----------------------------------------------------------------------------
(* Properties.                                                             *)

Closing(t, s) == at[t] \in ClosePoints /\ cur[t] = s

\* The server never runs more sessions than max_total_sessions, however
\* creations on the loop and removals on both threads interleave.
TotalLimit == Cardinality(sessions) <= MaxTotal

\* session.link and link._terminal_session name each other, and the far end
\* of a session's link is the client that asked for the session.
LinkBinding ==
    /\ \A s \in SessionId :
          link[s] # NoLink => terminal[link[s]] = s /\ peer[link[s]] = owner[s]
    /\ \A l \in Link : terminal[l] # NoSession => link[terminal[l]] = l

\* A session keeps the link it got: no second link ever takes its place.
LinkNeverReplaced ==
    [][\A s \in SessionId : link[s] # NoLink => link'[s] = link[s]]_vars

\* _association_pending admits one verification per session at a time, and is
\* set exactly while that verification runs: a session is never locked for
\* good by a link that failed.
OneVerifier ==
    /\ \A l, m \in Link :
          verifying[l] # NoSession /\ verifying[l] = verifying[m] => l = m
    /\ assocPending = {verifying[l] : l \in Link} \ {NoSession}

\* The two threads never release the same session: its PTY is closed and its
\* process killed once, by the thread whose pop found the session.
OneCloser ==
    \A s \in SessionId : ~(Closing("loop", s) /\ Closing("rns", s))

\* A session in the table can be used: whoever finds it there finds its PTY
\* open and its process not yet reaped, so that neither its descriptor nor
\* its pid can belong to something else.
ListedIsUsable ==
    \A s \in sessions : s \in pty /\ child[s] \in {"running", "exited"}

\* After stop() no session is left, and none appears.
StoppedIsEmpty == phase = "stopped" => sessions = {}

\* No PTY outlives its session, but for the moment it takes to close it.
NoOrphanedPty ==
    \A s \in pty : s \in sessions \/ \E t \in Thread : Closing(t, s)

\* The idle check runs until the service is stopped.
IdleCheckSurvives == phase = "running" => idleTask # "dead"

\* A session whose client never sets up the link does not stay: it gets a
\* link, or it is closed, as long as the idle check runs.
HandoffEnds ==
    \A s \in SessionId :
        (s \in sessions /\ link[s] = NoLink)
            ~> (s \notin sessions \/ link[s] # NoLink \/ idleTask # "running")

\* When the process of a monitored session ends, the session is closed.
ExitCloses ==
    \A s \in SessionId :
        (s \in sessions /\ s \in monitor /\ child[s] = "exited") ~> (s \notin sessions /\ child[s] = "reaped")

\* A link that goes down takes its session with it.
LinkDownCloses ==
    \A l \in Link :
        (linkState[l] = "closed" /\ terminal[l] \in sessions)
            ~> (terminal[l] \notin sessions)

\* A session under verification is unlocked again.
VerificationEnds ==
    \A s \in SessionId : (s \in assocPending) ~> (s \notin assocPending)

\* What the threads hold on to, which the invariants above rest on: a session
\* being closed has left the table, whatever stop() has still to close is in
\* its list, a link is verified only while it has no session, and only the
\* loop creates, scans and sweeps.
ThreadInv ==
    /\ at["rns"] \in {"idle"} \union ClosePoints
    /\ \A t \in Thread :
          at[t] \in ClosePoints =>
              /\ cur[t] \in SessionId \ sessions
              /\ child[cur[t]] # "none"
    /\ at["loop"] = "limits" =>
          /\ phase = "running"
          /\ cur["loop"] \in SessionId
          /\ child[cur["loop"]] = "none"
    /\ at["loop"] = "track" => cur["loop"] \in SessionId
    /\ at["loop"] \in {"idle", "limits", "track", "scan"} => task = "none"
    /\ task = "stop" => phase = "running" /\ sessions \subseteq rest

VerifyInv ==
    \A l \in Link : verifying[l] # NoSession => terminal[l] = NoSession

\* A request id nobody has asked for yet is not locked or bound.
FreshInv ==
    \A s \in SessionId :
        child[s] = "none" => link[s] = NoLink /\ s \notin assocPending

\* The inductive invariant behind the safety properties of the session table.
TableInv ==
    /\ TypeOK
    /\ ThreadInv
    /\ VerifyInv
    /\ FreshInv
    /\ LinkBinding
    /\ OneVerifier
    /\ OneCloser
    /\ ListedIsUsable
    /\ StoppedIsEmpty

Pool ==
    INSTANCE SessionPool WITH
        open <- sessions,
        opened <- {s \in SessionId : child[s] # "none"},
        carrier <- [s \in SessionId |-> IF s \in sessions THEN link[s] ELSE NoLink]

\* The two threads together implement the pool of sessions.
ImplementsPool == Pool!Spec
=============================================================================
