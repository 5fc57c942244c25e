--------------------------- MODULE TerminalSystem ---------------------------
(***************************************************************************)
(* A terminal client and a terminal server over the mesh: TerminalClient   *)
(* and TerminalService composed.  LXMF messages ("mail") are slow and may  *)
(* be lost; the packets of a link ("air") may be lost and arrive in any    *)
(* order; a link that one end has closed closes at the other end, by its   *)
(* last packet or because it goes stale.                                   *)
(*                                                                         *)
(* A session of the client uses one link, line[s].  The server's actions   *)
(* are those of TerminalService, joined with what they send and receive;   *)
(* it is not stopped, and gets no TERMINAL_SIGNAL, which no client sends.  *)
(* The clients are authorized and within the rate limit: a request is      *)
(* refused for the limits on sessions or because the fork fails.           *)
(***************************************************************************)
EXTENDS TerminalClient, Naturals, FiniteSets

CONSTANTS
    Identity, Link, owner, peer, Authorized, MaxPerIdentity, MaxTotal, RateLimit,
    NoSession, NoLink,
    line,     \* the link the client opens for session s
    Lossy     \* messages and packets may be lost

ASSUME SystemAssumption ==
    /\ line \in [SessionId -> Link]
    /\ \A s, r \in SessionId : line[s] = line[r] => s = r
    /\ \A s \in SessionId : peer[line[s]] = owner[s] /\ owner[s] \in Authorized
    /\ Cardinality(SessionId) <= RateLimit
    /\ Lossy \in BOOLEAN /\ NoSession \notin SessionId

VARIABLES
    phase, idleTask, sessions, keys, tracked, requests, child, pty, monitor, aged,
    link, assocPending, linkState, identified, verifying, terminal, at, cur, task,
    rest,
    mail,      \* LXMF messages on their way: <<kind, session>>
    air,       \* packets on their way: <<kind, session>>
    exitCode,  \* what the process of a session has exited with, by itself
    reported   \* the exit code _close_session was called with

Server == INSTANCE TerminalService

serverVars ==
    <<phase, idleTask, sessions, keys, tracked, requests, child, pty, monitor, aged,
      link, assocPending, linkState, identified, verifying, terminal, at, cur, task,
      rest>>
meshVars == <<mail, air, exitCode, reported>>
vars == <<clientVars, serverVars, meshVars>>

Init ==
    /\ ClientInit
    /\ Server!Init
    /\ mail = {}
    /\ air = {}
    /\ exitCode = [s \in SessionId |-> "none"]
    /\ reported = [s \in SessionId |-> "lost"]

Post(kind, s) == mail' = mail \union {<<kind, s>>}
Take(kind, s) == <<kind, s>> \in mail /\ mail' = mail \ {<<kind, s>>}
Receive(kind, s) == <<kind, s>> \in air /\ air' = air \ {<<kind, s>>}

OnlyClient == UNCHANGED <<serverVars, exitCode, reported>>
OnlyServer == UNCHANGED clientVars

-----------------------------------------------------------------------------
(* The client.                                                             *)

ClientAsks(s) ==
    /\ Connect(s)
    /\ Post("request", s)
    /\ UNCHANGED air
    /\ OnlyClient

ClientHears(s) ==
    /\ \/ Take("accept", s) /\ HandleTerminalAccept(s)
       \/ Take("reject", s) /\ HandleTerminalReject(s)
    /\ UNCHANGED air
    /\ OnlyClient

\* What connect() and the waiting for the end do by themselves.
ClientGoesOn(s) ==
    /\ \/ Refused(s) \/ AskTimesOut(s)
       \/ OpenLink(s)
       \/ Connected(s) \/ LinkTimesOut(s)
       \/ Returns(s)
    /\ UNCHANGED <<mail, air>>
    /\ OnlyClient

ClientFindsNoPath(s) ==
    /\ NoPath(s)
    /\ UNCHANGED <<mail, air>>
    /\ OnlyClient

\* The server has answered the link request; "up" completes its handshake,
\* "hello" is the client's version.
ClientLinkUp(s) ==
    /\ OnLinkEstablished(s)
    /\ air' = air \union {<<"up", s>>, <<"proof", s>>, <<"id", s>>, <<"hello", s>>}
    /\ UNCHANGED mail
    /\ OnlyClient

ClientVersion(s) ==
    /\ Receive("version", s)
    /\ HandleVersion(s)
    /\ UNCHANGED mail
    /\ OnlyClient

ClientExited(s) ==
    /\ \E c \in Code : Receive(c, s) /\ HandleExited(s, c)
    /\ UNCHANGED mail
    /\ OnlyClient

ClientLinkClosed(s) ==
    /\ OnLinkClosed(s)
    /\ UNCHANGED <<mail, air>>
    /\ OnlyClient

ClientCloses(s) ==
    /\ Close(s)
    /\ Post("close", s)
    /\ UNCHANGED air
    /\ OnlyClient

ClientTearsDown(s) ==
    /\ CloseTearsDown(s)
    /\ UNCHANGED <<mail, air>>
    /\ OnlyClient

\* The link is down at the server's end, or the path is gone.
ClientLinkStale(s) ==
    /\ linkAt[s] = "active"
    /\ Lossy \/ linkState[line[s]] \in {"closed", "gone"}
    /\ TearsDown(s)
    /\ UNCHANGED <<attempt, pending, answer, connected, exited, code, closing,
                   result, mail, air>>
    /\ OnlyClient

-----------------------------------------------------------------------------
(* The server.                                                             *)

ServerCounts(s) ==
    /\ Take("request", s)
    /\ Server!Count(s)
    /\ UNCHANGED <<air, exitCode, reported>>
    /\ OnlyServer

ServerRefuses ==
    /\ Server!RefuseRequest
    /\ Post("reject", cur["loop"])
    /\ UNCHANGED <<air, exitCode, reported>>
    /\ OnlyServer

\* _create_session returns, and the answer is sent.
ServerAccepts ==
    /\ Server!Track
    /\ Post("accept", cur["loop"])
    /\ UNCHANGED <<air, exitCode, reported>>
    /\ OnlyServer

ServerHandlesClose(s) ==
    /\ Take("close", s)
    /\ IF s \in sessions
       THEN /\ Server!HandleClose(s)
            /\ reported' = [reported EXCEPT ![s] = "zero"]
       ELSE UNCHANGED <<serverVars, reported>>
    /\ UNCHANGED <<air, exitCode>>
    /\ OnlyServer

\* The code of the process goes with the close only from here.
ServerReaps(s) ==
    /\ Server!MonitorReaps(s)
    /\ reported' = IF s \in sessions THEN [reported EXCEPT ![s] = exitCode[s]]
                   ELSE reported
    /\ UNCHANGED <<mail, air, exitCode>>
    /\ OnlyServer

\* _close_session sends the exit code on the link and closes it.
ServerReleases(t) ==
    LET s == cur[t] IN
    /\ Server!Release(t)
    /\ air' = IF link[s] \in Link /\ linkState[link[s]] = "active"
              THEN air \union {<<reported[s], s>>}
              ELSE air
    /\ UNCHANGED <<mail, exitCode, reported>>
    /\ OnlyServer

ServerLinkUp(s) ==
    /\ Receive("up", s)
    /\ Server!LinkEstablished(line[s])
    /\ UNCHANGED <<mail, exitCode, reported>>
    /\ OnlyServer

ServerIdentifies(s) ==
    /\ Receive("proof", s)
    /\ Server!Identify(line[s])
    /\ UNCHANGED <<mail, exitCode, reported>>
    /\ OnlyServer

ServerFirstPacket(s) ==
    /\ Receive("id", s)
    /\ Server!FirstPacket(line[s], s)
    /\ UNCHANGED <<mail, exitCode, reported>>
    /\ OnlyServer

\* The version instead of the session id: its first bytes name no session.
\* Later it is queued or read, and changes nothing here.
ServerHello(s) ==
    LET l == line[s] IN
    /\ Receive("hello", s)
    /\ linkState[l] = "active"
    /\ IF terminal[l] = NoSession /\ verifying[l] = NoSession
       THEN Server!PeerCloses(l)
       ELSE UNCHANGED serverVars
    /\ UNCHANGED <<mail, exitCode, reported>>
    /\ OnlyServer

\* Whether or not the session is still there.
ServerAssociates(s) ==
    /\ Server!Associate(line[s])
    /\ air' = IF linkState[line[s]] = "active" THEN air \union {<<"version", s>>} ELSE air
    /\ UNCHANGED <<mail, exitCode, reported>>
    /\ OnlyServer

ServerLinkStale(s) ==
    /\ Lossy \/ linkAt[s] \in {"closed", "gone"}
    /\ Server!PeerCloses(line[s])
    /\ UNCHANGED meshVars
    /\ OnlyServer

ProcessExits(s) ==
    /\ Server!ChildExits(s)
    /\ \E c \in {"zero", "other"} : exitCode' = [exitCode EXCEPT ![s] = c]
    /\ UNCHANGED <<mail, air, reported>>
    /\ OnlyServer

\* The other steps of the server neither send nor receive.
ServerLoop ==
    /\ \/ Server!AcceptRequest
       \/ Server!UntrackRemove("loop") \/ Server!UntrackCheck("loop")
       \/ Server!UntrackKeyError("loop")
       \/ Server!IdleScanDone \/ Server!IdleScanFails \/ Server!SweepDone
       \/ \E s \in SessionId : Server!CloseNext(s)
    /\ UNCHANGED meshVars
    /\ OnlyServer

ServerQuiet ==
    /\ \/ Server!Start \/ Server!IdleScan
       \/ \E i \in Identity : Server!Expire(i)
       \/ Server!UntrackRemove("rns") \/ Server!UntrackCheck("rns")
       \/ Server!UntrackKeyError("rns")
       \/ \E s \in SessionId :
             Server!MonitorFindsReaped(s) \/ Server!VerifyRefuses(line[s])
             \/ Server!OnLinkClosed(line[s])
    /\ UNCHANGED meshVars
    /\ OnlyServer

-----------------------------------------------------------------------------
MeshLoses ==
    /\ Lossy
    /\ \/ \E m \in mail : mail' = mail \ {m} /\ UNCHANGED air
       \/ \E p \in air : air' = air \ {p} /\ UNCHANGED mail
    /\ UNCHANGED <<clientVars, serverVars, exitCode, reported>>

-----------------------------------------------------------------------------
ClientStep(s) ==
    \/ ClientAsks(s) \/ ClientHears(s) \/ ClientGoesOn(s) \/ ClientFindsNoPath(s)
    \/ ClientLinkUp(s) \/ ClientVersion(s) \/ ClientExited(s) \/ ClientLinkClosed(s)
    \/ ClientCloses(s) \/ ClientTearsDown(s) \/ ClientLinkStale(s)

ServerSessionStep(s) ==
    \/ ServerCounts(s) \/ ServerHandlesClose(s) \/ ServerReaps(s)
    \/ ServerLinkUp(s) \/ ServerIdentifies(s) \/ ServerFirstPacket(s)
    \/ ServerHello(s) \/ ServerAssociates(s) \/ ServerLinkStale(s)
    \/ ProcessExits(s)

ServerLoopStep ==
    ServerLoop \/ ServerRefuses \/ ServerAccepts \/ ServerReleases("loop")

Next ==
    \/ \E s \in SessionId : ClientStep(s) \/ ServerSessionStep(s)
    \/ ServerLoopStep
    \/ ServerReleases("rns")
    \/ ServerQuiet
    \/ MeshLoses

Spec == Init /\ [][Next]_vars

\* Either end notices that the other has closed the link: by the packet that
\* says so, or because the link goes stale.
Notices(s) ==
    \/ linkState[line[s]] \in {"closed", "gone"} /\ ClientLinkStale(s)
    \/ linkAt[s] \in {"closed", "gone"} /\ ServerLinkStale(s)

ServerReturns ==
    ServerReleases("rns")
    \/ (at["rns"] # "idle" /\ ServerQuiet)

\* A session whose link is down has no activity: it reaches the idle timeout.
TimesOut(s) ==
    /\ ServerLoop
    /\ at["loop"] = "scan"
    /\ link[s] = line[s] /\ linkState[line[s]] # "active"
    /\ s \in rest'

Tick == ServerQuiet /\ at["loop"] = "idle" /\ at'["loop"] = "scan"

\* The client's tasks go on and its timers fire, a closed link is noticed, and
\* the idle check of the server runs.  Nothing makes the mesh deliver, the
\* process exit, the user close, the verification end.
FairSpec ==
    /\ Spec
    /\ \A s \in SessionId :
          /\ WF_vars(ClientGoesOn(s) \/ ClientLinkClosed(s) \/ ClientTearsDown(s))
          /\ WF_vars(Notices(s))
          /\ SF_vars(TimesOut(s))
    /\ WF_vars(ServerLoopStep)
    /\ WF_vars(ServerReturns)
    /\ SF_vars(Tick)

-----------------------------------------------------------------------------
(* Properties.                                                             *)

\* connect() succeeds only on a link that the server has verified and bound
\* to this session ("the version handshake completes before we consider the
\* connection ready", _on_link_established).
OpenIsBound ==
    \A s \in SessionId : s \in connected => terminal[line[s]] = s

\* The exit code run_interactive() returns is the remote process's: a lost
\* link or a timeout is never taken for success.
CodeIsTrue ==
    \A s \in SessionId :
        /\ result[s] = "zero" => exitCode[s] = "zero" \/ closing[s] # "no"
        /\ result[s] = "other" => exitCode[s] = "other"

\* connect() comes to an end whatever the mesh loses.
ConnectEnds ==
    \A s \in SessionId :
        attempt[s] \in {"asking", "linking"} ~> attempt[s] \notin {"asking", "linking"}

\* What the client has given up or finished does not stay at the server, even
\* if the request, the answer or the end got lost or came late.
NothingLeftBehind ==
    \A s \in SessionId :
        (attempt[s] \in {"refused", "failed", "over"} /\ s \in sessions)
            ~> (s \notin sessions \/ idleTask # "running")

\* A terminal whose link the server has closed comes back to its user.
LinkDownIsNoticed ==
    \A s \in SessionId :
        (attempt[s] = "open" /\ linkState[line[s]] \in {"closed", "gone"})
            ~> attempt[s] = "over"

\* "Returns when the session ends" (run_interactive).
EndIsNoticed ==
    \A s \in SessionId :
        (attempt[s] = "open" /\ s \notin sessions) ~> attempt[s] = "over"
=============================================================================
