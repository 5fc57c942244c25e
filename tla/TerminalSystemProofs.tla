------------------------ MODULE TerminalSystemProofs ------------------------
(***************************************************************************)
(* What a terminal's client is told is true, for any number of sessions,   *)
(* whatever the mesh loses and delays: the invariants of TerminalSystem.   *)
(***************************************************************************)
EXTENDS MCTerminalSystem, TLAPS

-----------------------------------------------------------------------------
(* The inductive invariant.                                                *)

\* The parts of the server's state that the properties depend on.
EndsTypeOK ==
    /\ child \in [SessionId -> {"none", "running", "exited", "reaped"}]
    /\ verifying \in [Link -> SessionId \union {NoSession}]
    /\ terminal \in [Link -> SessionId \union {NoSession}]
    /\ at \in [Server!Thread -> Server!LoopPoints]
    /\ cur \in [Server!Thread -> SessionId \union {NoSession}]
    /\ exitCode \in [SessionId -> {"none", "zero", "other"}]
    /\ reported \in [SessionId -> Code \union {"none"}]

\* A session's link is verified for that session, and only while it has none; the version
\* is sent on it once it has.
BoundInv ==
    \A s \in SessionId :
        /\ verifying[line[s]] \in {NoSession, s}
        /\ verifying[line[s]] = s => terminal[line[s]] = NoSession
        /\ <<"version", s>> \in air \/ s \in connected => terminal[line[s]] = s

\* Only a process that has ended has an exit code, and one that is about to be started not yet.
ProcessInv ==
    /\ \A s \in SessionId : child[s] \in {"none", "running"} => exitCode[s] = "none"
    /\ at["loop"] = "limits" =>
          /\ cur["loop"] \in SessionId
          /\ child[cur["loop"]] # "running"
          /\ exitCode[cur["loop"]] = "none"

\* c may be told of session s.
Holds(s, c) ==
    /\ c = "zero" => exitCode[s] = "zero" \/ closing[s] # "no"
    /\ c = "other" => exitCode[s] = "other"

\* Whatever is told on the way from the process to the caller is true: what the server says
\* and the mesh carries, and what the client takes from it.
ToldInv ==
    \A s \in SessionId :
        /\ <<"close", s>> \in mail => closing[s] # "no"
        /\ Holds(s, reported[s])
        /\ \A c \in Code : <<c, s>> \in air => Holds(s, c)

HeardInv ==
    \A s \in SessionId :
        /\ Holds(s, code[s])
        /\ s \in exited /\ code[s] = "none" => closing[s] # "no"
        /\ Holds(s, result[s])

CodeInv == ToldInv /\ HeardInv

SystemInv == ClientTypeOK /\ EndsTypeOK /\ BoundInv /\ ProcessInv /\ CodeInv

LEMMA SystemStarts == Init => SystemInv
<1> SUFFICES ASSUME Init PROVE SystemInv
  OBVIOUS
<1> USE SystemAssumption DEF Init, ClientInit, Server!Init
<1>1. ClientTypeOK
  BY DEF ClientTypeOK, Code
<1>2. EndsTypeOK
  BY DEF EndsTypeOK, Code, Server!Thread, Server!LoopPoints
<1>3. BoundInv
  BY DEF BoundInv
<1>4. ProcessInv
  BY DEF ProcessInv, Server!Thread
<1>5. CodeInv
  BY DEF CodeInv, ToldInv, HeardInv, Holds, Code
<1> QED
  BY <1>1, <1>2, <1>3, <1>4, <1>5 DEF SystemInv

-----------------------------------------------------------------------------
(* What a step leaves alone.                                               *)

\* A step of the client leaves the server's state as it is.
LEMMA ServerKept ==
  ASSUME EndsTypeOK, ProcessInv, UNCHANGED <<serverVars, exitCode, reported>>
  PROVE  EndsTypeOK' /\ ProcessInv'
<1>1. EndsTypeOK'
  BY DEF EndsTypeOK, serverVars
<1>2. ProcessInv'
  BY DEF ProcessInv, serverVars
<1> QED
  BY <1>1, <1>2

\* What is on its way may get lost.
LEMMA BoundKept ==
  ASSUME BoundInv, UNCHANGED <<verifying, terminal, connected>>,
         \A s \in SessionId : <<"version", s>> \in air' => <<"version", s>> \in air
  PROVE  BoundInv'
  BY DEF BoundInv

LEMMA CodeKept ==
  ASSUME CodeInv, UNCHANGED <<exitCode, reported, code, exited, closing, result>>,
         \A s \in SessionId : <<"close", s>> \in mail' => <<"close", s>> \in mail,
         \A s \in SessionId, c \in Code : <<c, s>> \in air' => <<c, s>> \in air
  PROVE  CodeInv'
  BY DEF CodeInv, ToldInv, HeardInv, Holds

LEMMA ProcessKept ==
  ASSUME ProcessInv, UNCHANGED <<child, exitCode>>,
         at'["loop"] = "limits" => at["loop"] = "limits" /\ cur'["loop"] = cur["loop"]
  PROVE  ProcessInv'
  BY DEF ProcessInv

-----------------------------------------------------------------------------
(* The steps of the client.                                                *)

\* The client's own state keeps its types.
LEMMA ClientTypesStep ==
  ASSUME ClientTypeOK, NEW s \in SessionId, ClientStep(s)
  PROVE  ClientTypeOK'
<1> USE DEF ClientTypeOK, Becomes, Ends, TearsDown
<1>1. CASE ClientAsks(s)
  BY <1>1 DEF ClientAsks, Connect
<1>2. CASE ClientHears(s)
  BY <1>2 DEF ClientHears, HandleTerminalAccept, HandleTerminalReject, Answered
<1>3. CASE ClientGoesOn(s)
  <2>1. CASE Refused(s) \/ AskTimesOut(s) \/ OpenLink(s) \/ Connected(s) \/ LinkTimesOut(s)
    BY <2>1 DEF Refused, AskTimesOut, OpenLink, Connected, LinkTimesOut
  <2>2. CASE Returns(s)
    BY <2>2 DEF Returns, Code
  <2> QED
    BY <1>3, <2>1, <2>2 DEF ClientGoesOn
<1>4. CASE ClientFindsNoPath(s)
  BY <1>4 DEF ClientFindsNoPath, NoPath
<1>5. CASE ClientLinkUp(s) \/ ClientLinkStale(s)
  BY <1>5 DEF ClientLinkUp, ClientLinkStale, OnLinkEstablished
<1>6. CASE ClientVersion(s) \/ ClientExited(s)
  BY <1>6 DEF ClientVersion, HandleVersion, ClientExited, HandleExited
<1>7. CASE ClientLinkClosed(s)
  BY <1>7 DEF ClientLinkClosed, OnLinkClosed, Code
<1>8. CASE ClientCloses(s) \/ ClientTearsDown(s)
  BY <1>8 DEF ClientCloses, Close, ClientTearsDown, CloseTearsDown
<1> QED
  BY <1>1, <1>2, <1>3, <1>4, <1>5, <1>6, <1>7, <1>8 DEF ClientStep

\* It is connected by the version only, which the server sends on a bound link.
LEMMA ClientBoundStep ==
  ASSUME BoundInv, NEW s \in SessionId, ClientStep(s)
  PROVE  BoundInv'
<1>1. UNCHANGED <<verifying, terminal>>
  BY DEF ClientStep, ClientAsks, ClientHears, ClientGoesOn, ClientFindsNoPath, ClientLinkUp,
         ClientVersion, ClientExited, ClientLinkClosed, ClientCloses, ClientTearsDown,
         ClientLinkStale, OnlyClient, serverVars
<1>2. CASE ClientVersion(s)
  <2>1. <<"version", s>> \in air /\ connected' = connected \union {s} /\ air' \subseteq air
    BY <1>2 DEF ClientVersion, Receive, HandleVersion
  <2> QED
    BY <1>1, <2>1 DEF BoundInv
<1>3. CASE ~ClientVersion(s)
  <2>1. /\ UNCHANGED connected
        /\ \A r \in SessionId : <<"version", r>> \in air' => <<"version", r>> \in air
    BY <1>3 DEF ClientStep, ClientAsks, ClientHears, ClientGoesOn, ClientFindsNoPath,
       ClientLinkUp, ClientExited, ClientLinkClosed, ClientCloses, ClientTearsDown,
       ClientLinkStale, Connect, HandleTerminalAccept, HandleTerminalReject, Answered, Refused,
       AskTimesOut, OpenLink, Connected, LinkTimesOut, Returns, NoPath, OnLinkEstablished,
       HandleExited, OnLinkClosed, Close, CloseTearsDown, Receive
  <2> QED
    BY <1>1, <2>1, BoundKept
<1> QED
  BY <1>2, <1>3

\* What it concludes follows from what it was told, from the link having gone, or from its user
\* having closed the terminal.
LEMMA ClientCodeStep ==
  ASSUME ClientTypeOK, CodeInv, NEW s \in SessionId, ClientStep(s)
  PROVE  CodeInv'
<1> USE DEF Code
<1>0. UNCHANGED <<exitCode, reported>>
  BY DEF ClientStep, ClientAsks, ClientHears, ClientGoesOn, ClientFindsNoPath, ClientLinkUp,
         ClientVersion, ClientExited, ClientLinkClosed, ClientCloses, ClientTearsDown,
         ClientLinkStale, OnlyClient
<1>1. CASE \/ ClientAsks(s) \/ ClientHears(s) \/ ClientFindsNoPath(s) \/ ClientLinkUp(s)
           \/ ClientVersion(s) \/ ClientLinkStale(s)
  <2>1. UNCHANGED <<code, exited, closing, result>>
    BY <1>1 DEF ClientAsks, ClientHears, ClientFindsNoPath, ClientLinkUp, ClientVersion,
       ClientLinkStale, Connect, HandleTerminalAccept, HandleTerminalReject, Answered, NoPath,
       OnLinkEstablished, HandleVersion
  <2>2. /\ \A r \in SessionId : <<"close", r>> \in mail' => <<"close", r>> \in mail
        /\ \A r \in SessionId, c \in Code : <<c, r>> \in air' => <<c, r>> \in air
    BY <1>1 DEF ClientAsks, ClientHears, ClientFindsNoPath, ClientLinkUp, ClientVersion,
       ClientLinkStale, Post, Take, Receive
  <2> QED
    BY <1>0, <2>1, <2>2, CodeKept
<1>2. CASE ClientGoesOn(s)
  <2>0. UNCHANGED <<mail, air, code, exited, closing>>
    BY <1>2 DEF ClientGoesOn, Refused, AskTimesOut, OpenLink, Connected, LinkTimesOut, Returns
  <2>1. CASE UNCHANGED result
    BY <1>0, <2>0, <2>1, CodeKept
  <2>2. CASE Returns(s)
    <3>1. /\ s \in exited
          /\ result' = [result EXCEPT ![s] = IF code[s] = "none" THEN "zero" ELSE code[s]]
      BY <2>2 DEF Returns
    <3>2. \A r \in SessionId : Holds(r, result'[r])
      BY <3>1 DEF CodeInv, ToldInv, HeardInv, Holds, ClientTypeOK
    <3> QED
      BY <1>0, <2>0, <3>2 DEF CodeInv, ToldInv, HeardInv, Holds
  <2> QED
    BY <1>2, <2>1, <2>2 DEF ClientGoesOn, Refused, AskTimesOut, OpenLink, Connected, LinkTimesOut
<1>3. CASE ClientExited(s)
  <2> PICK c \in Code : Receive(c, s) /\ HandleExited(s, c)
    BY <1>3 DEF ClientExited
  <2>1. /\ <<c, s>> \in air /\ air' \subseteq air
        /\ code' = [code EXCEPT ![s] = c] /\ exited' = exited \union {s}
        /\ UNCHANGED <<mail, closing, result>>
    BY <1>3 DEF ClientExited, Receive, HandleExited
  <2>2. Holds(s, c) /\ c # "none"
    BY <2>1 DEF CodeInv, ToldInv
  <2>3. \A r \in SessionId : code'[r] = IF r = s THEN c ELSE code[r]
    BY <2>1 DEF ClientTypeOK
  <2>4. ToldInv'
    BY <1>0, <2>1 DEF CodeInv, ToldInv, Holds
  <2>5. HeardInv'
    BY <1>0, <2>1, <2>2, <2>3 DEF CodeInv, HeardInv, Holds
  <2> QED
    BY <2>4, <2>5 DEF CodeInv
<1>4. CASE ClientLinkClosed(s)
  <2>1. /\ code' = [code EXCEPT ![s] = IF @ = "none" THEN "lost" ELSE @]
        /\ exited' = exited \union {s} /\ UNCHANGED <<mail, air, closing, result>>
    BY <1>4 DEF ClientLinkClosed, OnLinkClosed
  <2>2. \A r \in SessionId : code'[r] = IF r = s /\ code[s] = "none" THEN "lost" ELSE code[r]
    BY <2>1 DEF ClientTypeOK
  <2>3. ToldInv'
    BY <1>0, <2>1 DEF CodeInv, ToldInv, Holds
  <2>4. HeardInv'
    BY <1>0, <2>1, <2>2 DEF CodeInv, HeardInv, Holds
  <2> QED
    BY <2>3, <2>4 DEF CodeInv
<1>5. CASE ClientCloses(s)
  <2>1. /\ closing' = [closing EXCEPT ![s] = "sent"] /\ mail' = mail \union {<<"close", s>>}
        /\ UNCHANGED <<air, code, exited, result>>
    BY <1>5 DEF ClientCloses, Close, Post
  <2>2. \A r \in SessionId : closing'[r] = IF r = s THEN "sent" ELSE closing[r]
    BY <2>1 DEF ClientTypeOK
  <2>3. ToldInv'
    <3>1. \A r \in SessionId : \A c : Holds(r, c) => Holds(r, c)'
      BY <1>0, <2>1, <2>2 DEF Holds
    <3>2. \A r \in SessionId : <<"close", r>> \in mail' => closing'[r] # "no"
      <4>1. \A r \in SessionId : <<"close", r>> \in mail => closing[r] # "no"
        BY DEF CodeInv, ToldInv
      <4>2. \A r \in SessionId : r # s /\ <<"close", r>> \in mail' => <<"close", r>> \in mail
        BY <2>1
      <4> QED
        BY <2>2, <4>1, <4>2
    <3> QED
      BY <1>0, <2>1, <3>1, <3>2 DEF CodeInv, ToldInv
  <2>4. HeardInv'
    BY <1>0, <2>1, <2>2 DEF CodeInv, HeardInv, Holds
  <2> QED
    BY <2>3, <2>4 DEF CodeInv
<1>6. CASE ClientTearsDown(s)
  <2>1. /\ closing' = [closing EXCEPT ![s] = "done"] /\ exited' = exited \union {s}
        /\ UNCHANGED <<mail, air, code, result>>
    BY <1>6 DEF ClientTearsDown, CloseTearsDown
  <2>2. \A r \in SessionId : closing'[r] = IF r = s THEN "done" ELSE closing[r]
    BY <2>1 DEF ClientTypeOK
  <2>3. ToldInv'
    <3>1. \A r \in SessionId : \A c : Holds(r, c) => Holds(r, c)'
      BY <1>0, <2>1, <2>2 DEF Holds
    <3>2. \A r \in SessionId : <<"close", r>> \in mail' => closing'[r] # "no"
      <4>1. \A r \in SessionId : <<"close", r>> \in mail => closing[r] # "no"
        BY DEF CodeInv, ToldInv
      <4>2. \A r \in SessionId : r # s /\ <<"close", r>> \in mail' => <<"close", r>> \in mail
        BY <2>1
      <4> QED
        BY <2>2, <4>1, <4>2
    <3> QED
      BY <1>0, <2>1, <3>1, <3>2 DEF CodeInv, ToldInv
  <2>4. HeardInv'
    BY <1>0, <2>1, <2>2 DEF CodeInv, HeardInv, Holds
  <2> QED
    BY <2>3, <2>4 DEF CodeInv
<1> QED
  BY <1>1, <1>2, <1>3, <1>4, <1>5, <1>6 DEF ClientStep

-----------------------------------------------------------------------------
(* The steps of the server: its threads.                                   *)

\* The loop comes to the limits of a session only by counting its request.
ThreadsMove ==
    /\ at' \in [Server!Thread -> Server!LoopPoints]
    /\ cur' \in [Server!Thread -> SessionId \union {NoSession}]
    /\ at'["loop"] = "limits" => at["loop"] = "limits" /\ cur'["loop"] = cur["loop"]

LEMMA StaysThere == EndsTypeOK /\ UNCHANGED <<at, cur>> => ThreadsMove
  BY DEF EndsTypeOK, ThreadsMove

LEMMA GoesTo ==
  ASSUME EndsTypeOK, NEW t \in Server!Thread, NEW p \in Server!LoopPoints \ {"limits"},
         NEW s \in SessionId \union {NoSession}, Server!Goto(t, p, s)
  PROVE  ThreadsMove
<1>1. at' = [at EXCEPT ![t] = p] /\ cur' = [cur EXCEPT ![t] = s]
  BY DEF Server!Goto
<1>2. /\ at' \in [Server!Thread -> Server!LoopPoints]
      /\ cur' \in [Server!Thread -> SessionId \union {NoSession}]
  BY <1>1 DEF EndsTypeOK
<1>3. at'["loop"] = "limits" => at["loop"] = "limits" /\ cur'["loop"] = cur["loop"]
  BY <1>1 DEF EndsTypeOK, Server!Thread
<1> QED
  BY <1>2, <1>3 DEF ThreadsMove

LEMMA ReturnsTo ==
  ASSUME EndsTypeOK, NEW t \in Server!Thread, Server!Return(t)
  PROVE  ThreadsMove
<1>1. {"idle", "next"} \subseteq Server!LoopPoints \ {"limits"}
  BY DEF Server!LoopPoints
<1>2. \/ Server!Goto(t, "next", NoSession) \/ Server!Goto(t, "idle", NoSession)
  BY DEF Server!Return
<1> QED
  BY <1>1, <1>2, GoesTo

LEMMA PopsTo ==
  ASSUME EndsTypeOK, NEW t \in Server!Thread, NEW s \in SessionId \union {NoSession},
         Server!Pop(t, s)
  PROVE  ThreadsMove
<1>1. "remove" \in Server!LoopPoints \ {"limits"}
  BY DEF Server!LoopPoints, Server!ClosePoints
<1>2. Server!Goto(t, "remove", s) \/ Server!Return(t)
  BY DEF Server!Pop
<1> QED
  BY <1>1, <1>2, GoesTo, ReturnsTo

LEMMA CloseMoves ==
  ASSUME EndsTypeOK, NEW t \in Server!Thread, Server!CloseStep(t)
  PROVE  ThreadsMove
<1> DEFINE s == cur[t]
<1>1. s \in SessionId \union {NoSession}
  BY DEF EndsTypeOK
<1>2. {"check", "release", "idle"} \subseteq Server!LoopPoints \ {"limits"}
  BY DEF Server!LoopPoints, Server!ClosePoints
<1>3. \/ \E p \in {"check", "release", "idle"}, r \in {s, NoSession} : Server!Goto(t, p, r)
      \/ Server!Return(t)
  BY DEF Server!CloseStep, Server!UntrackRemove, Server!UntrackCheck, Server!UntrackKeyError,
     Server!Release
<1> QED
  BY <1>1, <1>2, <1>3, GoesTo, ReturnsTo

LEMMA LoopMoves ==
  ASSUME EndsTypeOK, ServerLoopStep
  PROVE  ThreadsMove
<1>1. /\ {"idle", "track", "next"} \subseteq Server!LoopPoints \ {"limits"}
      /\ "loop" \in Server!Thread /\ cur["loop"] \in SessionId \union {NoSession}
  BY DEF Server!LoopPoints, Server!Thread, EndsTypeOK
<1>2. CASE \/ Server!UntrackRemove("loop") \/ Server!UntrackCheck("loop")
           \/ Server!UntrackKeyError("loop") \/ Server!Release("loop")
  BY <1>1, <1>2, CloseMoves DEF Server!CloseStep
<1>3. CASE \E s \in SessionId : Server!CloseNext(s)
  BY <1>1, <1>3, PopsTo DEF Server!CloseNext
<1>4. CASE \/ Server!AcceptRequest \/ Server!IdleScanDone \/ Server!IdleScanFails
           \/ Server!SweepDone \/ Server!RefuseRequest \/ Server!Track
  <2>1. \E p \in {"idle", "track", "next"}, s \in {cur["loop"], NoSession} :
           Server!Goto("loop", p, s)
    BY <1>4 DEF Server!AcceptRequest, Server!IdleScanDone, Server!IdleScanFails,
       Server!SweepDone, Server!RefuseRequest, Server!Track
  <2> QED
    BY <1>1, <2>1, GoesTo
<1> QED
  BY <1>2, <1>3, <1>4 DEF ServerLoopStep, ServerLoop, ServerRefuses, ServerAccepts,
     ServerReleases

LEMMA QuietMoves ==
  ASSUME EndsTypeOK, ServerQuiet
  PROVE  ThreadsMove
<1>1. /\ "scan" \in Server!LoopPoints \ {"limits"}
      /\ {"loop", "rns"} \subseteq Server!Thread
  BY DEF Server!LoopPoints, Server!Thread
<1>2. CASE \/ Server!UntrackRemove("rns") \/ Server!UntrackCheck("rns")
           \/ Server!UntrackKeyError("rns")
  BY <1>1, <1>2, CloseMoves DEF Server!CloseStep
<1>3. CASE Server!IdleScan
  BY <1>1, <1>3, GoesTo DEF Server!IdleScan
<1>4. CASE \/ Server!Start \/ \E i \in Identity : Server!Expire(i)
           \/ \E s \in SessionId : Server!VerifyRefuses(line[s])
  BY <1>4, StaysThere DEF Server!Start, Server!Expire, Server!VerifyRefuses, Server!threadVars
<1>5. CASE \E s \in SessionId : Server!MonitorFindsReaped(s)
  BY <1>1, <1>5, PopsTo DEF Server!MonitorFindsReaped
<1>6. CASE \E s \in SessionId : Server!OnLinkClosed(line[s])
  <2> PICK s \in SessionId : Server!OnLinkClosed(line[s])
    BY <1>6
  <2>1. terminal[line[s]] \in SessionId \union {NoSession}
    BY SystemAssumption DEF EndsTypeOK
  <2> QED
    BY <1>1, <2>1, PopsTo DEF Server!OnLinkClosed
<1> QED
  BY <1>2, <1>3, <1>4, <1>5, <1>6 DEF ServerQuiet

LEMMA SessionMoves ==
  ASSUME EndsTypeOK, NEW s \in SessionId, ServerSessionStep(s), ~ServerCounts(s)
  PROVE  ThreadsMove
<1>1. {"loop", "rns"} \subseteq Server!Thread
  BY DEF Server!Thread
<1>2. CASE ServerHandlesClose(s)
  <2>1. CASE Server!HandleClose(s)
    BY <1>1, <2>1, PopsTo DEF Server!HandleClose
  <2>2. CASE UNCHANGED serverVars
    BY <2>2, StaysThere DEF serverVars
  <2> QED
    BY <1>2, <2>1, <2>2 DEF ServerHandlesClose
<1>3. CASE ServerReaps(s)
  BY <1>1, <1>3, PopsTo DEF ServerReaps, Server!MonitorReaps
<1>4. CASE \/ ServerLinkUp(s) \/ ServerIdentifies(s) \/ ServerFirstPacket(s) \/ ServerHello(s)
           \/ ServerAssociates(s) \/ ServerLinkStale(s) \/ ProcessExits(s)
  <2>1. UNCHANGED <<at, cur>>
    BY <1>4 DEF ServerLinkUp, ServerIdentifies, ServerFirstPacket, ServerHello, ServerAssociates,
       ServerLinkStale, ProcessExits, Server!LinkEstablished, Server!Identify,
       Server!FirstPacket, Server!PeerCloses, Server!Associate, Server!ChildExits, serverVars,
       Server!threadVars
  <2> QED
    BY <2>1, StaysThere
<1> QED
  BY <1>2, <1>3, <1>4 DEF ServerSessionStep

-----------------------------------------------------------------------------
(* The steps of the server: processes, links and packets.                  *)

\* A step of the server.
ServerStep ==
    \/ \E s \in SessionId : ServerSessionStep(s)
    \/ ServerLoopStep \/ ServerReleases("rns") \/ ServerQuiet

\* What happens to a process: it is started for the session the loop has let in, it exits, it
\* is reaped.
ProcessMoves ==
    \/ UNCHANGED <<child, exitCode, reported>>
    \/ /\ Server!AcceptRequest
       /\ child' = [child EXCEPT ![cur["loop"]] = "running"] /\ UNCHANGED <<exitCode, reported>>
    \/ \E t \in Server!Thread :
          child' = [child EXCEPT ![cur[t]] = "reaped"] /\ UNCHANGED <<exitCode, reported>>
    \/ \E s \in SessionId :
          \/ ServerHandlesClose(s) /\ UNCHANGED <<child, exitCode>>
             /\ reported' = [reported EXCEPT ![s] = "zero"] /\ <<"close", s>> \in mail
          \/ child[s] = "exited" /\ child' = [child EXCEPT ![s] = "reaped"] /\ UNCHANGED exitCode
             /\ reported' \in {reported, [reported EXCEPT ![s] = exitCode[s]]}
          \/ child[s] = "running" /\ child' = [child EXCEPT ![s] = "exited"] /\ UNCHANGED reported
             /\ \E c \in {"zero", "other"} : exitCode' = [exitCode EXCEPT ![s] = c]

LEMMA ServerProcesses == ServerStep => ProcessMoves
<1> SUFFICES ASSUME ServerStep PROVE ProcessMoves
  OBVIOUS
<1> USE DEF ProcessMoves
<1>1. ASSUME NEW s \in SessionId, ServerSessionStep(s) PROVE ProcessMoves
  <2>1. CASE ServerHandlesClose(s)
    BY <2>1 DEF ServerHandlesClose, Server!HandleClose, Server!processVars, serverVars, Take
  <2>2. CASE ServerReaps(s)
    BY <2>2 DEF ServerReaps, Server!MonitorReaps
  <2>3. CASE ProcessExits(s)
    BY <2>3 DEF ProcessExits, Server!ChildExits
  <2>4. CASE \/ ServerCounts(s) \/ ServerLinkUp(s) \/ ServerIdentifies(s) \/ ServerFirstPacket(s)
             \/ ServerHello(s) \/ ServerAssociates(s) \/ ServerLinkStale(s)
    BY <2>4 DEF ServerCounts, ServerLinkUp, ServerIdentifies, ServerFirstPacket, ServerHello,
       ServerAssociates, ServerLinkStale, Server!Count, Server!LinkEstablished, Server!Identify,
       Server!FirstPacket, Server!PeerCloses, Server!Associate, Server!processVars, serverVars,
       meshVars
  <2> QED
    BY <1>1, <2>1, <2>2, <2>3, <2>4 DEF ServerSessionStep
<1>2. CASE ServerLoopStep \/ ServerReleases("rns")
  <2>1. CASE ServerReleases("loop") \/ ServerReleases("rns")
    BY <2>1 DEF ServerReleases, Server!Release, Server!Thread
  <2>2. CASE ServerLoop /\ Server!AcceptRequest
    BY <2>2 DEF ServerLoop, Server!AcceptRequest, meshVars
  <2>3. CASE ServerLoop /\ ~Server!AcceptRequest
    BY <2>3 DEF ServerLoop, Server!UntrackRemove, Server!UntrackCheck, Server!UntrackKeyError,
       Server!IdleScanDone, Server!IdleScanFails, Server!SweepDone, Server!CloseNext,
       Server!processVars, meshVars
  <2>4. CASE ServerRefuses \/ ServerAccepts
    BY <2>4 DEF ServerRefuses, ServerAccepts, Server!RefuseRequest, Server!Track,
       Server!processVars
  <2> QED
    BY <1>2, <2>1, <2>2, <2>3, <2>4 DEF ServerLoopStep
<1>3. CASE ServerQuiet
  BY <1>3 DEF ServerQuiet, Server!Start, Server!IdleScan, Server!Expire, Server!UntrackRemove,
     Server!UntrackCheck, Server!UntrackKeyError, Server!MonitorFindsReaped,
     Server!VerifyRefuses, Server!OnLinkClosed, Server!processVars, meshVars
<1> QED
  BY <1>1, <1>2, <1>3 DEF ServerStep

\* What happens to the links: a session's first packet has it verified, the verification binds it
\* or not.
LinkMoves ==
    \/ UNCHANGED <<verifying, terminal>>
    \/ \E s \in SessionId :
          \/ /\ terminal[line[s]] = NoSession /\ verifying' = [verifying EXCEPT ![line[s]] = s]
             /\ UNCHANGED terminal
          \/ /\ verifying' = [verifying EXCEPT ![line[s]] = NoSession] /\ UNCHANGED terminal
          \/ /\ verifying[line[s]] # NoSession /\ ServerAssociates(s)
             /\ verifying' = [verifying EXCEPT ![line[s]] = NoSession]
             /\ terminal' = [terminal EXCEPT ![line[s]] = verifying[line[s]]]

LEMMA ServerLinks == ServerStep => LinkMoves
<1> SUFFICES ASSUME ServerStep PROVE LinkMoves
  OBVIOUS
<1> USE DEF LinkMoves
<1>1. ASSUME NEW s \in SessionId, ServerSessionStep(s) PROVE LinkMoves
  <2>1. CASE ServerFirstPacket(s)
    BY <2>1 DEF ServerFirstPacket, Server!FirstPacket
  <2>2. CASE ServerAssociates(s)
    BY <2>2 DEF ServerAssociates, Server!Associate
  <2>3. CASE \/ ServerCounts(s) \/ ServerHandlesClose(s) \/ ServerReaps(s) \/ ProcessExits(s)
             \/ ServerLinkUp(s) \/ ServerIdentifies(s) \/ ServerHello(s) \/ ServerLinkStale(s)
    BY <2>3 DEF ServerCounts, ServerHandlesClose, ServerReaps, ProcessExits, ServerLinkUp,
       ServerIdentifies, ServerHello, ServerLinkStale, Server!Count, Server!HandleClose,
       Server!MonitorReaps, Server!ChildExits, Server!LinkEstablished, Server!Identify,
       Server!PeerCloses, Server!linkVars, serverVars
  <2> QED
    BY <1>1, <2>1, <2>2, <2>3 DEF ServerSessionStep
<1>2. CASE ServerLoopStep \/ ServerReleases("rns")
  BY <1>2 DEF ServerLoopStep, ServerReleases, ServerLoop, ServerRefuses, ServerAccepts,
     Server!Release, Server!AcceptRequest, Server!UntrackRemove, Server!UntrackCheck,
     Server!UntrackKeyError, Server!IdleScanDone, Server!IdleScanFails, Server!SweepDone,
     Server!CloseNext, Server!RefuseRequest, Server!Track, Server!linkVars
<1>3. CASE ServerQuiet
  BY <1>3 DEF ServerQuiet, Server!Start, Server!IdleScan, Server!Expire, Server!UntrackRemove,
     Server!UntrackCheck, Server!UntrackKeyError, Server!MonitorFindsReaped,
     Server!VerifyRefuses, Server!OnLinkClosed, Server!linkVars
<1> QED
  BY <1>1, <1>2, <1>3 DEF ServerStep

\* What the server sends on a link: its version when it has bound the link, and what was reported
\* of a session when it lets go of it.
AirMoves ==
    \/ air' \subseteq air
    \/ \E s \in SessionId : ServerAssociates(s) /\ air' \subseteq air \union {<<"version", s>>}
    \/ \E t \in Server!Thread :
          air' \subseteq air \union {<<reported[cur[t]], cur[t]>>} /\ ServerReleases(t)

LEMMA ServerSends == ServerStep => AirMoves
<1> SUFFICES ASSUME ServerStep PROVE AirMoves
  OBVIOUS
<1> USE DEF AirMoves
<1>1. ASSUME NEW s \in SessionId, ServerSessionStep(s) PROVE AirMoves
  <2>1. CASE ServerAssociates(s)
    BY <2>1 DEF ServerAssociates
  <2>2. CASE ~ServerAssociates(s)
    BY <1>1, <2>2 DEF ServerSessionStep, ServerCounts, ServerHandlesClose, ServerReaps,
       ProcessExits, ServerLinkUp, ServerIdentifies, ServerFirstPacket, ServerHello,
       ServerLinkStale, Receive, meshVars
  <2> QED
    BY <2>1, <2>2
<1>2. CASE ServerReleases("loop") \/ ServerReleases("rns")
  BY <1>2 DEF ServerReleases, Server!Thread
<1>3. CASE ServerLoop \/ ServerRefuses \/ ServerAccepts \/ ServerQuiet
  BY <1>3 DEF ServerLoop, ServerRefuses, ServerAccepts, ServerQuiet, meshVars
<1> QED
  BY <1>1, <1>2, <1>3 DEF ServerStep, ServerLoopStep

\* The server neither changes the client nor closes for it.
LEMMA ServerSpares ==
  ServerStep => /\ UNCHANGED clientVars
                /\ \A s \in SessionId : <<"close", s>> \in mail' => <<"close", s>> \in mail
<1> SUFFICES ASSUME ServerStep
             PROVE  /\ UNCHANGED clientVars
                    /\ \A s \in SessionId : <<"close", s>> \in mail' => <<"close", s>> \in mail
  OBVIOUS
<1>1. ASSUME NEW r \in SessionId, ServerSessionStep(r)
      PROVE  UNCHANGED clientVars /\ mail' \subseteq mail
  BY <1>1 DEF ServerSessionStep, ServerCounts, ServerHandlesClose, ServerReaps, ProcessExits,
     ServerLinkUp, ServerIdentifies, ServerFirstPacket, ServerHello, ServerAssociates,
     ServerLinkStale, OnlyServer, Take, meshVars
<1>2. CASE ServerLoop \/ ServerReleases("loop") \/ ServerReleases("rns") \/ ServerQuiet
  BY <1>2 DEF ServerLoop, ServerReleases, ServerQuiet, OnlyServer, meshVars
<1>3. CASE ServerRefuses \/ ServerAccepts
  BY <1>3 DEF ServerRefuses, ServerAccepts, OnlyServer, Post
<1> QED
  BY <1>1, <1>2, <1>3 DEF ServerStep, ServerLoopStep

LEMMA ServerMoves ==
  ASSUME EndsTypeOK, ServerStep, \A s \in SessionId : ~ServerCounts(s)
  PROVE  ThreadsMove
<1>1. CASE ServerReleases("rns")
  BY <1>1, CloseMoves DEF ServerReleases, Server!CloseStep, Server!Thread
<1> QED
  BY <1>1, SessionMoves, LoopMoves, QuietMoves DEF ServerStep

LEMMA ServerTypesStep ==
  ASSUME EndsTypeOK, ServerStep
  PROVE  EndsTypeOK'
<1>1. /\ at' \in [Server!Thread -> Server!LoopPoints]
      /\ cur' \in [Server!Thread -> SessionId \union {NoSession}]
  <2>1. ASSUME NEW s \in SessionId, ServerCounts(s)
        PROVE  /\ at' = [at EXCEPT !["loop"] = "limits"] /\ cur' = [cur EXCEPT !["loop"] = s]
    BY <2>1 DEF ServerCounts, Server!Count, Server!Goto
  <2>2. "limits" \in Server!LoopPoints
    BY DEF Server!LoopPoints
  <2>3. CASE \E s \in SessionId : ServerCounts(s)
    BY <2>1, <2>2, <2>3 DEF EndsTypeOK
  <2> QED
    BY <2>3, ServerMoves DEF ThreadsMove
<1>2. /\ child' \in [SessionId -> {"none", "running", "exited", "reaped"}]
      /\ exitCode' \in [SessionId -> {"none", "zero", "other"}]
      /\ reported' \in [SessionId -> Code \union {"none"}]
  BY ServerProcesses DEF ProcessMoves, EndsTypeOK, Code
<1>3. /\ verifying' \in [Link -> SessionId \union {NoSession}]
      /\ terminal' \in [Link -> SessionId \union {NoSession}]
  BY ServerLinks, SystemAssumption DEF LinkMoves, EndsTypeOK
<1> QED
  BY <1>1, <1>2, <1>3 DEF EndsTypeOK

LEMMA ServerProcessStep ==
  ASSUME EndsTypeOK, ProcessInv, ServerStep
  PROVE  ProcessInv'
<1>1. CASE \E s \in SessionId : ServerCounts(s)
  <2> PICK s \in SessionId : ServerCounts(s)
    BY <1>1
  <2>1. /\ child[s] = "none" /\ UNCHANGED <<child, exitCode>> /\ cur'["loop"] = s
    BY DEF ServerCounts, Server!Count, Server!Goto, Server!processVars, EndsTypeOK,
       Server!Thread
  <2> QED
    BY <2>1 DEF ProcessInv
<1>2. CASE ~ \E s \in SessionId : ServerCounts(s)
  <2>1. at'["loop"] = "limits" => at["loop"] = "limits" /\ cur'["loop"] = cur["loop"]
    BY <1>2, ServerMoves DEF ThreadsMove
  <2>2. CASE UNCHANGED <<child, exitCode>>
    BY <2>1, <2>2, ProcessKept
  <2>3. CASE Server!AcceptRequest /\ child' = [child EXCEPT ![cur["loop"]] = "running"] /\ UNCHANGED exitCode
    <3>1. at["loop"] = "limits" /\ at'["loop"] = "track"
      BY <2>3 DEF Server!AcceptRequest, Server!StoreList, Server!Goto, EndsTypeOK, Server!Thread
    <3> QED
      BY <2>3, <3>1 DEF ProcessInv, EndsTypeOK
  <2>4. ASSUME NEW s, child' = [child EXCEPT ![s] = "reaped"], UNCHANGED exitCode
        PROVE  ProcessInv'
    BY <2>1, <2>4 DEF ProcessInv, EndsTypeOK
  <2>5. ASSUME NEW s \in SessionId, child[s] = "running", child' = [child EXCEPT ![s] = "exited"],
               NEW c, exitCode' = [exitCode EXCEPT ![s] = c]
        PROVE  ProcessInv'
    BY <2>1, <2>5 DEF ProcessInv, EndsTypeOK
  <2> QED
    BY <2>2, <2>3, <2>4, <2>5, ServerProcesses DEF ProcessMoves
<1> QED
  BY <1>1, <1>2

LEMMA ServerBoundStep ==
  ASSUME EndsTypeOK, BoundInv, ServerStep
  PROVE  BoundInv'
<1> USE SystemAssumption
<1>0. UNCHANGED connected
  BY ServerSpares DEF clientVars
<1>1. CASE \E s \in SessionId : ServerAssociates(s)
  <2> PICK s \in SessionId : ServerAssociates(s)
    BY <1>1
  <2>1. /\ verifying[line[s]] # NoSession
        /\ verifying' = [verifying EXCEPT ![line[s]] = NoSession]
        /\ terminal' = [terminal EXCEPT ![line[s]] = verifying[line[s]]]
        /\ air' \subseteq air \union {<<"version", s>>}
    BY DEF ServerAssociates, Server!Associate
  <2>2. verifying[line[s]] = s /\ terminal[line[s]] = NoSession
    BY <2>1 DEF BoundInv
  <2>3. \A r \in SessionId :
           /\ verifying'[line[r]] = IF r = s THEN NoSession ELSE verifying[line[r]]
           /\ terminal'[line[r]] = IF r = s THEN s ELSE terminal[line[r]]
    BY <2>1, <2>2 DEF EndsTypeOK
  <2>4. \A r \in SessionId : r # s /\ <<"version", r>> \in air' => <<"version", r>> \in air
    BY <2>1
  <2> QED
    BY <1>0, <2>3, <2>4 DEF BoundInv
<1>2. CASE ~ \E s \in SessionId : ServerAssociates(s)
  <2>1. \A s \in SessionId : <<"version", s>> \in air' => <<"version", s>> \in air
    <3>1. ASSUME NEW s \in SessionId PROVE reported[s] # "version"
      BY DEF EndsTypeOK, Code
    <3> QED
      BY <1>2, <3>1, ServerSends DEF AirMoves
  <2>0. \A r \in SessionId :
           /\ verifying[line[r]] \in {NoSession, r}
           /\ verifying[line[r]] = r => terminal[line[r]] = NoSession
    BY DEF BoundInv
  <2>2. CASE UNCHANGED <<verifying, terminal>>
    BY <1>0, <2>1, <2>2, BoundKept
  <2>3. ASSUME NEW s \in SessionId, terminal[line[s]] = NoSession,
               verifying' = [verifying EXCEPT ![line[s]] = s], UNCHANGED terminal
        PROVE  BoundInv'
    <3>1. \A r \in SessionId : verifying'[line[r]] = IF r = s THEN s ELSE verifying[line[r]]
      BY <2>3 DEF EndsTypeOK
    <3>2. \A r \in SessionId :
             /\ verifying'[line[r]] \in {NoSession, r}
             /\ verifying'[line[r]] = r => terminal'[line[r]] = NoSession
      BY <2>0, <2>3, <3>1
    <3>3. \A r \in SessionId :
             <<"version", r>> \in air' \/ r \in connected' => terminal'[line[r]] = r
      BY <1>0, <2>1, <2>3 DEF BoundInv
    <3> QED
      BY <3>2, <3>3 DEF BoundInv
  <2>4. ASSUME NEW s \in SessionId, verifying' = [verifying EXCEPT ![line[s]] = NoSession],
               UNCHANGED terminal
        PROVE  BoundInv'
    <3>1. \A r \in SessionId : verifying'[line[r]] = IF r = s THEN NoSession ELSE verifying[line[r]]
      BY <2>4 DEF EndsTypeOK
    <3>2. \A r \in SessionId :
             /\ verifying'[line[r]] \in {NoSession, r}
             /\ verifying'[line[r]] = r => terminal'[line[r]] = NoSession
      BY <2>0, <2>4, <3>1
    <3>3. \A r \in SessionId :
             <<"version", r>> \in air' \/ r \in connected' => terminal'[line[r]] = r
      BY <1>0, <2>1, <2>4 DEF BoundInv
    <3> QED
      BY <3>2, <3>3 DEF BoundInv
  <2> QED
    BY <1>2, <2>2, <2>3, <2>4, ServerLinks DEF LinkMoves
<1> QED
  BY <1>1, <1>2

\* The server tells an exit code that the process had, or success where the client has closed.
LEMMA ServerToldStep ==
  ASSUME EndsTypeOK, ProcessInv, CodeInv, ServerStep
  PROVE  ToldInv'
<1>0. /\ UNCHANGED <<closing, code, exited, result>>
      /\ \A s \in SessionId : <<"close", s>> \in mail' => <<"close", s>> \in mail
  BY ServerSpares DEF clientVars
<1>1. \A s \in SessionId, c \in Code : <<c, s>> \in air' => Holds(s, c)
  <2>1. \A s \in SessionId : \A c \in Code : <<c, s>> \in air => Holds(s, c)
    BY DEF CodeInv, ToldInv
  <2>2. \A s \in SessionId : Holds(s, reported[s])
    BY DEF CodeInv, ToldInv
  <2>3. \A c \in Code : c # "version"
    BY DEF Code
  <2>4. CASE \E t \in Server!Thread : air' \subseteq air \union {<<reported[cur[t]], cur[t]>>}
    BY <2>1, <2>2, <2>4
  <2>5. CASE \E s \in SessionId : air' \subseteq air \union {<<"version", s>>}
    BY <2>1, <2>3, <2>5
  <2>6. CASE air' \subseteq air
    BY <2>1, <2>6
  <2> QED
    BY <2>4, <2>5, <2>6, ServerSends DEF AirMoves
<1>2. \A s \in SessionId : <<"close", s>> \in mail' => closing'[s] # "no"
  BY <1>0 DEF CodeInv, ToldInv
<1>3. \A s \in SessionId : \A c : Holds(s, c) => Holds(s, c)'
  <2>1. CASE UNCHANGED exitCode
    BY <1>0, <2>1 DEF Holds
  <2>2. ASSUME NEW r \in SessionId, child[r] = "running",
               NEW x, exitCode' = [exitCode EXCEPT ![r] = x]
        PROVE  \A s \in SessionId : \A c : Holds(s, c) => Holds(s, c)'
    <3>1. exitCode[r] = "none"
      BY <2>2 DEF ProcessInv
    <3>2. \A s \in SessionId : s # r => exitCode'[s] = exitCode[s]
      BY <2>2 DEF EndsTypeOK
    <3> QED
      BY <1>0, <3>1, <3>2 DEF Holds
  <2> QED
    BY <2>1, <2>2, ServerProcesses DEF ProcessMoves
<1>4. \A s \in SessionId : Holds(s, reported'[s])
  <2>1. \A s \in SessionId : Holds(s, reported[s])
    BY DEF CodeInv, ToldInv
  <2>2. ASSUME NEW r \in SessionId, <<"close", r>> \in mail, reported' = [reported EXCEPT ![r] = "zero"]
        PROVE  \A s \in SessionId : Holds(s, reported'[s])
    <3>1. Holds(r, "zero")
      BY <2>2 DEF CodeInv, ToldInv, Holds
    <3> QED
      BY <2>1, <2>2, <3>1 DEF EndsTypeOK
  <2>3. ASSUME NEW r \in SessionId, reported' = [reported EXCEPT ![r] = exitCode[r]]
        PROVE  \A s \in SessionId : Holds(s, reported'[s])
    <3>1. Holds(r, exitCode[r])
      BY DEF Holds
    <3> QED
      BY <2>1, <2>3, <3>1 DEF EndsTypeOK
  <2> QED
    BY <2>1, <2>2, <2>3, ServerProcesses DEF ProcessMoves
<1>5. ASSUME NEW s \in SessionId
      PROVE  Holds(s, reported[s])' /\ \A c \in Code : <<c, s>> \in air' => Holds(s, c)'
  <2>1. CASE UNCHANGED reported
    BY <1>1, <1>3, <1>4, <2>1
  <2>2. CASE UNCHANGED exitCode
    BY <1>0, <1>1, <1>4, <2>2 DEF Holds
  <2> QED
    BY <2>1, <2>2, ServerProcesses DEF ProcessMoves
<1> QED
  BY <1>2, <1>5 DEF ToldInv

LEMMA ServerHeardStep ==
  ASSUME EndsTypeOK, ProcessInv, CodeInv, ServerStep
  PROVE  HeardInv'
<1>1. UNCHANGED <<closing, code, exited, result>>
  BY ServerSpares DEF clientVars
<1>2. CASE UNCHANGED exitCode
  BY <1>1, <1>2 DEF CodeInv, HeardInv, Holds
<1>3. ASSUME NEW r \in SessionId, child[r] = "running",
             NEW x, exitCode' = [exitCode EXCEPT ![r] = x]
      PROVE  HeardInv'
  <2>1. exitCode[r] = "none"
    BY <1>3 DEF ProcessInv
  <2>2. \A s \in SessionId : s # r => exitCode'[s] = exitCode[s]
    BY <1>3 DEF EndsTypeOK
  <2> QED
    BY <1>1, <2>1, <2>2 DEF CodeInv, HeardInv, Holds
<1> QED
  BY <1>2, <1>3, ServerProcesses DEF ProcessMoves

-----------------------------------------------------------------------------
(* The theorems.                                                           *)

LEMMA SystemStep ==
  ASSUME SystemInv, [Next]_vars
  PROVE  SystemInv'
<1> USE DEF SystemInv
<1>1. CASE UNCHANGED vars \/ MeshLoses
  <2>1. /\ UNCHANGED <<clientVars, serverVars, exitCode, reported>>
        /\ mail' \subseteq mail /\ air' \subseteq air
    BY <1>1 DEF vars, meshVars, MeshLoses
  <2>2. ClientTypeOK' /\ EndsTypeOK' /\ ProcessInv'
    BY <2>1, ServerKept DEF ClientTypeOK, clientVars
  <2>3. BoundInv'
    BY <2>1, BoundKept DEF clientVars, serverVars
  <2>4. CodeInv'
    BY <2>1, CodeKept DEF clientVars
  <2> QED
    BY <2>2, <2>3, <2>4
<1>2. ASSUME NEW s \in SessionId, ClientStep(s) PROVE SystemInv'
  <2>1. UNCHANGED <<serverVars, exitCode, reported>>
    BY <1>2 DEF ClientStep, ClientAsks, ClientHears, ClientGoesOn, ClientFindsNoPath,
       ClientLinkUp, ClientVersion, ClientExited, ClientLinkClosed, ClientCloses,
       ClientTearsDown, ClientLinkStale, OnlyClient
  <2> QED
    BY <1>2, <2>1, ServerKept, ClientTypesStep, ClientBoundStep, ClientCodeStep
<1>3. CASE ServerStep
  <2>1. ClientTypeOK'
    BY <1>3, ServerSpares DEF ClientTypeOK, clientVars
  <2>2. CodeInv'
    BY <1>3, ServerToldStep, ServerHeardStep DEF CodeInv
  <2> QED
    BY <1>3, <2>1, <2>2, ServerTypesStep, ServerBoundStep, ServerProcessStep
<1> QED
  BY <1>1, <1>2, <1>3 DEF Next, ServerStep

LEMMA SystemInvariant == Spec => []SystemInv
<1> QED
  BY SystemStarts, SystemStep, PTL DEF Spec

\* The state of the client has its types, and a terminal that is over has a result.
THEOREM ClientTypes == Spec => []ClientTypeOK
<1>1. SystemInv => ClientTypeOK
  BY DEF SystemInv
<1> QED
  BY <1>1, SystemInvariant, PTL

\* connect() succeeds only on a link that the server has bound to this session, and the exit code
\* that is returned is the one of the remote process, or the user closed the terminal: for any
\* number of sessions and clients, whatever is lost, delayed or closed.
THEOREM ClientsAreToldTheTruth == Spec => []ClientIsTrue
<1>1. SystemInv => OpenIsBound
  BY DEF SystemInv, BoundInv, OpenIsBound
<1>2. SystemInv => CodeIsTrue
  BY DEF SystemInv, CodeInv, HeardInv, Holds, CodeIsTrue
<1>3. SystemInv => ClientIsTrue
  BY <1>1, <1>2 DEF ClientIsTrue
<1> QED
  BY <1>3, SystemInvariant, PTL

-----------------------------------------------------------------------------
(* The server in the system is the server of TerminalService.              *)

LEMMA ServerStepIsNext == ServerStep => [Server!Next]_(Server!vars)
<1> SUFFICES ASSUME ServerStep PROVE [Server!Next]_(Server!vars)
  OBVIOUS
<1> USE SystemAssumption DEF Server!Next
<1>0. ASSUME UNCHANGED serverVars PROVE UNCHANGED Server!vars
  BY <1>0 DEF serverVars, Server!vars, Server!serviceVars, Server!tableVars, Server!processVars,
     Server!linkVars, Server!threadVars
<1>1. ASSUME NEW s \in SessionId, ServerSessionStep(s)
      PROVE  [Server!Next]_(Server!vars)
  <2>0. line[s] \in Link
    OBVIOUS
  <2>1. CASE ServerCounts(s) \/ ServerReaps(s) \/ ProcessExits(s)
    BY <2>1 DEF ServerCounts, ServerReaps, ProcessExits, Server!SessionHandler, Server!Monitor
  <2>2. CASE ServerHandlesClose(s)
    BY <1>0, <2>2 DEF ServerHandlesClose, Server!SessionHandler
  <2>3. CASE ServerHello(s)
    BY <1>0, <2>0, <2>3 DEF ServerHello
  <2>4. CASE \/ ServerLinkUp(s) \/ ServerIdentifies(s) \/ ServerFirstPacket(s)
             \/ ServerAssociates(s) \/ ServerLinkStale(s)
    BY <2>0, <2>4 DEF ServerLinkUp, ServerIdentifies, ServerFirstPacket, ServerAssociates,
       ServerLinkStale, Server!Verify
  <2> QED
    BY <1>1, <2>1, <2>2, <2>3, <2>4 DEF ServerSessionStep
<1>2. CASE ServerLoopStep \/ ServerReleases("rns")
  BY <1>2 DEF ServerLoopStep, ServerReleases, ServerLoop, ServerRefuses, ServerAccepts,
     Server!LoopStep, Server!CloseStep
<1>3. CASE ServerQuiet
  BY <1>3 DEF ServerQuiet, Server!CloseStep, Server!Monitor, Server!Verify
<1> QED
  BY <1>1, <1>2, <1>3 DEF ServerStep

\* With a client at the other end, packets and messages that get lost, the server does nothing
\* but what TerminalService allows: its properties hold in the system.
THEOREM ServerIsTheService == Spec => Server!Spec
<1>1. Init => Server!Init
  BY DEF Init
<1>2. [Next]_vars => [Server!Next]_(Server!vars)
  <2> SUFFICES ASSUME [Next]_vars PROVE [Server!Next]_(Server!vars)
    OBVIOUS
  <2>1. CASE ServerStep
    BY <2>1, ServerStepIsNext
  <2>2. CASE UNCHANGED vars \/ MeshLoses \/ \E s \in SessionId : ClientStep(s)
    <3>1. UNCHANGED serverVars
      BY <2>2 DEF vars, MeshLoses, ClientStep, ClientAsks, ClientHears, ClientGoesOn,
         ClientFindsNoPath, ClientLinkUp, ClientVersion, ClientExited, ClientLinkClosed,
         ClientCloses, ClientTearsDown, ClientLinkStale, OnlyClient
    <3> QED
      BY <3>1 DEF serverVars, Server!vars, Server!serviceVars, Server!tableVars,
         Server!processVars, Server!linkVars, Server!threadVars
  <2> QED
    BY <2>1, <2>2 DEF Next, ServerStep
<1> QED
  BY <1>1, <1>2, PTL DEF Spec, Server!Spec
=============================================================================
