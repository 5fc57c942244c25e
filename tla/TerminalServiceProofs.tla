------------------------ MODULE TerminalServiceProofs ------------------------
(***************************************************************************)
(* Proofs about the terminal server's session table, for any number of     *)
(* clients, sessions and links.                                            *)
(***************************************************************************)
EXTENDS TerminalService, FiniteSetTheorems, TLAPS

\* The groups of variables, which every action's UNCHANGED names.
LEMMA VarsUnchanged ==
    ASSUME UNCHANGED vars
    PROVE  /\ UNCHANGED <<phase, idleTask, sessions, keys, tracked, requests>>
           /\ UNCHANGED <<child, pty, monitor, aged, link, assocPending>>
           /\ UNCHANGED <<linkState, identified, verifying, terminal>>
           /\ UNCHANGED <<at, cur, task, rest>>
BY DEF vars, serviceVars, tableVars, processVars, linkVars, threadVars

\* Next, action by action, with the parameters of each.
NextCases ==
    \/ Start \/ Stop \/ StopDone
    \/ RefuseRequest \/ AcceptRequest \/ Track
    \/ IdleScan \/ IdleScanDone \/ IdleScanFails \/ SweepDone
    \/ \E t \in Thread : CloseStep(t)
    \/ \E s \in SessionId : SessionHandler(s) \/ Monitor(s) \/ ChildExits(s) \/ CloseNext(s)
    \/ \E i \in Identity : Expire(i)
    \/ \E l \in Link : Verify(l) \/ LinkEstablished(l) \/ OnLinkClosed(l)
                       \/ Identify(l) \/ PeerCloses(l)
    \/ \E l \in Link, s \in SessionId : FirstPacket(l, s)

LEMMA NextSplit == Next => NextCases
BY DEF Next, NextCases, LoopStep, Thread

LEMMA InitType == Init => TypeOK
BY TableAssumption DEF Init, TypeOK, LoopPoints, Thread

LEMMA NextType == ASSUME TypeOK, ThreadInv, [Next]_vars PROVE TypeOK'
<1> USE TableAssumption DEF TypeOK, ThreadInv, Thread, LoopPoints, ClosePoints
<1> USE DEF serviceVars, tableVars, processVars, linkVars, threadVars
<1>1. CASE Start BY <1>1 DEF Start
<1>2. CASE Stop BY <1>2 DEF Stop, Goto
<1>3. CASE StopDone BY <1>3 DEF StopDone, Goto
<1>4. CASE RefuseRequest BY <1>4 DEF RefuseRequest, StoreList, Goto
<1>5. CASE AcceptRequest BY <1>5 DEF AcceptRequest, StoreList, Goto
<1>16. CASE Track BY <1>16 DEF Track, Goto
<1>6. CASE IdleScan BY <1>6 DEF IdleScan, Goto
<1>7. CASE IdleScanDone BY <1>7 DEF IdleScanDone, Goto
<1>8. CASE IdleScanFails BY <1>8 DEF IdleScanFails, Goto
<1>9. CASE SweepDone BY <1>9 DEF SweepDone, Goto
<1>10. ASSUME NEW t \in Thread, CloseStep(t) PROVE TypeOK'
  <2>1. CASE UntrackRemove(t) BY <2>1 DEF UntrackRemove, ShrinksUnder, Goto
  <2>2. CASE UntrackCheck(t) BY <2>2 DEF UntrackCheck, Goto
  <2>4. CASE UntrackKeyError(t) BY <2>4 DEF UntrackKeyError, Goto
  <2>5. CASE Release(t) BY <2>5 DEF Release, Return, Goto, Teardown
  <2> QED BY <1>10, <2>1, <2>2, <2>4, <2>5 DEF CloseStep
<1>11. ASSUME NEW s \in SessionId,
              SessionHandler(s) \/ Monitor(s) \/ ChildExits(s) \/ CloseNext(s)
       PROVE TypeOK'
  <2>1. CASE Count(s) BY <2>1 DEF Count, Goto
  <2>2. CASE HandleClose(s) BY <2>2 DEF HandleClose, Pop, Return, Goto
  <2>3. CASE HandleSignal(s) BY <2>3 DEF HandleSignal
  <2>4. CASE MonitorReaps(s) BY <2>4 DEF MonitorReaps, Pop, Return, Goto
  <2>5. CASE MonitorFindsReaped(s)
    BY <2>5 DEF MonitorFindsReaped, Pop, Return, Goto
  <2>6. CASE ChildExits(s) BY <2>6 DEF ChildExits
  <2>7. CASE CloseNext(s) BY <2>7 DEF CloseNext, Pop, Return, Goto
  <2> QED BY <1>11, <2>1, <2>2, <2>3, <2>4, <2>5, <2>6, <2>7
          DEF SessionHandler, Monitor
<1>12. ASSUME NEW i \in Identity, Expire(i) PROVE TypeOK'
  BY <1>12 DEF Expire
<1>13. ASSUME NEW l \in Link,
              Verify(l) \/ LinkEstablished(l) \/ OnLinkClosed(l)
                \/ Identify(l) \/ PeerCloses(l)
       PROVE TypeOK'
  <2>1. CASE VerifyRefuses(l) BY <2>1 DEF VerifyRefuses, Teardown
  <2>2. CASE Associate(l) BY <2>2 DEF Associate
  <2>3. CASE LinkEstablished(l) BY <2>3 DEF LinkEstablished
  <2>4. CASE OnLinkClosed(l) BY <2>4 DEF OnLinkClosed, Pop, Return, Goto
  <2>5. CASE Identify(l) BY <2>5 DEF Identify
  <2>6. CASE PeerCloses(l) BY <2>6 DEF PeerCloses, Teardown
  <2> QED BY <1>13, <2>1, <2>2, <2>3, <2>4, <2>5, <2>6 DEF Verify
<1>14. ASSUME NEW l \in Link, NEW s \in SessionId, FirstPacket(l, s)
       PROVE TypeOK'
  BY <1>14 DEF FirstPacket, Teardown
<1>15. CASE UNCHANGED vars BY <1>15, VarsUnchanged
<1> QED
  BY <1>1, <1>2, <1>3, <1>4, <1>5, <1>6, <1>7, <1>8, <1>9, <1>10, <1>11,
     <1>12, <1>13, <1>14, <1>15, <1>16, NextSplit DEF NextCases


\* Only the verification and the first packet of a link touch the binding of
\* links and sessions.
LinkFrame == UNCHANGED <<link, assocPending, verifying, terminal>>

LEMMA LinkSteps ==
    ASSUME [Next]_vars
    PROVE  \/ LinkFrame
           \/ \E l \in Link : VerifyRefuses(l) \/ Associate(l)
           \/ \E l \in Link, s \in SessionId : FirstPacket(l, s)
<1> USE DEF linkVars, LinkFrame
<1>1. CASE Start \/ Stop \/ StopDone \/ RefuseRequest \/ AcceptRequest \/ Track
  BY <1>1 DEF Start, Stop, StopDone, RefuseRequest, AcceptRequest, Track
<1>2. CASE IdleScan \/ IdleScanDone \/ IdleScanFails \/ SweepDone
  BY <1>2 DEF IdleScan, IdleScanDone, IdleScanFails, SweepDone
<1>3. ASSUME NEW t \in Thread, CloseStep(t) PROVE LinkFrame
  BY <1>3 DEF CloseStep, UntrackRemove, UntrackCheck,
              UntrackKeyError, Release
<1>4. ASSUME NEW s \in SessionId,
             SessionHandler(s) \/ Monitor(s) \/ ChildExits(s) \/ CloseNext(s)
      PROVE LinkFrame
  BY <1>4 DEF SessionHandler, Count, HandleClose, HandleSignal,
              Monitor, MonitorReaps, MonitorFindsReaped, ChildExits, CloseNext
<1>5. ASSUME NEW i \in Identity, Expire(i) PROVE LinkFrame
  BY <1>5 DEF Expire
<1>6. ASSUME NEW l \in Link,
             LinkEstablished(l) \/ OnLinkClosed(l) \/ Identify(l) \/ PeerCloses(l)
      PROVE LinkFrame
  BY <1>6 DEF LinkEstablished, OnLinkClosed, Identify, PeerCloses
<1>7. CASE UNCHANGED vars BY <1>7, VarsUnchanged
<1> QED
  BY <1>1, <1>2, <1>3, <1>4, <1>5, <1>6, <1>7, NextSplit DEF NextCases, Verify

LinkInv == VerifyInv /\ LinkBinding /\ OneVerifier

LEMMA NextLink ==
    ASSUME TypeOK, LinkInv, [Next]_vars
    PROVE  LinkInv' /\ \A s \in SessionId : link[s] # NoLink => link'[s] = link[s]
<1> USE TableAssumption DEF TypeOK, LinkInv, VerifyInv, LinkBinding, OneVerifier
<1>1. CASE LinkFrame BY <1>1 DEF LinkFrame
<1>2. ASSUME NEW l \in Link, VerifyRefuses(l) PROVE LinkInv' /\ UNCHANGED link
  <2> DEFINE s == verifying[l]
  <2>1. /\ s \in SessionId
        /\ verifying' = [verifying EXCEPT ![l] = NoSession]
        /\ assocPending' = assocPending \ {s}
        /\ UNCHANGED <<link, terminal>>
    BY <1>2 DEF VerifyRefuses
  <2>2. \A m \in Link : m # l => verifying[m] # s BY <2>1
  <2>3. {verifying'[m] : m \in Link} \ {NoSession}
          = ({verifying[m] : m \in Link} \ {NoSession}) \ {s}
    BY <2>1, <2>2
  <2>4. OneVerifier' BY <2>1, <2>3
  <2> QED BY <2>1, <2>4
<1>3. ASSUME NEW l \in Link, Associate(l)
      PROVE LinkInv' /\ \A s \in SessionId : link[s] # NoLink => link'[s] = link[s]
  <2> DEFINE s == verifying[l]
  <2>1. /\ s \in SessionId
        /\ peer[l] = owner[s]
        /\ link[s] = NoLink
        /\ terminal[l] = NoSession
        /\ terminal' = [terminal EXCEPT ![l] = s]
        /\ link' = [link EXCEPT ![s] = l]
        /\ verifying' = [verifying EXCEPT ![l] = NoSession]
        /\ assocPending' = assocPending \ {s}
    BY <1>3 DEF Associate
  <2>2. \A m \in Link : m # l => verifying[m] # s BY <2>1
  <2>3. {verifying'[m] : m \in Link} \ {NoSession}
          = ({verifying[m] : m \in Link} \ {NoSession}) \ {s}
    BY <2>1, <2>2
  <2>4. OneVerifier' BY <2>1, <2>3
  <2>5. VerifyInv' BY <2>1
  <2>6. LinkBinding' BY <2>1
  <2> QED BY <2>1, <2>4, <2>5, <2>6
<1>4. ASSUME NEW l \in Link, NEW s \in SessionId, FirstPacket(l, s)
      PROVE LinkInv' /\ UNCHANGED link
  <2>1. UNCHANGED <<link, terminal>> BY <1>4 DEF FirstPacket
  <2>2. CASE UNCHANGED <<assocPending, verifying>> BY <2>1, <2>2
  <2>3. CASE /\ s \notin assocPending
             /\ assocPending' = assocPending \union {s}
             /\ verifying' = [verifying EXCEPT ![l] = s]
    <3>1. verifying[l] = NoSession /\ terminal[l] = NoSession
      BY <1>4 DEF FirstPacket
    <3>2. \A m \in Link : verifying[m] # s BY <2>3
    <3>3. {verifying'[m] : m \in Link} \ {NoSession}
            = ({verifying[m] : m \in Link} \ {NoSession}) \union {s}
      BY <2>3, <3>1
    <3>4. OneVerifier' BY <2>3, <3>2, <3>3
    <3> QED BY <2>1, <2>3, <3>1, <3>4
  <2> QED BY <1>4, <2>2, <2>3 DEF FirstPacket
<1> QED BY <1>1, <1>2, <1>3, <1>4, LinkSteps

-----------------------------------------------------------------------------
(* The threads.                                                            *)

CloserInv == ThreadInv /\ OneCloser /\ ListedIsUsable /\ StoppedIsEmpty

LEMMA InitCloser == Init => CloserInv
BY DEF Init, CloserInv, ThreadInv, OneCloser, Closing, ListedIsUsable,
       StoppedIsEmpty, ClosePoints, Thread

\* A pop by thread t and what its callers do to the other variables.
PopStep(t, s) ==
    /\ at[t] \in {"idle", "next"}
    /\ Pop(t, s)
    /\ at[t] = "idle" => UNCHANGED rest
    /\ at[t] = "next" => t = "loop" /\ rest' = rest \ {s}
    /\ UNCHANGED <<phase, task, pty>>
    /\ \/ UNCHANGED child
       \/ /\ s \in SessionId
          /\ child[s] # "none"
          /\ child' = [child EXCEPT ![s] = "reaped"]

\* The popped session is in no other thread's hands, and left the table.
LEMMA PopCloser ==
    ASSUME TypeOK, CloserInv,
           NEW t \in Thread, NEW s \in SessionId \union {NoSession}, PopStep(t, s)
    PROVE  CloserInv'
<1> USE TableAssumption
<1> USE DEF TypeOK, CloserInv, ThreadInv, ClosePoints, Thread, PopStep
<1>1. CASE s \in sessions
  <2>1. /\ s \in SessionId
        /\ sessions' = sessions \ {s}
        /\ at' = [at EXCEPT ![t] = "remove"]
        /\ cur' = [cur EXCEPT ![t] = s]
    BY <1>1 DEF Pop, Goto
  <2>2. child[s] # "none" BY <1>1 DEF ListedIsUsable
  <2>3. ThreadInv' BY <2>1, <2>2
  <2>4. OneCloser' BY <1>1, <2>1 DEF OneCloser, Closing
  <2>5. ListedIsUsable' BY <2>1 DEF ListedIsUsable
  <2>6. StoppedIsEmpty' BY <2>1 DEF StoppedIsEmpty
  <2> QED BY <2>3, <2>4, <2>5, <2>6
<1>2. CASE s \notin sessions
  <2>1. /\ sessions' = sessions
        /\ cur' = [cur EXCEPT ![t] = NoSession]
        /\ \/ t = "loop" /\ task # "none" /\ at' = [at EXCEPT ![t] = "next"]
           \/ ~(t = "loop" /\ task # "none") /\ at' = [at EXCEPT ![t] = "idle"]
    BY <1>2 DEF Pop, Return, Goto
  <2>2. \A u \in sessions : child'[u] = child[u] BY <1>2
  <2>3. ThreadInv' BY <1>2, <2>1
  <2>4. OneCloser' BY <2>1 DEF OneCloser, Closing
  <2>5. ListedIsUsable' BY <2>1, <2>2 DEF ListedIsUsable
  <2>6. StoppedIsEmpty' BY <2>1 DEF StoppedIsEmpty
  <2> QED BY <2>3, <2>4, <2>5, <2>6
<1> QED BY <1>1, <1>2

\* The steps that pop a session of the table.
LEMMA PopSteps ==
    ASSUME TypeOK, NEW s \in SessionId,
           HandleClose(s) \/ Monitor(s) \/ CloseNext(s)
    PROVE  PopStep("loop", s)
<1> USE DEF TypeOK, processVars, serviceVars, Idle, PopStep
<1>1. CASE HandleClose(s) BY <1>1 DEF HandleClose
<1>2. CASE MonitorReaps(s) BY <1>2 DEF MonitorReaps
<1>3. CASE MonitorFindsReaped(s) BY <1>3 DEF MonitorFindsReaped
<1>4. CASE CloseNext(s) BY <1>4 DEF CloseNext
<1> QED BY <1>1, <1>2, <1>3, <1>4 DEF Monitor

\* The callback of a closed link pops the link's session, or nothing.
LEMMA LinkPop ==
    ASSUME TypeOK, NEW l \in Link, OnLinkClosed(l)
    PROVE  /\ terminal[l] \in SessionId \union {NoSession}
           /\ PopStep("rns", terminal[l])
BY DEF TypeOK, processVars, serviceVars, Idle, PopStep, OnLinkClosed

\* Every pop keeps the threads apart.
LEMMA PopsCloser ==
    ASSUME TypeOK, CloserInv,
           \/ \E s \in SessionId : HandleClose(s) \/ Monitor(s) \/ CloseNext(s)
           \/ \E l \in Link : OnLinkClosed(l)
    PROVE  CloserInv'
<1>1. ASSUME NEW s \in SessionId, HandleClose(s) \/ Monitor(s) \/ CloseNext(s)
      PROVE  CloserInv'
  <2>1. PopStep("loop", s) BY <1>1, PopSteps
  <2> QED BY <2>1, PopCloser DEF Thread
<1>2. ASSUME NEW l \in Link, OnLinkClosed(l) PROVE CloserInv'
  <2>1. PopStep("rns", terminal[l]) /\ terminal[l] \in SessionId \union {NoSession}
    BY <1>2, LinkPop
  <2> QED BY <2>1, PopCloser DEF Thread
<1> QED BY <1>1, <1>2

LEMMA NextCloser == ASSUME TypeOK, CloserInv, [Next]_vars PROVE CloserInv'
<1> USE TableAssumption
<1> USE DEF serviceVars, tableVars, processVars, linkVars, threadVars,
            TypeOK, Thread, LoopPoints, ClosePoints, Idle
<1> DEFINE Parts == CloserInv /\ ThreadInv /\ OneCloser /\ ListedIsUsable /\ StoppedIsEmpty
<1>0. Parts BY DEF CloserInv
<1> USE DEF ThreadInv, OneCloser, Closing, ListedIsUsable, StoppedIsEmpty
<1>1. CASE Start BY <1>0, <1>1 DEF Start, CloserInv
<1>2. CASE Stop BY <1>0, <1>2 DEF Stop, Goto, CloserInv
<1>3. CASE StopDone BY <1>0, <1>3 DEF StopDone, Goto, CloserInv
<1>4. CASE RefuseRequest BY <1>0, <1>4 DEF RefuseRequest, StoreList, Goto, CloserInv
<1>5. CASE AcceptRequest BY <1>0, <1>5 DEF AcceptRequest, StoreList, Goto, CloserInv
<1>16. CASE Track BY <1>0, <1>16 DEF Track, Goto, CloserInv
<1>6. CASE IdleScan BY <1>0, <1>6 DEF IdleScan, Goto, CloserInv
<1>7. CASE IdleScanDone BY <1>0, <1>7 DEF IdleScanDone, Goto, CloserInv
<1>8. CASE IdleScanFails BY <1>0, <1>8 DEF IdleScanFails, Goto, CloserInv
<1>9. CASE SweepDone BY <1>0, <1>9 DEF SweepDone, Goto, CloserInv
<1>10. ASSUME NEW t \in Thread, CloseStep(t) PROVE CloserInv'
  <2>1. CASE UntrackRemove(t) BY <1>0, <2>1 DEF UntrackRemove, ShrinksUnder, Goto, CloserInv
  <2>2. CASE UntrackCheck(t) BY <1>0, <2>2 DEF UntrackCheck, Goto, CloserInv
  <2>4. CASE UntrackKeyError(t)
    BY <1>0, <2>4 DEF UntrackKeyError, Goto, CloserInv
  <2>5. CASE Release(t) BY <1>0, <2>5 DEF Release, Return, Goto, CloserInv
  <2> QED BY <1>10, <2>1, <2>2, <2>4, <2>5 DEF CloseStep
<1>11. ASSUME NEW s \in SessionId,
              SessionHandler(s) \/ Monitor(s) \/ ChildExits(s) \/ CloseNext(s)
       PROVE CloserInv'
  <2>1. CASE Count(s) BY <1>0, <2>1 DEF Count, Goto, CloserInv
  <2>2. CASE HandleClose(s) BY <1>0, <2>2, PopsCloser
  <2>3. CASE HandleSignal(s) BY <1>0, <2>3 DEF HandleSignal, CloserInv
  <2>4. CASE MonitorReaps(s) BY <1>0, <2>4, PopsCloser DEF Monitor
  <2>5. CASE MonitorFindsReaped(s)
    BY <1>0, <2>5, PopsCloser DEF Monitor
  <2>6. CASE ChildExits(s) BY <1>0, <2>6 DEF ChildExits, CloserInv
  <2>7. CASE CloseNext(s) BY <1>0, <2>7, PopsCloser
  <2> QED BY <1>11, <2>1, <2>2, <2>3, <2>4, <2>5, <2>6, <2>7
          DEF SessionHandler, Monitor
<1>12. ASSUME NEW i \in Identity, Expire(i) PROVE CloserInv'
  BY <1>0, <1>12 DEF Expire, CloserInv
<1>13. ASSUME NEW l \in Link,
              Verify(l) \/ LinkEstablished(l) \/ OnLinkClosed(l)
                \/ Identify(l) \/ PeerCloses(l)
       PROVE CloserInv'
  <2>1. CASE VerifyRefuses(l) BY <1>0, <2>1 DEF VerifyRefuses, CloserInv
  <2>2. CASE Associate(l) BY <1>0, <2>2 DEF Associate, CloserInv
  <2>3. CASE LinkEstablished(l) BY <1>0, <2>3 DEF LinkEstablished, CloserInv
  <2>4. CASE OnLinkClosed(l) BY <1>0, <2>4, PopsCloser
  <2>5. CASE Identify(l) BY <1>0, <2>5 DEF Identify, CloserInv
  <2>6. CASE PeerCloses(l) BY <1>0, <2>6 DEF PeerCloses, CloserInv
  <2> QED BY <1>13, <2>1, <2>2, <2>3, <2>4, <2>5, <2>6 DEF Verify
<1>14. ASSUME NEW l \in Link, NEW s \in SessionId, FirstPacket(l, s)
       PROVE CloserInv'
  BY <1>0, <1>14 DEF FirstPacket, CloserInv
<1>15. CASE UNCHANGED vars BY <1>0, <1>15, VarsUnchanged DEF CloserInv
<1> QED
  BY <1>1, <1>2, <1>3, <1>4, <1>5, <1>6, <1>7, <1>8, <1>9, <1>10, <1>11,
     <1>12, <1>13, <1>14, <1>15, <1>16, NextSplit DEF NextCases
-----------------------------------------------------------------------------
(* Fresh sessions.                                                         *)

\* A session that has been created is never forgotten.
LEMMA ChildNeverNone ==
    ASSUME TypeOK, [Next]_vars, NEW s \in SessionId, child[s] # "none"
    PROVE  child'[s] # "none"
<1> USE DEF TypeOK, processVars
<1>1. CASE Start \/ Stop \/ StopDone \/ RefuseRequest \/ AcceptRequest \/ Track
  BY <1>1 DEF Start, Stop, StopDone, RefuseRequest, AcceptRequest, Track
<1>2. CASE IdleScan \/ IdleScanDone \/ IdleScanFails \/ SweepDone
  BY <1>2 DEF IdleScan, IdleScanDone, IdleScanFails, SweepDone
<1>3. ASSUME NEW t \in Thread, CloseStep(t) PROVE child'[s] # "none"
  BY <1>3 DEF CloseStep, UntrackRemove, UntrackCheck,
              UntrackKeyError, Release
<1>4. ASSUME NEW u \in SessionId,
             SessionHandler(u) \/ Monitor(u) \/ ChildExits(u) \/ CloseNext(u)
      PROVE child'[s] # "none"
  BY <1>4 DEF SessionHandler, Count, HandleClose, HandleSignal,
              Monitor, MonitorReaps, MonitorFindsReaped, ChildExits, CloseNext
<1>5. ASSUME NEW i \in Identity, Expire(i)
      PROVE child'[s] # "none"
  BY <1>5 DEF Expire
<1>6. ASSUME NEW l \in Link,
             Verify(l) \/ LinkEstablished(l) \/ OnLinkClosed(l) \/ Identify(l)
               \/ PeerCloses(l)
      PROVE child'[s] # "none"
  BY <1>6 DEF Verify, VerifyRefuses, Associate, LinkEstablished, OnLinkClosed,
              Identify, PeerCloses
<1>7. ASSUME NEW l \in Link, NEW u \in SessionId, FirstPacket(l, u)
      PROVE child'[s] # "none"
  BY <1>7 DEF FirstPacket
<1>8. CASE UNCHANGED vars BY <1>8, VarsUnchanged
<1> QED
  BY <1>1, <1>2, <1>3, <1>4, <1>5, <1>6, <1>7, <1>8, NextSplit DEF NextCases

LEMMA NextFresh ==
    ASSUME TypeOK, LinkInv, ListedIsUsable, FreshInv, [Next]_vars
    PROVE  FreshInv'
<1> USE DEF TypeOK, FreshInv
<1>0. \A s \in SessionId : child'[s] = "none" => child[s] = "none"
  BY ChildNeverNone
<1>1. CASE LinkFrame BY <1>0, <1>1 DEF LinkFrame
<1>2. ASSUME NEW l \in Link, VerifyRefuses(l) PROVE FreshInv'
  BY <1>0, <1>2 DEF VerifyRefuses
<1>3. ASSUME NEW l \in Link, Associate(l) PROVE FreshInv'
  <2>1. verifying[l] \in assocPending
    BY <1>3 DEF Associate, LinkInv, OneVerifier
  <2> QED BY <1>0, <1>3, <2>1 DEF Associate
<1>4. ASSUME NEW l \in Link, NEW s \in SessionId, FirstPacket(l, s)
      PROVE FreshInv'
  BY <1>0, <1>4 DEF FirstPacket, ListedIsUsable
<1> QED BY <1>1, <1>2, <1>3, <1>4, LinkSteps

-----------------------------------------------------------------------------
(* The inductive invariant and what follows from it.                       *)

LEMMA InitTable == Init => TableInv
<1> SUFFICES ASSUME Init PROVE TableInv OBVIOUS
<1>1. TypeOK BY InitType
<1>2. CloserInv BY InitCloser
<1>3. VerifyInv /\ FreshInv /\ LinkBinding /\ OneVerifier
  BY TableAssumption DEF Init, VerifyInv, FreshInv, LinkBinding, OneVerifier
<1> QED BY <1>1, <1>2, <1>3 DEF TableInv, CloserInv

LEMMA NextTable == TableInv /\ [Next]_vars => TableInv'
<1> SUFFICES ASSUME TableInv, [Next]_vars PROVE TableInv' OBVIOUS
<1>1. TypeOK /\ CloserInv /\ LinkInv /\ FreshInv
  BY DEF TableInv, CloserInv, LinkInv
<1>2. TypeOK' BY <1>1, NextType DEF CloserInv
<1>3. CloserInv' BY <1>1, NextCloser
<1>4. LinkInv' BY <1>1, NextLink
<1>5. FreshInv' BY <1>1, NextFresh DEF CloserInv
<1> QED BY <1>2, <1>3, <1>4, <1>5 DEF TableInv, CloserInv, LinkInv

\* The session table is consistent in every reachable state: type
\* correctness, the binding of sessions and links, one verification per
\* session, one closer per session, live PTY and child behind every listed
\* session, and none after stop().
THEOREM TableInvariant == Spec => []TableInv
BY InitTable, NextTable, PTL DEF Spec

\* No two threads release the same session and no listed session has lost
\* its PTY or its process, whatever _close_session interleaves with.
THEOREM SessionsUsable == Spec => [](OneCloser /\ ListedIsUsable)
<1>1. TableInv => OneCloser /\ ListedIsUsable BY DEF TableInv
<1> QED BY <1>1, TableInvariant, PTL

\* A session's link is authenticated and points back to the session, and
\* the association lock is held exactly by the one verification that runs.
THEOREM LinksBound == Spec => [](LinkBinding /\ OneVerifier)
<1>1. TableInv => LinkBinding /\ OneVerifier BY DEF TableInv
<1> QED BY <1>1, TableInvariant, PTL

\* stop() leaves no session behind when it completes.
THEOREM StopIsComplete == Spec => []StoppedIsEmpty
<1>1. TableInv => StoppedIsEmpty BY DEF TableInv
<1> QED BY <1>1, TableInvariant, PTL

\* No second link takes the place of the one a session got.
THEOREM LinkIsKept == Spec => LinkNeverReplaced
<1>1. TableInv /\ [Next]_vars
        => [\A s \in SessionId : link[s] # NoLink => link'[s] = link[s]]_vars
  BY NextLink DEF TableInv, LinkInv
<1> QED BY <1>1, TableInvariant, PTL DEF Spec, LinkNeverReplaced

-----------------------------------------------------------------------------
(* The table as a pool of sessions.                                        *)

\* What a step does to the sessions: it creates one, removes one, binds one,
\* or leaves table, creation and links alone.
Created == {s \in SessionId : child[s] # "none"}

PoolFrame == UNCHANGED <<sessions, Created>>

LEMMA SessionSteps ==
    ASSUME TableInv, [Next]_vars
    PROVE  \/ PoolFrame
           \/ AcceptRequest
           \/ UNCHANGED Created /\ \E s \in sessions : sessions' = sessions \ {s}
<1> DEFINE Removal == UNCHANGED Created /\ \E s \in sessions : sessions' = sessions \ {s}
<1>1. TypeOK BY DEF TableInv
<1> USE <1>1 DEF TypeOK, tableVars, processVars, PoolFrame, Created
<1>2. CASE Start \/ Stop \/ StopDone \/ RefuseRequest \/ Track
  BY <1>2 DEF Start, Stop, StopDone, RefuseRequest, StoreList, Track
<1>3. CASE IdleScan \/ IdleScanDone \/ IdleScanFails \/ SweepDone
  BY <1>3 DEF IdleScan, IdleScanDone, IdleScanFails, SweepDone
<1>4. ASSUME NEW t \in Thread, CloseStep(t) PROVE PoolFrame
  <2>1. CASE Release(t)
    <3>1. cur[t] \in SessionId /\ child[cur[t]] # "none"
      BY <2>1 DEF Release, TableInv, ThreadInv, ClosePoints
    <3> QED BY <2>1, <3>1 DEF Release
  <2> QED BY <1>4, <2>1 DEF CloseStep, UntrackRemove, UntrackCheck,
                            UntrackKeyError
<1>5. ASSUME NEW s \in SessionId,
             Count(s) \/ HandleSignal(s) \/ ChildExits(s)
      PROVE PoolFrame
  BY <1>5 DEF Count, HandleSignal, ChildExits
<1>6. ASSUME NEW s \in SessionId, HandleClose(s) \/ Monitor(s) \/ CloseNext(s)
      PROVE PoolFrame \/ Removal
  BY <1>6 DEF HandleClose, Monitor, MonitorReaps, MonitorFindsReaped,
              CloseNext, Pop
<1>7. ASSUME NEW i \in Identity, Expire(i) PROVE PoolFrame
  BY <1>7 DEF Expire
<1>8. ASSUME NEW l \in Link,
             Verify(l) \/ LinkEstablished(l) \/ Identify(l) \/ PeerCloses(l)
      PROVE PoolFrame
  BY <1>8 DEF Verify, VerifyRefuses, Associate, LinkEstablished, Identify,
              PeerCloses
<1>9. ASSUME NEW l \in Link, OnLinkClosed(l) PROVE PoolFrame \/ Removal
  BY <1>9 DEF OnLinkClosed, Pop
<1>10. ASSUME NEW l \in Link, NEW s \in SessionId, FirstPacket(l, s)
       PROVE PoolFrame
  BY <1>10 DEF FirstPacket
<1>11. CASE UNCHANGED vars BY <1>11, VarsUnchanged
<1> QED
  BY <1>2, <1>3, <1>4, <1>5, <1>6, <1>7, <1>8, <1>9, <1>10, <1>11, NextSplit
  DEF NextCases, SessionHandler

TotalInv == IsFiniteSet(sessions) /\ TotalLimit

LEMMA NextTotal == TableInv /\ TotalInv /\ [Next]_vars => TotalInv'
<1> SUFFICES ASSUME TableInv, TotalInv, [Next]_vars PROVE TotalInv' OBVIOUS
<1> USE TableAssumption DEF TotalInv, TotalLimit
<1>1. CASE PoolFrame BY <1>1 DEF PoolFrame
<1>2. ASSUME AcceptRequest PROVE TotalInv'
  <2> DEFINE s == cur["loop"]
  <2>1. sessions' = sessions \union {s} /\ Cardinality(sessions) < MaxTotal
    BY <1>2 DEF AcceptRequest, WithinLimits
  <2>2. /\ IsFiniteSet(sessions')
        /\ \/ Cardinality(sessions') = Cardinality(sessions)
           \/ Cardinality(sessions') = Cardinality(sessions) + 1
    BY <2>1, FS_AddElement
  <2>3. Cardinality(sessions) \in Nat BY FS_CardinalityType
  <2> QED BY <2>1, <2>2, <2>3
<1>3. ASSUME NEW s \in sessions, sessions' = sessions \ {s} PROVE TotalInv'
  <2>1. /\ IsFiniteSet(sessions')
        /\ Cardinality(sessions') = Cardinality(sessions) - 1
    BY <1>3, FS_RemoveElement
  <2>2. Cardinality(sessions) \in Nat BY FS_CardinalityType
  <2> QED BY <2>1, <2>2
<1> QED BY <1>1, <1>2, <1>3, SessionSteps

\* The server never runs more than max_total_sessions sessions: the check in
\* _check_rate_limits and the insertion in _create_session are one stretch
\* of the event loop, and the other thread only ever removes.
THEOREM TotalLimitHolds == Spec => []TotalLimit
<1>1. Init => TotalInv
  BY FS_EmptySet, TableAssumption DEF Init, TotalInv, TotalLimit
<1>2. TotalInv => TotalLimit BY DEF TotalInv
<1> QED BY <1>1, <1>2, NextTotal, TableInvariant, PTL DEF Spec

LEMMA PoolStep == TableInv /\ [Next]_vars => [Pool!Next]_(Pool!poolVars)
<1> SUFFICES ASSUME TableInv, [Next]_vars PROVE [Pool!Next]_(Pool!poolVars)
  OBVIOUS
<1> DEFINE carrier == [s \in SessionId |-> IF s \in sessions THEN link[s] ELSE NoLink]
<1> USE DEF Pool!Next, Pool!poolVars
<1>0. TypeOK /\ LinkInv /\ FreshInv /\ ListedIsUsable
  BY DEF TableInv, LinkInv
<1>1. ASSUME AcceptRequest PROVE \E s \in SessionId : Pool!Open(s)
  <2> DEFINE s == cur["loop"]
  <2>1. /\ s \in SessionId
        /\ child[s] = "none"
        /\ Cardinality(sessions) < MaxTotal
        /\ child' = [child EXCEPT ![s] = "running"]
        /\ sessions' = sessions \union {s}
        /\ UNCHANGED link
    BY <1>1 DEF AcceptRequest, StoreList, WithinLimits, linkVars, TableInv, ThreadInv
  <2>2. link[s] = NoLink BY <1>0, <2>1 DEF FreshInv
  <2>3. Created' = Created \union {s} BY <1>0, <2>1 DEF TypeOK, Created
  <2>4. UNCHANGED carrier BY <2>1, <2>2
  <2>5. Pool!Cardinality(sessions) = Cardinality(sessions)
    BY DEF Pool!Cardinality, Cardinality
  <2>6. s \notin Created BY <2>1 DEF Created
  <2> QED BY <2>1, <2>3, <2>4, <2>5, <2>6 DEF Pool!Open, Created
<1>2. CASE PoolFrame /\ UNCHANGED link
  BY <1>2 DEF PoolFrame, Created
<1>3. ASSUME NEW l \in Link, Associate(l) PROVE [Pool!Next]_(Pool!poolVars)
  <2> DEFINE s == verifying[l]
  <2>1. /\ s \in SessionId
        /\ peer[l] = owner[s]
        /\ link[s] = NoLink
        /\ link' = [link EXCEPT ![s] = l]
        /\ UNCHANGED <<sessions, child>>
    BY <1>0, <1>3 DEF TypeOK, Associate, tableVars, processVars
  <2>2. terminal[l] = NoSession
    BY <1>0, <2>1, TableAssumption DEF LinkInv, VerifyInv
  <2>3. \A u \in SessionId : carrier[u] # l
    BY <1>0, <2>2, TableAssumption DEF LinkInv, LinkBinding, TypeOK
  <2>4. CASE s \in sessions
    <3>1. carrier' = [carrier EXCEPT ![s] = l] BY <1>0, <2>1, <2>4 DEF TypeOK
    <3>2. carrier[s] = NoLink BY <2>1
    <3>3. Pool!Bind(s, l) BY <2>1, <2>3, <2>4, <3>1, <3>2 DEF Pool!Bind
    <3> QED BY <2>1, <3>3
  <2>5. CASE s \notin sessions
    <3>1. UNCHANGED carrier BY <1>0, <2>1, <2>5 DEF TypeOK
    <3> QED BY <2>1, <3>1
  <2> QED BY <2>4, <2>5
<1>4. ASSUME NEW s \in sessions, sessions' = sessions \ {s},
             UNCHANGED <<Created, link>>
      PROVE Pool!Close(s)
  <2>1. s \in SessionId /\ carrier' = [carrier EXCEPT ![s] = NoLink]
    BY <1>0, <1>4 DEF TypeOK
  <2> QED BY <1>4, <2>1 DEF Pool!Close, Created
<1>5. (\E l \in Link : Associate(l)) \/ UNCHANGED link
  BY LinkSteps DEF LinkFrame, VerifyRefuses, FirstPacket
<1>6. ASSUME NEW s \in sessions, sessions' = sessions \ {s}, UNCHANGED Created
      PROVE  [Pool!Next]_(Pool!poolVars)
  <2>1. ~ \E l \in Link : Associate(l) BY <1>6 DEF Associate, tableVars
  <2> QED BY <1>0, <1>4, <1>5, <1>6, <2>1 DEF TypeOK
<1> QED BY <1>1, <1>2, <1>3, <1>5, <1>6, SessionSteps

\* The two threads together implement the pool of sessions: whatever they
\* interleave, seen from outside a session opens once and while there is
\* room, gets at most one link, its own client's, and closes once.
THEOREM Refinement == Spec => ImplementsPool
<1>1. Init => Pool!Init
  BY TableAssumption DEF Init, Pool!Init
<1> QED BY <1>1, PoolStep, TableInvariant, PTL DEF Spec, ImplementsPool, Pool!Spec
=============================================================================
