----------------------------- MODULE ClientProofs -----------------------------
(***************************************************************************)
(* What a client of the daemon is told and shows is true: proofs about the *)
(* calls of the bridge, the list of conversations and the contacts, for    *)
(* any number of calls, clients, workers, peers and crashes.               *)
(***************************************************************************)
EXTENDS MCClient, FiniteSetTheorems, TLAPS

-----------------------------------------------------------------------------
(* Calls to the daemon.                                                     *)

\* A call that has still to be submitted, or that could not be.
Before == {"new", "reconnect", "opening", "ping", "drop"}
Unsent == {"unreachable", "assertion"}

\* A call submits its request once, and the daemon answers what it has carried out.
RequestInv ==
    \A t \in Task :
        /\ executed[t] = IF request[t] = "answered" THEN 1 ELSE 0
        /\ call_at[t] \in Before \cup Unsent => request[t] = "none"
        /\ call_at[t] = "result" => request[t] = "answered"

\* The last attempt ends the call.
AttemptInv == \A t \in Task : call_at[t] \in Before => attempts[t] < MaxAttempts

BridgeInv == RequestInv /\ AttemptInv /\ WaitersKept

\* There is always a client for another connection: fewer than Task hold one, and the bridge has two.
LEMMA OneIsFree ==
  ASSUME NEW t \in Task
  PROVE  Free(t) # {}
<1> USE BridgeAssumption
<1> DEFINE others == {held[u] : u \in Task \ {t}}
           taken == (others \cup {client}) \cup {dropped}
<1>1. IsFiniteSet(Task \ {t}) /\ Cardinality(Task \ {t}) = Cardinality(Task) - 1
  BY FS_RemoveElement
<1>2. IsFiniteSet(others) /\ Cardinality(others) <= Cardinality(Task \ {t})
  <2>1. [u \in Task \ {t} |-> held[u]] \in Surjection(Task \ {t}, others)
    BY DEF Surjection
  <2> QED
    BY <1>1, <2>1, FS_Surjection
<1>3. /\ IsFiniteSet(others \cup {client})
      /\ Cardinality(others \cup {client}) \in {Cardinality(others), Cardinality(others) + 1}
  BY <1>2, FS_AddElement
<1>4. IsFiniteSet(taken) /\ Cardinality(taken) <= Cardinality(others) + 2
  <2>1. IsFiniteSet(taken)
    BY <1>3, FS_AddElement
  <2>2. Cardinality(taken) \in {Cardinality(others \cup {client}), Cardinality(others \cup {client}) + 1}
    BY <1>3, FS_AddElement
  <2>3. Cardinality(others) \in Nat
    BY <1>2, FS_CardinalityType
  <2> QED
    BY <1>3, <2>1, <2>2, <2>3
<1>5. Cardinality(taken) < Cardinality(Client)
  <2>1. /\ Cardinality(Task) \in Nat /\ Cardinality(Client) \in Nat /\ Cardinality(taken) \in Nat
        /\ Cardinality(others) \in Nat
    BY <1>2, <1>4, FS_CardinalityType
  <2> QED
    BY <1>1, <1>2, <1>4, <2>1
<1>6. ~ (Client \subseteq taken)
  <2>1. Client \subseteq taken => Cardinality(Client) <= Cardinality(taken)
    BY <1>4, FS_Subset
  <2> QED
    BY <1>4, <1>5, <2>1, FS_CardinalityType
<1>7. PICK k \in Client : k \notin taken
  BY <1>6
<1> QED
  BY <1>7 DEF Free

LEMMA BridgeStarts == BridgeInit => BridgeTypeOK /\ BridgeInv
<1> SUFFICES ASSUME BridgeInit PROVE BridgeTypeOK /\ BridgeInv
  OBVIOUS
<1> USE BridgeAssumption DEF BridgeInit
<1>1. BridgeTypeOK
  <2>1. 0 \in 0..MaxCrashes /\ 0 \in 0..MaxAttempts
    OBVIOUS
  <2> HIDE BridgeAssumption
  <2> QED
    BY <2>1 DEF BridgeTypeOK
<1>2. RequestInv
  BY DEF RequestInv
<1>3. AttemptInv /\ WaitersKept
  BY DEF AttemptInv, WaitersKept
<1> QED
  BY <1>1, <1>2, <1>3 DEF BridgeInv

\* What the steps of one call leave to the others.
Moved(t, point, k) ==
    /\ \A u \in Task : call_at'[u] = IF u = t THEN point ELSE call_at[u]
    /\ \A u \in Task : held'[u] = IF u = t THEN k ELSE held[u]

LEMMA MoveIs ==
  ASSUME BridgeTypeOK, NEW t \in Task, NEW point, NEW k, Move(t, point, k)
  PROVE  Moved(t, point, k)
  BY DEF BridgeTypeOK, Move, Moved

\* A call that moves to a point where it waits for nothing.
LEMMA Settles ==
  ASSUME BridgeTypeOK, WaitersKept, NEW t \in Task, NEW point, Moved(t, point, NoClient),
         point \notin {"opening", "ping", "drop", "wait"},
         \A u \in Task \ {t} : conn'[held[u]] = conn[held[u]]
  PROVE  WaitersKept'
  BY DEF BridgeTypeOK, WaitersKept, Moved

\* A connection that begins is held by nobody else.
LEMMA OpensKeeps ==
  ASSUME BridgeTypeOK, WaitersKept, NEW t \in Task, Opens(t)
  PROVE  WaitersKept' /\ client' \in Client /\ Moved(t, "opening", client')
<1>1. client' \in Free(t)
  BY OneIsFree DEF Opens
<1>2. Moved(t, "opening", client')
  BY MoveIs DEF Opens
<1>3. /\ client' \in Client
      /\ \A u \in Task \ {t} : held[u] # client'
  BY <1>1 DEF Free
<1>4. \A k \in Client : conn'[k] = IF k = client' THEN "opening" ELSE conn[k]
  BY <1>3 DEF Opens, BridgeTypeOK
<1>5. client' # NoClient
  BY <1>3, BridgeAssumption
<1>6. WaitersKept'
  <2> SUFFICES ASSUME NEW u \in Task
      PROVE  /\ call_at'[u] = "wait" => held'[u] # NoClient /\ conn'[held'[u]] \in {"open", "eof"}
             /\ call_at'[u] \in {"opening", "ping", "drop"} => held'[u] # NoClient
             /\ call_at'[u] = "opening" =>
                   conn'[held'[u]] = "opening" /\ \A v \in Task \ {u} : held'[v] = held'[u] => call_at'[v] = "drop"
    BY DEF WaitersKept
  <2>1. CASE u = t
    BY <1>2, <1>3, <1>4, <1>5, <2>1 DEF Moved
  <2>2. CASE u # t
    <3>1. held'[u] = held[u] /\ call_at'[u] = call_at[u]
      BY <1>2, <2>2 DEF Moved
    <3>2. held[u] \in Client => conn'[held[u]] = conn[held[u]]
      BY <1>3, <1>4, <2>2
    <3>3. held[u] \in Client \cup {NoClient}
      BY DEF BridgeTypeOK
    <3>4. \A v \in Task \ {u} : held'[v] = held[u] => v # t /\ held[v] = held[u] /\ call_at'[v] = call_at[v]
      BY <1>2, <1>3, <2>2 DEF Moved
    <3> QED
      BY <3>1, <3>2, <3>3, <3>4 DEF WaitersKept
  <2> QED
    BY <2>1, <2>2
<1> QED
  BY <1>2, <1>3, <1>6

LEMMA SubmitTypes ==
  ASSUME BridgeTypeOK, WaitersKept, NEW t \in Task, NEW k \in Client, Submit(t, k),
         UNCHANGED <<ownerVars, up, crashes, executed>>
  PROVE  BridgeTypeOK'
<1>0. 0 \in 0..MaxAttempts
  BY BridgeAssumption
<1>1. CASE /\ Opens(t)
           /\ attempts' = [attempts EXCEPT ![t] = 0]
           /\ retried' = retried \union {t}
           /\ ready' = FALSE
           /\ UNCHANGED request
  <2>1. client' \in Client
    BY <1>1, OpensKeeps
  <2>2. attempts' \in [Task -> 0..MaxAttempts]
    BY <1>0, <1>1 DEF BridgeTypeOK
  <2>3. /\ conn' \in [Client -> {"new", "opening", "open", "eof", "closed"}]
        /\ alive' \subseteq Client
        /\ call_at' \in [Task -> {"new", "reconnect", "opening", "ping", "drop", "wait"} \union Outcome]
        /\ held' \in [Task -> Client \union {NoClient}]
    BY <1>1, <2>1 DEF Opens, Move, BridgeTypeOK
  <2> QED
    BY <1>1, <2>1, <2>2, <2>3 DEF BridgeTypeOK, ownerVars
<1>2. CASE /\ Move(t, "wait", k)
           /\ request' = [request EXCEPT ![t] = "sent"]
           /\ ready' = TRUE
           /\ UNCHANGED <<client, conn, alive, attempts, retried>>
  BY <1>2 DEF Move, BridgeTypeOK, ownerVars
<1>3. CASE /\ Move(t, "unreachable", NoClient)
           /\ ready' = TRUE
           /\ UNCHANGED <<client, conn, alive, attempts, retried, request>>
  BY <1>3 DEF Move, BridgeTypeOK, ownerVars, Outcome
<1> QED
  BY <1>1, <1>2, <1>3 DEF Submit

LEMMA FailTypes ==
  ASSUME BridgeTypeOK, AttemptInv, NEW t \in Task, call_at[t] \in Before, AttemptFails(t)
  PROVE  /\ attempts' \in [Task -> 0..MaxAttempts]
         /\ call_at' \in [Task -> Before \cup {"wait"} \cup Outcome]
         /\ held' \in [Task -> Client \cup {NoClient}]
<1>1. attempts[t] + 1 \in 0..MaxAttempts
  BY BridgeAssumption DEF AttemptInv, BridgeTypeOK
<1> QED
  BY <1>1 DEF AttemptFails, Move, BridgeTypeOK, Before, Outcome

LEMMA CallTypesStep ==
  ASSUME BridgeTypeOK, BridgeInv, NEW t \in Task, CallStep(t)
  PROVE  BridgeTypeOK'
<1> USE DEF BridgeInv
<1>1. CASE Proceed(t)
  <2>1. client \in Client
    BY <1>1 DEF Proceed, Connected, BridgeTypeOK
  <2> QED
    BY <1>1, <2>1, SubmitTypes DEF Proceed
<1>2. CASE StartAttempt(t)
  <2>1. client' \in Client
    BY <1>2, OpensKeeps DEF StartAttempt
  <2> QED
    BY <1>2, <2>1 DEF StartAttempt, Opens, Move, BridgeTypeOK, ownerVars
<1>3. CASE OpenFails(t) \/ DropDone(t)
  <2>1. call_at[t] \in Before
    BY <1>3 DEF OpenFails, DropDone, Before
  <2> QED
    BY <1>3, <2>1, FailTypes DEF OpenFails, DropDone, BridgeTypeOK, Before, ownerVars, socketVars
<1>4. CASE OpenSucceeds(t)
  <2>1. call_at[t] \in Before /\ held[t] \in Client
    BY <1>4 DEF OpenSucceeds, Before, WaitersKept, BridgeTypeOK
  <2>2. CASE AttemptFails(t)
    BY <1>4, <2>1, <2>2, FailTypes DEF OpenSucceeds, BridgeTypeOK, Before, ownerVars
  <2>3. CASE ~AttemptFails(t)
    BY <1>4, <2>1, <2>3 DEF OpenSucceeds, Move, BridgeTypeOK, ownerVars
  <2> QED
    BY <2>2, <2>3
<1>5. CASE PingReturns(t)
  <2>1. CASE client = NoClient
    BY <1>5, <2>1 DEF PingReturns, Move, BridgeTypeOK, ownerVars, Outcome
  <2>2. CASE client # NoClient
    BY <1>5, <2>2, SubmitTypes DEF PingReturns, BridgeTypeOK
  <2> QED
    BY <2>1, <2>2
<1>6. CASE PingFails(t)
  <2>1. CASE client = NoClient
    <3>1. call_at[t] \in Before
      BY <1>6 DEF PingFails, Before
    <3> QED
      BY <1>6, <2>1, <3>1, FailTypes DEF PingFails, BridgeTypeOK, Before, ownerVars
  <2>2. CASE client # NoClient
    BY <1>6, <2>2 DEF PingFails, Shut, CancelWaiters, BridgeTypeOK, ownerVars, Outcome
  <2> QED
    BY <2>1, <2>2
<1>7. CASE AnswerArrives(t) \/ Timeout(t)
  BY <1>7 DEF AnswerArrives, Timeout, Move, BridgeTypeOK, Outcome, clientVars, ownerVars, socketVars
<1> QED
  BY <1>1, <1>2, <1>3, <1>4, <1>5, <1>6, <1>7 DEF CallStep

LEMMA BridgeTypesStep ==
  ASSUME BridgeTypeOK, BridgeInv, [BridgeNext]_bridgeVars
  PROVE  BridgeTypeOK'
<1> USE DEF BridgeTypeOK, clientVars, ownerVars, socketVars, callVars
<1>1. CASE UNCHANGED bridgeVars
  BY <1>1 DEF bridgeVars
<1>2. ASSUME NEW t \in Task, CallStep(t) PROVE BridgeTypeOK'
  BY <1>2, CallTypesStep
<1>3. ASSUME NEW t \in Task, Serve(t) PROVE BridgeTypeOK'
  BY <1>3 DEF Serve
<1>4. ASSUME NEW k \in Client, SeeEof(k) PROVE BridgeTypeOK'
  BY <1>4 DEF SeeEof
<1>5. CASE Leave
  BY <1>5 DEF Leave, Shut, CancelWaiters, Outcome
<1>6. CASE Left \/ RestartsDaemon
  BY <1>6 DEF Left, RestartsDaemon
<1>7. CASE Crash
  <2>1. crashes' \in 0..MaxCrashes
    BY <1>7, BridgeAssumption DEF Crash
  <2>2. request' \in [Task -> {"none", "sent", "answered"}]
    BY <1>7 DEF Crash
  <2> QED
    BY <1>7, <2>1, <2>2 DEF Crash
<1> QED
  BY <1>1, <1>2, <1>3, <1>4, <1>5, <1>6, <1>7 DEF BridgeNext

\* What a step does to the calls: t goes to a point, and others may be cancelled.
Goes(t, point) ==
    /\ call_at'[t] = point
    /\ \A u \in Task \ {t} : call_at'[u] \in {call_at[u], "cancelled"}

LEMMA MovedGoes ==
  ASSUME NEW t \in Task, NEW point, NEW k, Moved(t, point, k)
  PROVE  Goes(t, point)
  BY DEF Moved, Goes

LEMMA RequestKept ==
  ASSUME RequestInv, NEW t \in Task, NEW point, Goes(t, point),
         UNCHANGED <<request, executed>>,
         point \in Before \cup Unsent => request[t] = "none",
         point = "result" => request[t] = "answered"
  PROVE  RequestInv'
  BY DEF RequestInv, Goes, Before, Unsent

LEMMA AttemptKept ==
  ASSUME AttemptInv, NEW t \in Task, NEW point, Goes(t, point),
         \A u \in Task \ {t} : attempts'[u] = attempts[u],
         point \in Before => attempts'[t] < MaxAttempts
  PROVE  AttemptInv'
  BY DEF AttemptInv, Goes, Before

\* A failed attempt ends a call that has sent nothing, or it goes on with one attempt less.
LEMMA FailKeeps ==
  ASSUME BridgeTypeOK, RequestInv, AttemptInv, NEW t \in Task, call_at[t] \in Before,
         AttemptFails(t), UNCHANGED <<request, executed>>
  PROVE  /\ RequestInv' /\ AttemptInv'
         /\ \E point \in {"unreachable", "reconnect"} : Moved(t, point, NoClient)
<1> DEFINE point == IF attempts[t] + 1 = MaxAttempts THEN "unreachable" ELSE "reconnect"
<1>1. Moved(t, point, NoClient)
  BY MoveIs DEF AttemptFails
<1>2. Goes(t, point)
  BY <1>1, MovedGoes
<1>3. request[t] = "none"
  BY DEF RequestInv
<1>4. \A u \in Task : attempts'[u] = IF u = t THEN attempts[t] + 1 ELSE attempts[u]
  BY DEF AttemptFails, BridgeTypeOK
<1>5. point \in Before => attempts[t] + 1 < MaxAttempts
  <2>1. attempts[t] < MaxAttempts /\ attempts[t] \in Nat /\ MaxAttempts \in Nat
    BY BridgeAssumption DEF AttemptInv, BridgeTypeOK
  <2>2. point \in Before => attempts[t] + 1 # MaxAttempts
    BY DEF Before
  <2> HIDE DEF point
  <2> QED
    BY <2>1, <2>2
<1>6. point \in {"unreachable", "reconnect"}
  OBVIOUS
<1> HIDE DEF point
<1>7. RequestInv'
  BY <1>2, <1>3, <1>6, RequestKept
<1>8. AttemptInv'
  BY <1>2, <1>4, <1>5, AttemptKept
<1> QED
  BY <1>1, <1>6, <1>7, <1>8

\* A call that submits its request does so for the first time; one that opens or gives up has not.
LEMMA SubmitKeeps ==
  ASSUME BridgeTypeOK, BridgeInv, NEW t \in Task, call_at[t] \in Before, NEW k \in Client,
         Submit(t, k), UNCHANGED executed
  PROVE  BridgeInv'
<1> USE DEF BridgeInv
<1>0. request[t] = "none" /\ executed[t] = 0
  BY DEF RequestInv
<1>1. CASE /\ conn[k] = "open"
           /\ Move(t, "wait", k)
           /\ request' = [request EXCEPT ![t] = "sent"]
           /\ UNCHANGED <<conn, attempts>>
  <2>1. Moved(t, "wait", k) /\ Goes(t, "wait")
    BY <1>1, MoveIs, MovedGoes
  <2>2. \A u \in Task : request'[u] = IF u = t THEN "sent" ELSE request[u]
    BY <1>1 DEF BridgeTypeOK
  <2>3. RequestInv'
    BY <1>0, <2>1, <2>2 DEF RequestInv, Moved, Before, Unsent
  <2>4. AttemptInv'
    BY <1>1, <2>1, AttemptKept DEF Before
  <2>5. k # NoClient
    BY BridgeAssumption
  <2>6. WaitersKept'
    BY <1>1, <2>1, <2>5 DEF WaitersKept, Moved
  <2> QED
    BY <2>3, <2>4, <2>6
<1>2. CASE Opens(t) /\ attempts' = [attempts EXCEPT ![t] = 0] /\ UNCHANGED request
  <2>1. WaitersKept' /\ Goes(t, "opening")
    BY <1>2, OpensKeeps, MovedGoes
  <2>2. RequestInv'
    BY <1>0, <1>2, <2>1, RequestKept
  <2>3. \A u \in Task : attempts'[u] = IF u = t THEN 0 ELSE attempts[u]
    BY <1>2 DEF BridgeTypeOK
  <2>4. 0 < MaxAttempts
    BY BridgeAssumption
  <2>5. AttemptInv'
    BY <2>1, <2>3, <2>4, AttemptKept
  <2> QED
    BY <2>1, <2>2, <2>5
<1>3. CASE Move(t, "unreachable", NoClient) /\ UNCHANGED <<conn, attempts, request>>
  <2>1. Moved(t, "unreachable", NoClient) /\ Goes(t, "unreachable")
    BY <1>3, MoveIs, MovedGoes
  <2>2. RequestInv'
    BY <1>0, <1>3, <2>1, RequestKept
  <2>3. AttemptInv'
    BY <1>3, <2>1, AttemptKept DEF Before
  <2>4. WaitersKept'
    BY <1>3, <2>1, Settles
  <2> QED
    BY <2>2, <2>3, <2>4
<1> QED
  BY <1>1, <1>2, <1>3 DEF Submit

\* Disconnecting a client ends every call that waits on it, and leaves it to the one that opens it.
LEMMA ShutKeeps ==
  ASSUME BridgeTypeOK, WaitersKept, client \in Client, Shut(client),
         \A u \in Task :
            \/ /\ held'[u] = held[u]
               /\ call_at'[u] = IF held[u] = client /\ call_at[u] \in {"ping", "wait"}
                                THEN "cancelled" ELSE call_at[u]
            \/ held'[u] = client /\ call_at'[u] = "drop" /\ call_at[u] = "ping"
  PROVE  WaitersKept'
<1>1. \A c \in Client : conn'[c] = IF c = client THEN (IF conn[client] = "opening" THEN "opening" ELSE "closed")
                                           ELSE conn[c]
  BY DEF Shut, BridgeTypeOK
<1>2. client # NoClient
  BY BridgeAssumption
<1>3. \A u \in Task : held[u] \in Client \cup {NoClient}
  BY DEF BridgeTypeOK
<1> QED
  BY <1>1, <1>2, <1>3 DEF WaitersKept

LEMMA CallKeeps ==
  ASSUME BridgeTypeOK, BridgeInv, NEW t \in Task, CallStep(t)
  PROVE  BridgeInv'
<1> USE DEF BridgeInv
<1>1. CASE Proceed(t)
  <2>1. client \in Client /\ call_at[t] \in Before
    BY <1>1 DEF Proceed, Connected, BridgeTypeOK, Before
  <2> QED
    BY <1>1, <2>1, SubmitKeeps DEF Proceed
<1>2. CASE StartAttempt(t)
  <2>1. call_at[t] \in Before
    BY <1>2 DEF StartAttempt, Before
  <2>2. WaitersKept' /\ Goes(t, "opening")
    BY <1>2, OpensKeeps, MovedGoes DEF StartAttempt
  <2>3. request[t] = "none" /\ attempts[t] < MaxAttempts
    BY <2>1 DEF RequestInv, AttemptInv
  <2>4. RequestInv'
    BY <1>2, <2>2, <2>3, RequestKept DEF StartAttempt
  <2>5. AttemptInv'
    BY <1>2, <2>2, <2>3, AttemptKept DEF StartAttempt
  <2> QED
    BY <2>2, <2>4, <2>5
<1>3. CASE OpenFails(t)
  <2>1. call_at[t] \in Before /\ held[t] \in Client
    BY <1>3 DEF OpenFails, Before, WaitersKept, BridgeTypeOK
  <2>2. /\ RequestInv' /\ AttemptInv'
        /\ \E point \in {"unreachable", "reconnect"} : Moved(t, point, NoClient)
    BY <1>3, <2>1, FailKeeps DEF OpenFails, socketVars
  <2>3. \A c \in Client : conn'[c] = IF c = held[t] THEN "closed" ELSE conn[c]
    BY <1>3, <2>1 DEF OpenFails, BridgeTypeOK
  <2>4. WaitersKept'
    BY <1>3, <2>1, <2>2, <2>3 DEF OpenFails, WaitersKept, Moved, BridgeTypeOK
  <2> QED
    BY <2>2, <2>4
<1>4. CASE OpenSucceeds(t)
  <2>1. call_at[t] \in Before /\ held[t] \in Client
    BY <1>4 DEF OpenSucceeds, Before, WaitersKept, BridgeTypeOK
  <2>2. \A c \in Client : conn'[c] = IF c = held[t] THEN "open" ELSE conn[c]
    BY <1>4, <2>1 DEF OpenSucceeds, BridgeTypeOK
  <2>3. CASE AttemptFails(t)
    <3>1. /\ RequestInv' /\ AttemptInv'
          /\ \E point \in {"unreachable", "reconnect"} : Moved(t, point, NoClient)
      BY <1>4, <2>1, <2>3, FailKeeps DEF OpenSucceeds
    <3>2. WaitersKept'
      BY <1>4, <2>1, <2>2, <3>1 DEF OpenSucceeds, WaitersKept, Moved, BridgeTypeOK
    <3> QED
      BY <3>1, <3>2
  <2>4. CASE client # NoClient /\ conn'[client] = "open" /\ Move(t, "ping", client) /\ UNCHANGED attempts
    <3>1. Moved(t, "ping", client) /\ Goes(t, "ping")
      BY <2>4, MoveIs, MovedGoes
    <3>2. request[t] = "none" /\ attempts[t] < MaxAttempts
      BY <2>1 DEF RequestInv, AttemptInv
    <3>3. RequestInv'
      BY <1>4, <3>1, <3>2, RequestKept DEF OpenSucceeds
    <3>4. AttemptInv'
      BY <2>4, <3>1, <3>2, AttemptKept
    <3>5. WaitersKept'
      BY <1>4, <2>1, <2>2, <2>4, <3>1 DEF OpenSucceeds, WaitersKept, Moved, BridgeTypeOK
    <3> QED
      BY <3>3, <3>4, <3>5
  <2> QED
    BY <1>4, <2>3, <2>4 DEF OpenSucceeds
<1>5. CASE PingReturns(t)
  <2>1. call_at[t] \in Before
    BY <1>5 DEF PingReturns, Before
  <2>2. CASE client = NoClient
    <3>1. Moved(t, "assertion", NoClient) /\ Goes(t, "assertion")
      BY <1>5, <2>2, MoveIs, MovedGoes DEF PingReturns
    <3>2. request[t] = "none"
      BY <2>1 DEF RequestInv
    <3>3. RequestInv'
      BY <1>5, <2>2, <3>1, <3>2, RequestKept DEF PingReturns
    <3>4. AttemptInv'
      BY <1>5, <2>2, <3>1, AttemptKept DEF PingReturns, Before
    <3>5. WaitersKept'
      BY <1>5, <2>2, <3>1, Settles DEF PingReturns
    <3> QED
      BY <3>3, <3>4, <3>5
  <2>3. CASE client # NoClient
    BY <1>5, <2>1, <2>3, SubmitKeeps DEF PingReturns, BridgeTypeOK
  <2> QED
    BY <2>2, <2>3
<1>6. CASE PingFails(t)
  <2>1. call_at[t] \in Before
    BY <1>6 DEF PingFails, Before
  <2>2. CASE client = NoClient
    <3>1. /\ RequestInv' /\ AttemptInv'
          /\ \E point \in {"unreachable", "reconnect"} : Moved(t, point, NoClient)
      BY <1>6, <2>1, <2>2, FailKeeps DEF PingFails
    <3>2. WaitersKept'
      BY <1>6, <2>2, <3>1, Settles DEF PingFails
    <3> QED
      BY <3>1, <3>2
  <2>3. CASE client # NoClient
    <3>1. Shut(client) /\ client \in Client
      BY <1>6, <2>3 DEF PingFails, BridgeTypeOK
    <3>2. \A u \in Task : call_at'[u] = IF u = t THEN "drop" ELSE CancelWaiters(client, {t})[u]
      BY <1>6, <2>3 DEF PingFails, CancelWaiters
    <3>3. \A u \in Task : held'[u] = IF u = t THEN client ELSE held[u]
      BY <1>6, <2>3 DEF PingFails, BridgeTypeOK
    <3>4. \A u \in Task \ {t} : CancelWaiters(client, {t})[u] = CancelWaiters(client, {})[u]
      BY DEF CancelWaiters
    <3>5. WaitersKept'
      <4>1. \A u \in Task :
               \/ /\ held'[u] = held[u]
                  /\ call_at'[u] = IF held[u] = client /\ call_at[u] \in {"ping", "wait"}
                                   THEN "cancelled" ELSE call_at[u]
               \/ held'[u] = client /\ call_at'[u] = "drop" /\ call_at[u] = "ping"
        BY <1>6, <3>2, <3>3 DEF PingFails, CancelWaiters
      <4> QED
        BY <3>1, <4>1, ShutKeeps
    <3>6. Goes(t, "drop")
      BY <3>2, <3>4 DEF Goes, CancelWaiters
    <3>7. request[t] = "none" /\ attempts[t] < MaxAttempts
      BY <2>1 DEF RequestInv, AttemptInv
    <3>8. RequestInv'
      BY <1>6, <3>6, <3>7, RequestKept DEF PingFails
    <3>9. AttemptInv'
      BY <1>6, <2>3, <3>6, <3>7, AttemptKept DEF PingFails
    <3> QED
      BY <3>5, <3>8, <3>9
  <2> QED
    BY <2>2, <2>3
<1>7. CASE DropDone(t)
  <2>1. call_at[t] \in Before
    BY <1>7 DEF DropDone, Before
  <2>2. /\ RequestInv' /\ AttemptInv'
        /\ \E point \in {"unreachable", "reconnect"} : Moved(t, point, NoClient)
    BY <1>7, <2>1, FailKeeps DEF DropDone, socketVars
  <2>3. WaitersKept'
    BY <1>7, <2>2, Settles DEF DropDone
  <2> QED
    BY <2>2, <2>3
<1>8. CASE AnswerArrives(t) \/ Timeout(t)
  <2>1. PICK point \in {"result", "timeout"} :
          Moved(t, point, NoClient) /\ (point = "result" => request[t] = "answered")
    BY <1>8, MoveIs DEF AnswerArrives, Timeout
  <2>2. Goes(t, point)
    BY <2>1, MovedGoes
  <2>3. UNCHANGED <<request, executed, attempts, conn>>
    BY <1>8 DEF AnswerArrives, Timeout, socketVars, clientVars
  <2>4. RequestInv'
    BY <2>1, <2>2, <2>3, RequestKept DEF Before, Unsent
  <2>5. AttemptInv'
    BY <2>2, <2>3, AttemptKept DEF Before
  <2>6. WaitersKept'
    BY <2>1, <2>3, Settles
  <2> QED
    BY <2>4, <2>5, <2>6
<1> QED
  BY <1>1, <1>2, <1>3, <1>4, <1>5, <1>6, <1>7, <1>8 DEF CallStep

LEMMA BridgeInvStep ==
  ASSUME BridgeTypeOK, BridgeInv, [BridgeNext]_bridgeVars
  PROVE  BridgeInv'
<1> USE DEF BridgeInv
<1>1. CASE UNCHANGED <<conn, call_at, held, attempts, request, executed>>
  BY <1>1 DEF RequestInv, AttemptInv, WaitersKept
<1>2. ASSUME NEW t \in Task, CallStep(t) PROVE BridgeInv'
  BY <1>2, CallKeeps
<1>3. ASSUME NEW t \in Task, Serve(t) PROVE BridgeInv'
  <2>1. /\ request[t] = "sent" /\ executed[t] = 0
        /\ \A u \in Task : request'[u] = IF u = t THEN "answered" ELSE request[u]
        /\ \A u \in Task : executed'[u] = IF u = t THEN 1 ELSE executed[u]
    BY <1>3 DEF Serve, BridgeTypeOK, RequestInv
  <2>2. RequestInv'
    BY <1>3, <2>1 DEF RequestInv, Serve
  <2> QED
    BY <1>3, <2>2 DEF Serve, AttemptInv, WaitersKept, clientVars
<1>4. ASSUME NEW k \in Client, SeeEof(k) PROVE BridgeInv'
  <2>1. \A c \in Client : conn'[c] = IF c = k THEN "eof" ELSE conn[c]
    BY <1>4 DEF SeeEof, BridgeTypeOK
  <2>2. conn[k] = "open" /\ UNCHANGED <<call_at, held, attempts, request, executed>>
    BY <1>4 DEF SeeEof, callVars, socketVars
  <2>3. WaitersKept'
    BY <2>1, <2>2 DEF WaitersKept, BridgeTypeOK
  <2> QED
    BY <2>2, <2>3 DEF RequestInv, AttemptInv
<1>5. CASE Leave
  <2>1. CASE client = NoClient
    BY <1>1, <1>5, <2>1 DEF Leave
  <2>2. CASE client # NoClient
    <3>1. Shut(client) /\ client \in Client /\ call_at' = CancelWaiters(client, {})
      BY <1>5, <2>2 DEF Leave, BridgeTypeOK
    <3>2. UNCHANGED <<held, attempts, request, executed>>
      BY <1>5 DEF Leave
    <3>3. WaitersKept'
      <4>1. \A u \in Task :
               /\ held'[u] = held[u]
               /\ call_at'[u] = IF held[u] = client /\ call_at[u] \in {"ping", "wait"}
                                THEN "cancelled" ELSE call_at[u]
        BY <3>1, <3>2 DEF CancelWaiters
      <4> QED
        BY <3>1, <4>1, ShutKeeps
    <3>4. \A u \in Task : call_at'[u] \in {call_at[u], "cancelled"}
      BY <3>1 DEF CancelWaiters
    <3> QED
      BY <3>2, <3>3, <3>4 DEF RequestInv, AttemptInv, Before, Unsent
  <2> QED
    BY <2>1, <2>2
<1>6. CASE Left \/ RestartsDaemon
  BY <1>1, <1>6 DEF Left, RestartsDaemon, callVars, clientVars, socketVars
<1>7. CASE Crash
  <2>1. \A u \in Task : request'[u] = IF request[u] = "sent" THEN "none" ELSE request[u]
    BY <1>7 DEF Crash
  <2>2. UNCHANGED <<conn, call_at, held, attempts, executed>>
    BY <1>7 DEF Crash, clientVars
  <2> QED
    BY <2>1, <2>2 DEF RequestInv, AttemptInv, WaitersKept
<1>8. CASE UNCHANGED bridgeVars
  BY <1>1, <1>8 DEF bridgeVars, clientVars, socketVars, callVars
<1> QED
  BY <1>2, <1>3, <1>4, <1>5, <1>6, <1>7, <1>8 DEF BridgeNext

LEMMA BridgeTells == BridgeTypeOK /\ BridgeInv => BridgeIsTrue
  BY DEF BridgeInv, RequestInv, BridgeIsTrue, OutcomeIsTrue, Before, Unsent

-----------------------------------------------------------------------------
(* Contacts.                                                                *)

\* A save or deletion that was carried out will start a load.
WillLoad == \E w \in Writer : writers[w].at = "answered"

\* What a load has read, and what is shown, is what the daemon has, until a load starts again.
ShownInv ==
    ~unheard /\ ~WillLoad =>
        /\ load_worker.at = "reads" => load_worker.seen = DOMAIN contacts
        /\ on_top /\ load_worker.at = "none" => rows = DOMAIN contacts /\ ~indicator

BookInv == BookTypeOK /\ ShownInv

LEMMA BookStarts == BookInit => BookInv
<1> SUFFICES ASSUME BookInit PROVE BookInv
  OBVIOUS
<1>1. 0 \in 0..MaxWrites /\ 0 \in 0..MaxMishaps
  BY BookAssumption
<1>2. BookTypeOK
  BY <1>1 DEF BookInit, BookTypeOK, NotLoading, Closed, NoWrite, Note, Hash
<1>3. ShownInv
  BY DEF BookInit, ShownInv, NotLoading
<1> QED
  BY <1>2, <1>3 DEF BookInv

\* A writer that is not told of its answer leaves loads as they are.
LEMMA WriterMoves ==
  ASSUME BookTypeOK, NEW w \in Writer, NEW record, writers' = [writers EXCEPT ![w] = record],
         record.at # "answered", writers[w].at # "answered"
  PROVE  WillLoad' = WillLoad
<1>1. \A v \in Writer : writers'[v] = IF v = w THEN record ELSE writers[v]
  BY DEF BookTypeOK
<1> QED
  BY <1>1 DEF WillLoad

LEMMA BookScreenStep ==
  ASSUME BookInv,
         \/ ScreenShown \/ ScreenHidden \/ LoadAsks \/ LoadEnds \/ ActionAdd \/ CloseForm
         \/ \E p \in Hash : ActionEdit(p)
         \/ \E p \in Friend : Type(p)
  PROVE  BookInv'
<1> USE DEF BookInv
<1>1. CASE ScreenShown
  <2>1. BookTypeOK'
    BY <1>1 DEF ScreenShown, StartLoad, BookTypeOK
  <2>2. ShownInv'
    BY <1>1 DEF ScreenShown, StartLoad, ShownInv
  <2> QED
    BY <2>1, <2>2
<1>2. CASE ScreenHidden
  <2>1. BookTypeOK'
    BY <1>2 DEF ScreenHidden, NotLoading, BookTypeOK
  <2>2. ShownInv'
    BY <1>2 DEF ScreenHidden, NotLoading, ShownInv
  <2> QED
    BY <2>1, <2>2
<1>3. CASE LoadAsks
  <2>1. mishaps' \in 0..MaxMishaps
    BY <1>3, BookAssumption DEF LoadAsks, BookTypeOK
  <2>2. BookTypeOK'
    <3>1. load_worker' \in [at : {"none", "asks", "reads"}, seen : SUBSET Hash]
      BY <1>3 DEF LoadAsks, BookTypeOK
    <3>2. {indicator', unheard'} \subseteq BOOLEAN
      BY <1>3 DEF LoadAsks, BookTypeOK
    <3>3. UNCHANGED <<contacts, on_top, first_load_done, rows, form, writers, writes>>
      BY <1>3 DEF LoadAsks
    <3> QED
      BY <2>1, <3>1, <3>2, <3>3 DEF BookTypeOK
  <2>3. ShownInv'
    BY <1>3 DEF LoadAsks, ShownInv
  <2> QED
    BY <2>2, <2>3
<1>4. CASE LoadEnds
  <2>1. BookTypeOK'
    BY <1>4 DEF LoadEnds, NotLoading, BookTypeOK
  <2>2. WillLoad' = WillLoad
    BY <1>4 DEF LoadEnds, WillLoad
  <2>3. ShownInv'
    BY <1>4, <2>2 DEF LoadEnds, NotLoading, ShownInv
  <2> QED
    BY <2>1, <2>3
<1>5. CASE ActionAdd \/ CloseForm \/ (\E p \in Hash : ActionEdit(p)) \/ (\E p \in Friend : Type(p))
  <2>1. form' \in [peer : Hash \cup {"closed", "new"}, notes : Note]
    <3>0. \A p \in Hash \cup {"closed", "new"}, n \in Note :
             [peer |-> p, notes |-> n] \in [peer : Hash \cup {"closed", "new"}, notes : Note]
      OBVIOUS
    <3>1. CASE ActionAdd \/ CloseForm
      <4>1. form' = [peer |-> "new", notes |-> "empty"] \/ form' = [peer |-> "closed", notes |-> "empty"]
        BY <3>1 DEF ActionAdd, CloseForm, Closed
      <4>2. {"new", "closed"} \subseteq Hash \cup {"closed", "new"} /\ "empty" \in Note
        BY DEF Note
      <4> QED
        BY <3>0, <4>1, <4>2
    <3>2. ASSUME NEW p \in Hash, ActionEdit(p)
          PROVE  form' \in [peer : Hash \cup {"closed", "new"}, notes : Note]
      <4>1. \E n \in Note : form' = [peer |-> p, notes |-> n]
        BY <3>2 DEF ActionEdit, Note
      <4> QED
        BY <3>0, <4>1
    <3>3. ASSUME NEW p \in Friend, Type(p)
          PROVE  form' \in [peer : Hash \cup {"closed", "new"}, notes : Note]
      <4>1. form.peer \in Hash \cup {"closed", "new"} /\ p \in Hash
        BY DEF BookTypeOK, Hash
      <4> QED
        BY <3>3, <4>1 DEF Type, Note
    <3> QED
      BY <1>5, <3>1, <3>2, <3>3
  <2>2. UNCHANGED <<contacts, on_top, load_worker, first_load_done, indicator, rows, writers, writes,
                    mishaps, unheard>>
    BY <1>5 DEF ActionAdd, CloseForm, ActionEdit, Type
  <2>3. BookTypeOK'
    BY <2>1, <2>2 DEF BookTypeOK
  <2>4. ShownInv'
    BY <2>2 DEF ShownInv, WillLoad
  <2> QED
    BY <2>3, <2>4
<1> QED
  BY <1>1, <1>2, <1>3, <1>4, <1>5

\* Saves and deletions: one that has its answer makes WillLoad true until it starts the load.
LEMMA BookWriterStep ==
  ASSUME BookInv, NEW w \in Writer,
         \/ PressSave(w) \/ SaveStarts(w) \/ DaemonWrites(w) \/ WriteReturns(w)
         \/ \E p \in Hash : ActionDeleteContact(w, p)
  PROVE  BookInv'
<1> USE DEF BookInv
<1> DEFINE Record == [does : {"nothing", "save", "delete"}, peer : Hash, notes : Note,
                      at : {"none", "starts", "asks", "answered"}]
<1>0. writers[w] \in Record /\ NoWrite \in Record
  BY DEF BookTypeOK, NoWrite, Hash, Note
<1>1. ASSUME NEW record \in Record, Write(w, record), record.at # "answered" PROVE BookInv'
  <2>1. writes' \in 0..MaxWrites
    BY <1>1, BookAssumption DEF Write, BookTypeOK
  <2>2. BookTypeOK'
    BY <1>1, <2>1 DEF Write, BookTypeOK
  <2>3. WillLoad' = WillLoad
    <3>1. writers[w].at # "answered" /\ writers' = [writers EXCEPT ![w] = record]
      BY <1>1 DEF Write, NoWrite
    <3> QED
      BY <1>1, <3>1, WriterMoves
  <2>4. ShownInv'
    BY <1>1, <2>3 DEF Write, ShownInv
  <2> QED
    BY <2>2, <2>4
<1>2. CASE PressSave(w)
  BY <1>1, <1>2 DEF PressSave, NoWrite, Hash, Note
<1>3. CASE \E p \in Hash : ActionDeleteContact(w, p)
  BY <1>1, <1>3 DEF ActionDeleteContact, NoWrite, Note
<1>4. CASE SaveStarts(w)
  <2>1. PICK record \in Record : writers' = [writers EXCEPT ![w] = record] /\ record.at # "answered"
    <3>1. form.peer \in Hash \cup {"closed", "new"} /\ form.notes \in Note
      BY DEF BookTypeOK
    <3> DEFINE next == IF form.peer \in {"closed", "new"} THEN NoWrite
                       ELSE [writers[w] EXCEPT !.at = "asks", !.peer = form.peer, !.notes = form.notes]
    <3>2. next \in Record /\ next.at # "answered"
      BY <1>0, <3>1 DEF NoWrite
    <3>3. writers' = [writers EXCEPT ![w] = next]
      BY <1>4 DEF SaveStarts, BookTypeOK
    <3> QED
      BY <3>2, <3>3
  <2>2. BookTypeOK'
    BY <1>4, <2>1 DEF SaveStarts, BookTypeOK
  <2>3. WillLoad' = WillLoad
    BY <1>4, <2>1, WriterMoves DEF SaveStarts
  <2>4. ShownInv'
    BY <1>4, <2>3 DEF SaveStarts, ShownInv
  <2> QED
    BY <2>2, <2>4
<1>5. CASE DaemonWrites(w)
  <2>1. writers' = [writers EXCEPT ![w].at = "answered"] \/ (writers' = [writers EXCEPT ![w] = NoWrite] /\ unheard')
    BY <1>5 DEF DaemonWrites
  <2>2. writers' \in [Writer -> Record]
    BY <1>0, <2>1 DEF BookTypeOK
  <2>3. mishaps' \in 0..MaxMishaps
    BY <1>5, BookAssumption DEF DaemonWrites, BookTypeOK
  <2>4. DOMAIN contacts' \subseteq Hash /\ \A p \in DOMAIN contacts' : contacts'[p] \in Note
    <3>1. writers[w].peer \in Hash /\ writers[w].notes \in Note
      BY <1>0
    <3>2. contacts' \in {contacts, Changed(w)}
      BY <1>5 DEF DaemonWrites
    <3> QED
      BY <3>1, <3>2 DEF Changed, BookTypeOK
  <2>5. unheard' \in BOOLEAN
    BY <1>5 DEF DaemonWrites, BookTypeOK
  <2>6. BookTypeOK'
    BY <1>5, <2>2, <2>3, <2>4, <2>5 DEF DaemonWrites, BookTypeOK
  <2>7. unheard' \/ WillLoad'
    BY <2>1 DEF WillLoad, BookTypeOK
  <2> QED
    BY <2>6, <2>7 DEF ShownInv
<1>6. CASE WriteReturns(w)
  <2>1. BookTypeOK'
    BY <1>0, <1>6 DEF WriteReturns, StartLoad, BookTypeOK, Closed, Note
  <2>2. ShownInv'
    BY <1>6 DEF WriteReturns, StartLoad, ShownInv
  <2> QED
    BY <2>1, <2>2
<1> QED
  BY <1>2, <1>3, <1>4, <1>5, <1>6

LEMMA BookStep == ASSUME BookInv, [BookNext]_bookVars PROVE BookInv'
<1>1. CASE UNCHANGED bookVars
  BY <1>1 DEF bookVars, BookInv, BookTypeOK, ShownInv, WillLoad
<1>2. CASE BookNext
  BY <1>2, BookScreenStep, BookWriterStep DEF BookNext
<1> QED
  BY <1>1, <1>2

LEMMA BookShows == BookInv => ContactsAreShown
  BY DEF BookInv, ShownInv, WillLoad, ContactsAreShown, NoWrite

-----------------------------------------------------------------------------
(* The list of conversations, and automatic replies.                        *)

\* One that has deleted loads the list before it ends.
WillReload ==
    \E j \in Job : /\ work[j].job = "delete"
                   /\ \/ work[j].asks = "conversations"
                      \/ work[j].asks = "delete" /\ work[j].heard /\ work[j].ok

Reloads == \E j \in Job : work[j].job = "reload"

\* A worker brings conversations that the daemon has, and results while the search is open.
BringsInv ==
    \A j \in Working(work, Lists) :
        /\ work[j].rows \subseteq inbox
        /\ work[j].asks = "hits" => search_active

Alone(kinds) == \A i, j \in Working(work, kinds) : i = j

\* The list is the daemon's or about to be loaded again; a search runs while its bar is open, and
\* closing the bar loads the list.
ListTrue ==
    /\ BringsInv
    /\ (listing.rows \cup indexed) \subseteq inbox \/ WillReload
    /\ listing.kind = "hits" => search_active \/ Reloads

ListInv == ~overlapped => Alone(Lists) /\ ListTrue

\* A mode that the daemon may have when the user chose c.
Agrees(m, c) == m = c \/ (c = "chatbot" /\ m = "template")

\* A request to read or set the mode has brought what the daemon has by now; one that sets it,
\* what was chosen and what the switch shows.
BringsModeInv ==
    \A j \in Working(work, Replies) :
        /\ work[j].heard => work[j].ok /\ work[j].mode = reply_mode
        /\ work[j].job = "toggle" =>
               Agrees(work[j].mode, chosen) /\ switch = (work[j].mode # "disabled")

\* The daemon replies as was chosen unless a request is about to set that, and the switch that
\* can be seen tells.
ReplyTrue ==
    /\ BringsModeInv
    /\ Working(work, {"toggle"}) = {} => Agrees(reply_mode, chosen)
    /\ open_tab = "mail" /\ front /\ Working(work, Replies) = {} => switch = (reply_mode # "disabled")

ReplyInv == ~unsure /\ open_tab # "ended" => Alone(Replies) /\ ReplyTrue

\* What a worker asks for goes with its kind.
Coherent(w) ==
    /\ w.job = "none" => w = NoWork
    /\ w.job = "toggle" <=> w.asks = "set"
    /\ w.job = "auto" <=> w.asks = "mode"
    /\ w.job = "open" <=> w.asks = "name"
    /\ w.job = "reload" => w.asks = "conversations"
    /\ w.asks = "hits" => w.job = "search"
    /\ w.asks = "delete" => w.job = "delete"
    /\ w.asks = "sync" => w.job = "sync"
    /\ ~w.heard => ~w.ok /\ w.rows = {}

WorkInv == \A j \in Job : Coherent(work[j])

\* Nobody works before the screen is there.
StartInv == open_tab = "none" => ~front /\ \A j \in Job : work[j] = NoWork

\* The key is armed exactly while a first "d" has not been taken back.
ArmedInv == confirm = delete_pending /\ DeletionIsConfirmed

\* What does not depend on how workers overlap, and what does.
MailSound == MailTypeOK /\ WorkInv /\ StartInv /\ ArmedInv
MailInv == MailSound /\ ListInv /\ ReplyInv

Valid(w) == w \in Work /\ Coherent(w)

LEMMA NoWorkIsValid == Valid(NoWork)
  BY DEF Valid, Coherent, NoWork, Asking, Work, Mode, Lists, Replies

\* What the program's workers ask for is one of these.
LEMMA AskingIsValid ==
  /\ Valid(Asking("load", "conversations")) /\ Valid(Asking("reload", "conversations"))
  /\ Valid(Asking("delete", "conversations")) /\ Valid(Asking("sync", "conversations"))
  /\ Valid(Asking("sync", "sync")) /\ Valid(Asking("search", "hits"))
  /\ Valid(Asking("open", "name")) /\ Valid(Asking("auto", "mode"))
  /\ \A p \in Correspondent : Valid([Asking("delete", "nothing") EXCEPT !.peer = p])
  /\ \A m \in Mode : Valid([Asking("toggle", "set") EXCEPT !.mode = m])
<1>1. \A job \in Lists \cup Replies \cup {"open"} :
        \A wanted \in {"nothing", "conversations", "mode", "set", "hits", "delete", "sync", "name"} :
          Asking(job, wanted) \in Work
  BY DEF Asking, Work, Mode
<1>2. {"load", "reload", "delete", "sync", "search", "auto", "toggle"} \subseteq Lists \cup Replies
  BY DEF Lists, Replies
<1>3. \A job, wanted :
         LET w == Asking(job, wanted)
         IN  w.job = job /\ w.asks = wanted /\ ~w.heard /\ ~w.ok /\ w.rows = {}
  BY DEF Asking
<1>4. ASSUME NEW p \in Correspondent
      PROVE  Valid([Asking("delete", "nothing") EXCEPT !.peer = p])
  <2> DEFINE first == Asking("delete", "nothing")
             w == [first EXCEPT !.peer = p]
  <2>1. first \in Work /\ first.job = "delete" /\ first.asks = "nothing" /\ ~first.heard /\ ~first.ok
        /\ first.rows = {}
    BY <1>1, <1>2, <1>3
  <2> HIDE DEF first
  <2>2. w \in Work /\ w.job = "delete" /\ w.asks = "nothing" /\ ~w.heard /\ ~w.ok /\ w.rows = {}
    BY <2>1 DEF Work
  <2> QED
    BY <2>2 DEF Valid, Coherent, first
<1>5. ASSUME NEW m \in Mode
      PROVE  Valid([Asking("toggle", "set") EXCEPT !.mode = m])
  <2> DEFINE first == Asking("toggle", "set")
             w == [first EXCEPT !.mode = m]
  <2>1. first \in Work /\ first.job = "toggle" /\ first.asks = "set" /\ ~first.heard /\ ~first.ok
        /\ first.rows = {}
    BY <1>1, <1>2, <1>3
  <2> HIDE DEF first
  <2>2. w \in Work /\ w.job = "toggle" /\ w.asks = "set" /\ ~w.heard /\ ~w.ok /\ w.rows = {}
    BY <2>1 DEF Work
  <2> QED
    BY <2>2 DEF Valid, Coherent, first
<1>6. /\ Valid(Asking("load", "conversations")) /\ Valid(Asking("reload", "conversations"))
      /\ Valid(Asking("delete", "conversations")) /\ Valid(Asking("sync", "conversations"))
      /\ Valid(Asking("sync", "sync")) /\ Valid(Asking("search", "hits"))
      /\ Valid(Asking("open", "name")) /\ Valid(Asking("auto", "mode"))
  BY <1>1, <1>2, <1>3 DEF Valid, Coherent
<1> QED
  BY <1>4, <1>5, <1>6

\* The steps of one worker.
Updated(j, record) == \A i \in Job : work'[i] = IF i = j THEN record ELSE work[i]

LEMMA BegunIs ==
  ASSUME MailTypeOK, WorkInv, NEW j \in Job, NEW record, Valid(record), work' = Begun(work, j, record)
  PROVE  work' \in [Job -> Work] /\ WorkInv' /\ Updated(j, record)
<1>1. work \in [Job -> Work]
  BY DEF MailTypeOK
<1>2. work' \in [Job -> Work] /\ Updated(j, record)
  BY <1>1 DEF Begun, Valid, Updated
<1> QED
  BY <1>2 DEF WorkInv, Valid, Updated

LEMMA AddedIs ==
  ASSUME MailTypeOK, WorkInv, NEW record, Valid(record), FreeJob(work) # {}, work' = Added(work, record)
  PROVE  /\ work' \in [Job -> Work] /\ WorkInv'
         /\ \E j \in Job : work[j] = NoWork /\ Updated(j, record)
<1> DEFINE j == CHOOSE i \in FreeJob(work) : TRUE
<1>1. j \in FreeJob(work)
  OBVIOUS
<1>2. j \in Job /\ work[j].job = "none"
  BY <1>1 DEF FreeJob, Working
<1>3. work' = Begun(work, j, record)
  BY DEF Added
<1> HIDE DEF j
<1>4. work[j] = NoWork
  BY <1>2 DEF WorkInv, Coherent
<1> QED
  BY <1>2, <1>3, <1>4, BegunIs

LEMMA DeactivatedIs ==
  ASSUME MailTypeOK, WorkInv, work' = Deactivated(work)
  PROVE  /\ work' \in [Job -> Work] /\ WorkInv'
         /\ \A i \in Job : work'[i] = IF work[i].job \in {"load", "auto"} THEN NoWork ELSE work[i]
<1>1. \A i \in Job : work'[i] = IF work[i].job \in {"load", "auto"} THEN NoWork ELSE work[i]
  BY DEF Deactivated, Cancelled
<1>2. work' \in [Job -> Work]
  BY NoWorkIsValid DEF Deactivated, Cancelled, Valid, MailTypeOK
<1>3. WorkInv'
  BY <1>1, NoWorkIsValid DEF WorkInv, Valid
<1> QED
  BY <1>1, <1>2, <1>3

LEMMA TwoAreFree ==
  ASSUME NEW S \in SUBSET Job, Cardinality(S) >= 2
  PROVE  \A a \in S : S \ {a} # {}
<1> SUFFICES ASSUME NEW a \in S PROVE S \ {a} # {}
  OBVIOUS
<1>1. IsFiniteSet(S)
  BY MailAssumption, FS_Subset
<1>2. IsFiniteSet(S \ {a}) /\ Cardinality(S \ {a}) = Cardinality(S) - 1
  BY <1>1, FS_RemoveElement
<1>3. Cardinality(S \ {a}) # 0
  BY <1>1, <1>2, FS_CardinalityType
<1> QED
  BY <1>3, FS_EmptySet

\* The tab's two workers take the place of those before them, or of nobody.
LEMMA ActivatedIs ==
  ASSUME MailTypeOK, WorkInv, Room(work), work' = Activated(work)
  PROVE  /\ work' \in [Job -> Work] /\ WorkInv'
         /\ \E a, b \in Job :
               /\ a # b /\ {work[a].job, work[b].job} \subseteq {"none", "load", "auto"}
               /\ \A i \in Job : work'[i] = IF i = a THEN Asking("load", "conversations")
                                            ELSE IF i = b THEN Asking("auto", "mode")
                                            ELSE IF work[i].job \in {"load", "auto"} THEN NoWork ELSE work[i]
<1> DEFINE left == Cancelled(work, {"load", "auto"})
           a == CHOOSE j \in FreeJob(left) : TRUE
           b == CHOOSE j \in FreeJob(left) \ {a} : TRUE
<1>1. FreeJob(left) \in SUBSET Job /\ Cardinality(FreeJob(left)) >= 2
  BY DEF FreeJob, Working, Room
<1>2. a \in FreeJob(left)
  <2>1. FreeJob(left) # {}
    BY <1>1, FS_EmptySet
  <2> QED
    BY <2>1
<1>3. b \in FreeJob(left) \ {a}
  BY <1>1, <1>2, TwoAreFree
<1>4. work' = Begun(Begun(left, a, Asking("load", "conversations")), b, Asking("auto", "mode"))
  BY DEF Activated
<1> HIDE DEF a, b
<1>5. left \in [Job -> Work]
  BY NoWorkIsValid DEF Cancelled, MailTypeOK, Valid
<1>6. \A i \in Job : left[i] = IF work[i].job \in {"load", "auto"} THEN NoWork ELSE work[i]
  BY DEF Cancelled
<1> HIDE DEF left
<1>7. a \in Job /\ b \in Job /\ a # b
  BY <1>1, <1>2, <1>3
<1>8. {work[a].job, work[b].job} \subseteq {"none", "load", "auto"}
  <2>1. left[a].job = "none" /\ left[b].job = "none"
    BY <1>2, <1>3 DEF FreeJob, Working
  <2> QED
    BY <1>6, <1>7, <2>1
<1>9. \A i \in Job : work'[i] = IF i = a THEN Asking("load", "conversations")
                                ELSE IF i = b THEN Asking("auto", "mode") ELSE left[i]
  BY <1>4, <1>5, <1>7 DEF Begun
<1>10. work' \in [Job -> Work]
  BY <1>4, <1>5, AskingIsValid DEF Begun, Valid
<1>11. WorkInv'
  <2>1. \A i \in Job : Coherent(left[i])
    BY <1>6, NoWorkIsValid DEF WorkInv, Valid
  <2> QED
    BY <1>9, <2>1, AskingIsValid DEF WorkInv, Valid
<1> QED
  BY <1>6, <1>7, <1>8, <1>9, <1>10, <1>11

LEMMA RoomAtStart == ASSUME \A j \in Job : work[j] = NoWork PROVE Room(work)
<1>1. FreeJob(Cancelled(work, {"load", "auto"})) = Job
  BY DEF FreeJob, Working, Cancelled, NoWork, Asking
<1> QED
  BY <1>1, MailAssumption DEF Room

\* The daemon's answer, or that it has none.
LEMMA DaemonIs ==
  ASSUME MailTypeOK, WorkInv, NEW j \in Job, DaemonHandles(j)
  PROVE  /\ work' \in [Job -> Work] /\ WorkInv'
         /\ \A i \in Job \ {j} : work'[i] = work[i]
         /\ work'[j].job = work[j].job /\ work'[j].asks = work[j].asks /\ work'[j].heard
         /\ \/ work'[j].rows = {} /\ UNCHANGED <<inbox, reply_mode>> /\ ~work'[j].ok
            \/ /\ inbox' = IF work[j].asks = "delete" THEN inbox \ {work[j].peer} ELSE inbox
               /\ reply_mode' = IF work[j].asks = "set" THEN work[j].mode ELSE reply_mode
               /\ work'[j].ok /\ work'[j].rows \subseteq inbox'
               /\ work'[j].mode = IF work[j].asks = "mode" THEN reply_mode ELSE work[j].mode
<1>a. work[j].asks # "nothing" /\ ~work[j].heard
  BY DEF DaemonHandles
<1>0. /\ work \in [Job -> Work] /\ work[j] \in Work /\ Coherent(work[j])
      /\ inbox \subseteq Correspondent /\ reply_mode \in Mode
  BY DEF MailTypeOK, WorkInv
<1>b. work[j].job # "none"
  BY <1>a, <1>0 DEF Coherent, NoWork, Asking
<1>1. CASE work' = [work EXCEPT ![j].heard = TRUE] /\ UNCHANGED <<inbox, reply_mode>>
  <2> DEFINE record == [work[j] EXCEPT !.heard = TRUE]
  <2>1. Begun(work, j, record) = work'
    BY <1>1 DEF Begun
  <2>2. /\ record.job = work[j].job /\ record.asks = work[j].asks /\ record.heard = TRUE
        /\ record.ok = work[j].ok /\ record.rows = work[j].rows /\ record \in Work
    BY <1>0 DEF Work
  <2>3. ~work[j].ok /\ work[j].rows = {}
    BY <1>a, <1>0 DEF Coherent
  <2>4. Valid(record)
    BY <1>0, <1>b, <2>2, <2>3 DEF Valid, Coherent
  <2> HIDE DEF record
  <2>5. work' \in [Job -> Work] /\ WorkInv' /\ Updated(j, record)
    BY <2>1, <2>4, BegunIs
  <2> QED
    BY <1>1, <2>2, <2>3, <2>5 DEF Updated
<1>2. CASE /\ inbox' = IF work[j].asks = "delete" THEN inbox \ {work[j].peer} ELSE inbox
           /\ reply_mode' = IF work[j].asks = "set" THEN work[j].mode ELSE reply_mode
           /\ \E rows_ \in CASE work[j].asks = "conversations" -> {inbox}
                             [] work[j].asks = "hits" -> SUBSET inbox
                             [] OTHER -> {{}} :
                work' = [work EXCEPT ![j].heard = TRUE, ![j].ok = TRUE, ![j].rows = rows_,
                                     ![j].mode = IF work[j].asks = "mode" THEN reply_mode ELSE @]
  <2>1. PICK brought : /\ brought \subseteq inbox'
                       /\ work' = [work EXCEPT ![j].heard = TRUE, ![j].ok = TRUE, ![j].rows = brought,
                                     ![j].mode = IF work[j].asks = "mode" THEN reply_mode ELSE @]
    BY <1>2
  <2> DEFINE record == [work[j] EXCEPT !.heard = TRUE, !.ok = TRUE, !.rows = brought,
                                       !.mode = IF work[j].asks = "mode" THEN reply_mode ELSE @]
  <2>2. Begun(work, j, record) = work'
    BY <1>0, <2>1 DEF Begun
  <2>3. brought \subseteq Correspondent
    BY <1>0, <1>2, <2>1
  <2>4. /\ record.job = work[j].job /\ record.asks = work[j].asks /\ record.heard = TRUE
        /\ record.ok = TRUE /\ record.rows = brought /\ record \in Work
        /\ record.mode = IF work[j].asks = "mode" THEN reply_mode ELSE work[j].mode
    BY <1>0, <2>3 DEF Work
  <2>5. Valid(record)
    BY <1>0, <1>b, <2>4 DEF Valid, Coherent
  <2> HIDE DEF record
  <2>6. work' \in [Job -> Work] /\ WorkInv' /\ Updated(j, record)
    BY <2>2, <2>5, BegunIs
  <2> QED
    BY <1>2, <2>1, <2>4, <2>6 DEF Updated
<1> QED
  BY <1>1, <1>2 DEF DaemonHandles

\* The conversation that comes on top takes the tab's workers with it.
LEMMA ResolveIs ==
  ASSUME MailTypeOK, WorkInv, NEW j \in Job, ResolveAndOpen(j)
  PROVE  /\ work' \in [Job -> Work] /\ WorkInv' /\ work'[j] = NoWork
         /\ \/ \A i \in Job \ {j} : work'[i] = work[i]
            \/ /\ ~front'
               /\ \A i \in Job \ {j} : work'[i] = IF work[i].job \in {"load", "auto"} THEN NoWork ELSE work[i]
         /\ front' => front
<1>1. CASE work' = Begun(work, j, NoWork) /\ UNCHANGED front
  BY <1>1, BegunIs, NoWorkIsValid DEF Updated
<1>2. CASE work' = Begun(Deactivated(work), j, NoWork) /\ front' = FALSE
  <2> DEFINE left == Deactivated(work)
  <2>1. \A i \in Job : left[i] = IF work[i].job \in {"load", "auto"} THEN NoWork ELSE work[i]
    BY DEF Deactivated, Cancelled
  <2>2. left \in [Job -> Work]
    BY NoWorkIsValid DEF Deactivated, Cancelled, Valid, MailTypeOK
  <2>3. \A i \in Job : Coherent(left[i])
    BY <2>1, NoWorkIsValid DEF WorkInv, Valid
  <2>4. work' = Begun(left, j, NoWork)
    BY <1>2
  <2> HIDE DEF left
  <2>5. work' \in [Job -> Work] /\ \A i \in Job : work'[i] = IF i = j THEN NoWork ELSE left[i]
    BY <2>2, <2>4, NoWorkIsValid DEF Begun, Valid
  <2>6. WorkInv'
    BY <2>3, <2>5, NoWorkIsValid DEF WorkInv, Valid
  <2> QED
    BY <1>2, <2>1, <2>5, <2>6
<1>3. CASE work' = Begun(work, j, NoWork) /\ front' = FALSE
  BY <1>3, BegunIs, NoWorkIsValid DEF Updated
<1> QED
  BY <1>1, <1>2, <1>3 DEF ResolveAndOpen

\* What a deletion does next, and what a search, a sync or a read of the mode leaves.
LEMMA DeleteIs ==
  ASSUME MailTypeOK, WorkInv, NEW j \in Job, ExecuteDelete(j)
  PROVE  /\ work' \in [Job -> Work] /\ WorkInv'
         /\ \A i \in Job \ {j} : work'[i] = work[i]
         /\ \/ work[j].asks = "nothing" /\ work'[j].rows = work[j].rows /\ work'[j].asks = "delete"
            \/ work[j].asks = "delete" /\ work[j].ok /\ work'[j] = Asking("delete", "conversations")
            \/ work[j].asks = "delete" /\ ~work[j].ok /\ work'[j] = NoWork
<1>1. CASE work[j].asks = "nothing" /\ work' = Begun(work, j, [work[j] EXCEPT !.asks = "delete"])
  <2> DEFINE w == work[j]
             record == [w EXCEPT !.asks = "delete"]
  <2>1. w \in Work /\ Coherent(w) /\ w.job = "delete"
    BY DEF MailTypeOK, WorkInv, ExecuteDelete
  <2>2. /\ record \in Work /\ record.asks = "delete" /\ record.job = "delete"
        /\ record.heard = w.heard /\ record.ok = w.ok /\ record.rows = w.rows
    <3> HIDE DEF w
    <3> QED
      BY <2>1 DEF Work
  <2>3. Valid(record)
    <3> HIDE DEF record, w
    <3> QED
      BY <2>1, <2>2 DEF Valid, Coherent
  <2>4. work' = Begun(work, j, record)
    BY <1>1
  <2> HIDE DEF record
  <2> QED
    BY <1>1, <2>2, <2>3, <2>4, BegunIs DEF Updated
<1>2. CASE /\ work[j].asks = "delete"
           /\ work' = Begun(work, j, IF work[j].ok THEN Asking("delete", "conversations") ELSE NoWork)
  <2>1. CASE work[j].ok
    BY <1>2, <2>1, BegunIs, AskingIsValid DEF Updated
  <2>2. CASE ~work[j].ok
    BY <1>2, <2>2, BegunIs, NoWorkIsValid DEF Updated
  <2> QED
    BY <2>1, <2>2
<1> QED
  BY <1>1, <1>2 DEF ExecuteDelete

LEMMA SyncIs ==
  ASSUME MailTypeOK, WorkInv, NEW j \in Job, ExecuteSync(j)
  PROVE  /\ work' \in [Job -> Work] /\ WorkInv'
         /\ \A i \in Job \ {j} : work'[i] = work[i]
         /\ work'[j] \in {Asking("sync", "conversations"), NoWork}
<1>1. PICK record \in {Asking("sync", "conversations"), NoWork} : work' = Begun(work, j, record)
  BY DEF ExecuteSync
<1> QED
  BY <1>1, BegunIs, AskingIsValid, NoWorkIsValid DEF Updated

LEMMA LoadAutoIs ==
  ASSUME MailTypeOK, WorkInv, NEW j \in Job, LoadAutoReply(j)
  PROVE  /\ work' \in [Job -> Work] /\ WorkInv' /\ switch' \in BOOLEAN
         /\ work[j].job = "auto" /\ work[j].heard
         /\ \A i \in Job \ {j} : work'[i] = work[i]
         /\ work[j].ok => switch' = (work[j].mode # "disabled")
         /\ \/ switch' = switch /\ work'[j] = NoWork
            \/ /\ work'[j].job = "toggle" /\ ~work'[j].heard
               /\ work'[j].mode = IF switch' THEN "template" ELSE "disabled"
<1> DEFINE on == IF work[j].ok THEN work[j].mode # "disabled" ELSE switch
           m == IF on THEN "template" ELSE "disabled"
           first == Asking("toggle", "set")
<1>1. switch' = on /\ on \in BOOLEAN /\ work[j].asks = "mode" /\ work[j].heard
  BY DEF LoadAutoReply, MailTypeOK
<1>2. work[j].job = "auto"
  BY <1>1 DEF WorkInv, Coherent
<1>3. m \in Mode
  BY DEF Mode
<1>4. work' = Begun(work, j, IF on = switch THEN NoWork ELSE [first EXCEPT !.mode = m])
  BY DEF LoadAutoReply
<1>5. CASE on = switch
  <2>1. work' = Begun(work, j, NoWork)
    BY <1>4, <1>5
  <2> QED
    BY <1>1, <1>2, <1>5, <2>1, BegunIs, NoWorkIsValid DEF Updated
<1>6. CASE on # switch
  <2> DEFINE record == [first EXCEPT !.mode = m]
  <2>1. work' = Begun(work, j, record)
    BY <1>4, <1>6
  <2>2. Valid(record)
    BY <1>3, AskingIsValid
  <2>3. record.job = "toggle" /\ ~record.heard /\ record.mode = m
    BY DEF Asking
  <2> HIDE DEF record, m
  <2>4. work' \in [Job -> Work] /\ WorkInv' /\ Updated(j, record)
    BY <2>1, <2>2, BegunIs
  <2> QED
    BY <1>1, <1>2, <2>3, <2>4 DEF Updated, m
<1> QED
  BY <1>5, <1>6

-----------------------------------------------------------------------------
LEMMA OnePress ==
  ASSUME MailTypeOK, presses < MaxPresses, presses' = presses + 1
  PROVE  presses' \in 0..MaxPresses
  BY MailAssumption DEF MailTypeOK

LEMMA ScreenSound ==
  ASSUME MailSound, {overlapped', unsure'} \subseteq BOOLEAN,
         \/ OnMount \/ OnScreenResume \/ OnScreenSuspend \/ \E t \in {"mail", "contacts"} : OnTabActivated(t)
  PROVE  MailSound'
<1> USE DEF MailSound
<1>1. CASE OnMount
  <2>1. work' \in [Job -> Work] /\ WorkInv'
    BY <1>1, ActivatedIs, RoomAtStart DEF OnMount, StartInv
  <2>2. MailTypeOK'
    BY <1>1, <2>1 DEF OnMount, MailTypeOK, userKeeps, deleteVars, listingVars
  <2>3. StartInv' /\ ArmedInv'
    BY <1>1 DEF OnMount, StartInv, ArmedInv, DeletionIsConfirmed, deleteVars
  <2> QED
    BY <2>1, <2>2, <2>3
<1>2. CASE OnScreenResume
  <2>1. work' \in [Job -> Work] /\ WorkInv'
    <3>1. CASE open_tab = "mail"
      BY <1>2, <3>1, ActivatedIs DEF OnScreenResume
    <3>2. CASE open_tab # "mail"
      BY <1>2, <3>2 DEF OnScreenResume, MailTypeOK, WorkInv
    <3> QED
      BY <3>1, <3>2
  <2>2. MailTypeOK'
    BY <1>2, <2>1 DEF OnScreenResume, MailTypeOK, userKeeps, deleteVars, listingVars
  <2>3. StartInv' /\ ArmedInv'
    BY <1>2 DEF OnScreenResume, StartInv, ArmedInv, DeletionIsConfirmed, deleteVars
  <2> QED
    BY <2>1, <2>2, <2>3
<1>3. CASE OnScreenSuspend
  <2>1. work' \in [Job -> Work] /\ WorkInv'
    <3>1. CASE open_tab = "mail"
      BY <1>3, <3>1, DeactivatedIs DEF OnScreenSuspend
    <3>2. CASE open_tab # "mail"
      BY <1>3, <3>2 DEF OnScreenSuspend, MailTypeOK, WorkInv
    <3> QED
      BY <3>1, <3>2
  <2>2. presses' \in 0..MaxPresses
    BY <1>3, OnePress DEF OnScreenSuspend
  <2>3. delete_timer' \in BOOLEAN
    BY <1>3 DEF OnScreenSuspend, MailTypeOK
  <2>4. MailTypeOK'
    BY <1>3, <2>1, <2>2, <2>3 DEF OnScreenSuspend, MailTypeOK, userKeeps, listingVars
  <2>5. StartInv' /\ ArmedInv'
    BY <1>3 DEF OnScreenSuspend, StartInv, ArmedInv, DeletionIsConfirmed
  <2> QED
    BY <2>1, <2>4, <2>5
<1>4. ASSUME NEW t \in {"mail", "contacts"}, OnTabActivated(t) PROVE MailSound'
  <2>1. work' \in [Job -> Work] /\ WorkInv'
    BY <1>4, ActivatedIs, DeactivatedIs DEF OnTabActivated
  <2>2. presses' \in 0..MaxPresses
    BY <1>4, OnePress DEF OnTabActivated
  <2>3. delete_timer' \in BOOLEAN
    BY <1>4 DEF OnTabActivated, MailTypeOK
  <2>4. MailTypeOK'
    BY <1>4, <2>1, <2>2, <2>3 DEF OnTabActivated, MailTypeOK, userKeeps, listingVars
  <2>5. StartInv' /\ ArmedInv'
    BY <1>4 DEF OnTabActivated, StartInv, ArmedInv, DeletionIsConfirmed
  <2> QED
    BY <2>1, <2>4, <2>5
<1> QED
  BY <1>1, <1>2, <1>3, <1>4

\* A worker that has something to do has begun when the screen was there.
LEMMA WorkerIsThere ==
  ASSUME StartInv, NEW j \in Job, work[j].asks # "nothing" \/ work[j].job = "delete"
  PROVE  open_tab # "none"
  BY DEF StartInv, NoWork, Asking

LEMMA DaemonSound ==
  ASSUME MailSound, {overlapped', unsure'} \subseteq BOOLEAN,
         (\E p \in Correspondent : MessageArrives(p)) \/ \E j \in Job : DaemonHandles(j)
  PROVE  MailSound'
<1> USE DEF MailSound
<1>1. ASSUME NEW p \in Correspondent, MessageArrives(p) PROVE MailSound'
  <2>1. letters' \in 0..MaxLetters
    BY <1>1, MailAssumption DEF MessageArrives, MailTypeOK
  <2>2. MailTypeOK'
    BY <1>1, <2>1 DEF MessageArrives, MailTypeOK, deleteVars, listingVars
  <2>3. WorkInv' /\ StartInv' /\ ArmedInv'
    BY <1>1 DEF MessageArrives, WorkInv, StartInv, ArmedInv, DeletionIsConfirmed, deleteVars
  <2> QED
    BY <2>2, <2>3
<1>2. ASSUME NEW j \in Job, DaemonHandles(j) PROVE MailSound'
  <2>1. work' \in [Job -> Work] /\ WorkInv'
    BY <1>2, DaemonIs
  <2>2. UNCHANGED <<open_tab, front, deleteVars, listingVars, search_active, compose_active, presses, letters, chosen>>
    BY <1>2 DEF DaemonHandles
  <2>3. open_tab # "none"
    BY <1>2, WorkerIsThere DEF DaemonHandles
  <2>4. inbox' \subseteq Correspondent /\ reply_mode' \in Mode
    <3>1. inbox' \subseteq inbox \/ inbox' = inbox
      BY <1>2, DaemonIs
    <3>2. work[j].mode \in Mode
      BY DEF MailTypeOK, Work
    <3>3. reply_mode' \in {reply_mode, work[j].mode}
      BY <1>2, DaemonIs
    <3> QED
      BY <3>1, <3>2, <3>3 DEF MailTypeOK
  <2>5. refusals' \in 0..MaxRefusals
    <3>1. refusals' = refusals \/ (refusals < MaxRefusals /\ refusals' = refusals + 1)
      BY <1>2 DEF DaemonHandles
    <3> QED
      BY <3>1, MailAssumption DEF MailTypeOK
  <2>6. MailTypeOK'
    BY <2>1, <2>2, <2>4, <2>5 DEF MailTypeOK, deleteVars, listingVars
  <2>7. StartInv' /\ ArmedInv'
    BY <2>2, <2>3 DEF StartInv, ArmedInv, DeletionIsConfirmed, deleteVars
  <2> QED
    BY <2>1, <2>6, <2>7
<1> QED
  BY <1>1, <1>2

LEMMA ListingIs ==
  ASSUME NEW kind \in {"loading", "threads", "hits"}, NEW shown \in SUBSET Correspondent
  PROVE  [kind |-> kind, rows |-> shown] \in [kind : {"loading", "threads", "hits"}, rows : SUBSET Correspondent]
  OBVIOUS

LEMMA WorkersSound ==
  ASSUME MailSound, {overlapped', unsure'} \subseteq BOOLEAN, NEW j \in Job,
         \/ LoadConversations(j) \/ ExecuteDelete(j) \/ ExecuteSync(j) \/ ExecuteSearch(j)
         \/ LoadAutoReply(j) \/ ToggleAutoReply(j) \/ ResolveAndOpen(j)
  PROVE  MailSound'
<1> USE DEF MailSound
<1>0. open_tab # "none"
  <2>1. work[j].asks # "nothing" \/ work[j].job = "delete"
    BY DEF LoadConversations, ExecuteDelete, ExecuteSync, ExecuteSearch, LoadAutoReply, ToggleAutoReply,
           ResolveAndOpen
  <2> QED
    BY <2>1, WorkerIsThere
<1>1. CASE LoadConversations(j)
  <2>1. work' \in [Job -> Work] /\ WorkInv'
    BY <1>1, BegunIs, NoWorkIsValid DEF LoadConversations
  <2>2. work[j].rows \subseteq Correspondent
    BY DEF MailTypeOK, Work
  <2>3. MailTypeOK'
    BY <1>1, <2>1, <2>2 DEF LoadConversations, MailTypeOK, workerKeeps, deleteVars
  <2>4. StartInv' /\ ArmedInv'
    BY <1>0, <1>1 DEF LoadConversations, workerKeeps, deleteVars, StartInv, ArmedInv, DeletionIsConfirmed
  <2> QED
    BY <2>1, <2>3, <2>4
<1>2. CASE ExecuteDelete(j)
  <2>1. work' \in [Job -> Work] /\ WorkInv'
    BY <1>2, DeleteIs
  <2>2. /\ {delete_pending', confirm'} \subseteq Correspondent \cup {Nobody}
        /\ confirm' = delete_pending'
    BY <1>2 DEF ExecuteDelete, MailTypeOK, ArmedInv
  <2>3. MailTypeOK'
    BY <1>2, <2>1, <2>2 DEF ExecuteDelete, MailTypeOK, workerKeeps, listingVars
  <2>4. StartInv' /\ ArmedInv'
    BY <1>0, <1>2, <2>2 DEF ExecuteDelete, workerKeeps, StartInv, ArmedInv, DeletionIsConfirmed
  <2> QED
    BY <2>1, <2>3, <2>4
<1>3. CASE ExecuteSync(j)
  <2>1. work' \in [Job -> Work] /\ WorkInv'
    BY <1>3, SyncIs
  <2>2. MailTypeOK'
    BY <1>3, <2>1 DEF ExecuteSync, MailTypeOK, workerKeeps, deleteVars, listingVars
  <2>3. StartInv' /\ ArmedInv'
    BY <1>0, <1>3 DEF ExecuteSync, workerKeeps, deleteVars, StartInv, ArmedInv, DeletionIsConfirmed
  <2> QED
    BY <2>1, <2>2, <2>3
<1>4. CASE ExecuteSearch(j)
  <2>1. work' \in [Job -> Work] /\ WorkInv'
    <3>1. CASE work' = Begun(work, j, NoWork)
      BY <3>1, BegunIs, NoWorkIsValid
    <3>2. CASE work' = [k \in Job |-> NoWork]
      BY <3>2, NoWorkIsValid DEF WorkInv, Valid
    <3> QED
      BY <1>4, <3>1, <3>2 DEF ExecuteSearch
  <2>2. work[j].rows \subseteq Correspondent
    BY DEF MailTypeOK, Work
  <2>3. /\ listing' \in [kind : {"loading", "threads", "hits"}, rows : SUBSET Correspondent]
        /\ open_tab' \in {open_tab, "ended"} /\ front' \in BOOLEAN
    <3>1. listing' = listing \/ listing' = [kind |-> "hits", rows |-> work[j].rows]
      BY <1>4 DEF ExecuteSearch
    <3>2. open_tab' \in {open_tab, "ended"} /\ front' \in BOOLEAN
      BY <1>4 DEF ExecuteSearch, MailTypeOK
    <3> QED
      BY <2>2, <3>1, <3>2, ListingIs DEF MailTypeOK
  <2>4. MailTypeOK'
    BY <1>4, <2>1, <2>3 DEF ExecuteSearch, MailTypeOK, deleteVars
  <2>5. StartInv' /\ ArmedInv'
    BY <1>0, <1>4, <2>3 DEF ExecuteSearch, deleteVars, StartInv, ArmedInv, DeletionIsConfirmed
  <2> QED
    BY <2>1, <2>4, <2>5
<1>5. CASE LoadAutoReply(j)
  <2>1. work' \in [Job -> Work] /\ WorkInv' /\ switch' \in BOOLEAN
    BY <1>5, LoadAutoIs
  <2>2. UNCHANGED <<workerKeeps, deleteVars, listing, indexed, front, compose_active>>
    BY <1>5 DEF LoadAutoReply
  <2>3. MailTypeOK'
    BY <2>1, <2>2 DEF MailTypeOK, workerKeeps, deleteVars
  <2>4. StartInv' /\ ArmedInv'
    BY <1>0, <2>2 DEF workerKeeps, deleteVars, StartInv, ArmedInv, DeletionIsConfirmed
  <2> QED
    BY <2>1, <2>3, <2>4
<1>6. CASE ToggleAutoReply(j)
  <2>1. work' \in [Job -> Work] /\ WorkInv'
    BY <1>6, BegunIs, NoWorkIsValid DEF ToggleAutoReply
  <2>2. MailTypeOK'
    BY <1>6, <2>1 DEF ToggleAutoReply, MailTypeOK, workerKeeps, deleteVars, listingVars
  <2>3. StartInv' /\ ArmedInv'
    BY <1>0, <1>6 DEF ToggleAutoReply, workerKeeps, deleteVars, StartInv, ArmedInv, DeletionIsConfirmed
  <2> QED
    BY <2>1, <2>2, <2>3
<1>7. CASE ResolveAndOpen(j)
  <2>1. work' \in [Job -> Work] /\ WorkInv'
    BY <1>7, ResolveIs
  <2>2. UNCHANGED <<workerKeeps, listingVars, delete_pending, confirm, unconfirmed>>
    BY <1>7 DEF ResolveAndOpen
  <2>3. {front', compose_active', delete_timer'} \subseteq BOOLEAN
    BY <1>7 DEF ResolveAndOpen, MailTypeOK
  <2>4. MailTypeOK'
    BY <2>1, <2>2, <2>3 DEF MailTypeOK, workerKeeps, listingVars
  <2>5. StartInv' /\ ArmedInv'
    BY <1>0, <2>2 DEF workerKeeps, StartInv, ArmedInv, DeletionIsConfirmed
  <2> QED
    BY <2>1, <2>4, <2>5
<1> QED
  BY <1>1, <1>2, <1>3, <1>4, <1>5, <1>6, <1>7

\* A key finds the screen, and with it room for a worker.
LEMMA PressedIs ==
  ASSUME MailSound, Pressed
  PROVE  open_tab # "none" /\ front /\ presses' \in 0..MaxPresses /\ FreeJob(work) # {}
  BY OnePress DEF Pressed, MailSound, StartInv

LEMMA UserSound ==
  ASSUME MailSound, {overlapped', unsure'} \subseteq BOOLEAN,
         \/ CancelDeletePending \/ \E p \in Correspondent : ActionDelete(p)
         \/ OpenSearch \/ CloseSearch \/ OpenCompose \/ OnInputSubmitted \/ ActionSync \/ ActionCycleSort
         \/ OnSwitchChanged
  PROVE  MailSound'
<1>1. CASE CancelDeletePending
  <2>1. MailTypeOK'
    BY <1>1 DEF CancelDeletePending, MailSound, MailTypeOK, userKeeps, listingVars
  <2>2. WorkInv' /\ StartInv' /\ ArmedInv'
    BY <1>1 DEF CancelDeletePending, MailSound, WorkInv, StartInv, ArmedInv, DeletionIsConfirmed
  <2> QED
    BY <2>1, <2>2 DEF MailSound
<1>2. ASSUME NEW p \in Correspondent, ActionDelete(p) PROVE MailSound'
  <2>1. open_tab # "none" /\ presses' \in 0..MaxPresses /\ FreeJob(work) # {}
    BY <1>2, PressedIs DEF ActionDelete
  <2>2. UNCHANGED <<userKeeps, listingVars, search_active, compose_active, open_tab, front>>
    BY <1>2 DEF ActionDelete
  <2>3. CASE delete_pending = p
    <3>1. work' = Added(work, [Asking("delete", "nothing") EXCEPT !.peer = p]) /\ delete_timer' = FALSE
      BY <1>2, <2>3 DEF ActionDelete
    <3>2. work' \in [Job -> Work] /\ WorkInv'
      BY <2>1, <3>1, AddedIs, AskingIsValid DEF MailSound
    <3>3. unconfirmed' = {} /\ UNCHANGED <<delete_pending, confirm>>
      BY <1>2, <2>3 DEF ActionDelete, MailSound, ArmedInv, DeletionIsConfirmed
    <3>4. MailTypeOK'
      BY <2>1, <2>2, <3>1, <3>2, <3>3 DEF MailSound, MailTypeOK, userKeeps, listingVars
    <3>5. StartInv' /\ ArmedInv'
      BY <2>1, <2>2, <3>3 DEF MailSound, StartInv, ArmedInv, DeletionIsConfirmed
    <3> QED
      BY <3>2, <3>4, <3>5 DEF MailSound
  <2>4. CASE delete_pending # p
    <3>1. delete_pending' = p /\ confirm' = p /\ delete_timer' = TRUE /\ UNCHANGED <<work, unconfirmed>>
      BY <1>2, <2>4 DEF ActionDelete
    <3>2. MailTypeOK'
      BY <2>1, <2>2, <3>1 DEF MailSound, MailTypeOK, userKeeps, listingVars
    <3>3. WorkInv' /\ StartInv' /\ ArmedInv'
      BY <2>1, <2>2, <3>1 DEF MailSound, WorkInv, StartInv, ArmedInv, DeletionIsConfirmed
    <3> QED
      BY <3>2, <3>3 DEF MailSound
  <2> QED
    BY <2>3, <2>4
<1>3. CASE OpenSearch \/ OpenCompose \/ ActionCycleSort
  <2>1. open_tab # "none" /\ presses' \in 0..MaxPresses
    BY <1>3, PressedIs DEF OpenSearch, OpenCompose, ActionCycleSort
  <2>2. UNCHANGED <<userKeeps, deleteVars, indexed, switch, open_tab, front, work>>
    BY <1>3 DEF OpenSearch, OpenCompose, ActionCycleSort, listingVars
  <2>3. /\ {search_active', compose_active'} \subseteq BOOLEAN
        /\ listing' \in [kind : {"loading", "threads", "hits"}, rows : SUBSET Correspondent]
    <3>1. listing' = listing \/ listing' = [kind |-> "threads", rows |-> indexed]
      BY <1>3 DEF OpenSearch, OpenCompose, ActionCycleSort, listingVars
    <3>2. {search_active', compose_active'} \subseteq BOOLEAN
      BY <1>3 DEF OpenSearch, OpenCompose, ActionCycleSort, MailSound, MailTypeOK
    <3>3. /\ indexed \in SUBSET Correspondent
          /\ listing \in [kind : {"loading", "threads", "hits"}, rows : SUBSET Correspondent]
      BY DEF MailSound, MailTypeOK
    <3> QED
      BY <3>1, <3>2, <3>3, ListingIs
  <2>4. MailTypeOK'
    BY <2>1, <2>2, <2>3 DEF MailSound, MailTypeOK, userKeeps, deleteVars
  <2>5. WorkInv' /\ StartInv' /\ ArmedInv'
    BY <2>1, <2>2 DEF MailSound, WorkInv, StartInv, ArmedInv, DeletionIsConfirmed, deleteVars
  <2> QED
    BY <2>4, <2>5 DEF MailSound
<1>4. CASE CloseSearch \/ OnInputSubmitted \/ ActionSync
  <2>1. open_tab # "none" /\ presses' \in 0..MaxPresses /\ FreeJob(work) # {}
    BY <1>4, PressedIs DEF CloseSearch, OnInputSubmitted, ActionSync
  <2>2. UNCHANGED <<userKeeps, deleteVars, listingVars, compose_active, open_tab, front>>
    BY <1>4 DEF CloseSearch, OnInputSubmitted, ActionSync
  <2>3. search_active' \in BOOLEAN
    BY <1>4 DEF CloseSearch, OnInputSubmitted, ActionSync, MailSound, MailTypeOK
  <2>4. \E record : Valid(record) /\ work' = Added(work, record)
    BY <1>4, AskingIsValid DEF CloseSearch, OnInputSubmitted, ActionSync
  <2>5. work' \in [Job -> Work] /\ WorkInv'
    BY <2>1, <2>4, AddedIs DEF MailSound
  <2>6. MailTypeOK'
    BY <2>1, <2>2, <2>3, <2>5 DEF MailSound, MailTypeOK, userKeeps, deleteVars, listingVars
  <2>7. StartInv' /\ ArmedInv'
    BY <2>1, <2>2 DEF MailSound, StartInv, ArmedInv, DeletionIsConfirmed, deleteVars
  <2> QED
    BY <2>5, <2>6, <2>7 DEF MailSound
<1>5. CASE OnSwitchChanged
  <2>1. open_tab # "none" /\ presses' \in 0..MaxPresses /\ FreeJob(work) # {}
    BY <1>5, PressedIs DEF OnSwitchChanged
  <2>2. PICK m \in Mode : work' = Added(work, [Asking("toggle", "set") EXCEPT !.mode = m]) /\ chosen' = m
    BY <1>5 DEF OnSwitchChanged, Mode
  <2>3. work' \in [Job -> Work] /\ WorkInv'
    BY <2>1, <2>2, AddedIs, AskingIsValid DEF MailSound
  <2>4. /\ UNCHANGED <<inbox, reply_mode, letters, refusals, deleteVars, listing, indexed, search_active,
                       compose_active, open_tab, front>>
        /\ switch' \in BOOLEAN
    BY <1>5 DEF OnSwitchChanged, MailSound, MailTypeOK
  <2>5. MailTypeOK'
    BY <2>1, <2>2, <2>3, <2>4 DEF MailSound, MailTypeOK, deleteVars
  <2>6. StartInv' /\ ArmedInv'
    BY <2>1, <2>4 DEF MailSound, StartInv, ArmedInv, DeletionIsConfirmed, deleteVars
  <2> QED
    BY <2>3, <2>5, <2>6 DEF MailSound
<1> QED
  BY <1>1, <1>2, <1>3, <1>4, <1>5

LEMMA SoundStep == ASSUME MailSound, MailNext PROVE MailSound'
<1>1. {overlapped', unsure'} \subseteq BOOLEAN
  BY DEF MailNext, MailSound, MailTypeOK
<1> QED
  BY <1>1, ScreenSound, DaemonSound, WorkersSound, UserSound DEF MailNext, MailStep

-----------------------------------------------------------------------------
(* The list.                                                                *)

\* Fewer than two workers are one at most.
LEMMA OneAtMost ==
  ASSUME NEW S \in SUBSET Job, ~(Cardinality(S) > 1)
  PROVE  \A i, j \in S : i = j
<1> SUFFICES ASSUME NEW i \in S, NEW j \in S, i # j PROVE FALSE
  OBVIOUS
<1>1. IsFiniteSet(S)
  BY MailAssumption, FS_Subset
<1>2. IsFiniteSet(S \ {i}) /\ Cardinality(S \ {i}) = Cardinality(S) - 1
  BY <1>1, FS_RemoveElement
<1>3. Cardinality(S \ {i}) = 0
  BY <1>1, <1>2, FS_CardinalityType, FS_EmptySet
<1> QED
  BY <1>2, <1>3, FS_EmptySet

\* What leaves what the list is made of alone, and adds no worker but one that has still to ask.
LEMMA ListKept ==
  ASSUME ListTrue, inbox \subseteq inbox', UNCHANGED <<listing, indexed>>, search_active => search_active',
         \A i \in Job : work'[i].job \in Lists =>
            \/ work'[i] = work[i]
            \/ work'[i].rows = {} /\ (work'[i].asks = "hits" => search_active'),
         \A i \in Job : work[i].job \in {"delete", "reload"} => work'[i] = work[i]
  PROVE  ListTrue'
<1>1. BringsInv'
  BY DEF ListTrue, BringsInv, Working
<1>2. WillReload => WillReload'
  BY DEF WillReload
<1>3. Reloads => Reloads'
  BY DEF Reloads
<1> QED
  BY <1>1, <1>2, <1>3 DEF ListTrue

\* The conditions of ListKept in a step of one worker that begins, ends or asks again.
LEMMA ListKeptByOne ==
  ASSUME ListTrue, inbox \subseteq inbox', UNCHANGED <<listing, indexed>>, search_active => search_active',
         NEW j \in Job, \A i \in Job \ {j} : work'[i] = work[i],
         work[j].job \notin {"delete", "reload"},
         work'[j].rows = {} /\ (work'[j].asks = "hits" => search_active')
  PROVE  ListTrue'
  BY ListKept

LEMMA ListScreenStep ==
  ASSUME MailSound, ListTrue,
         \/ OnMount \/ OnScreenResume \/ OnScreenSuspend \/ \E t \in {"mail", "contacts"} : OnTabActivated(t)
  PROVE  ListTrue'
<1>1. UNCHANGED <<inbox, listing, indexed, search_active>>
  BY DEF OnMount, OnScreenResume, OnScreenSuspend, OnTabActivated, userKeeps, listingVars
<1>2. (Room(work) /\ work' = Activated(work)) \/ work' = Deactivated(work) \/ UNCHANGED work
  BY RoomAtStart DEF OnMount, OnScreenResume, OnScreenSuspend, OnTabActivated, MailSound, StartInv
<1>3. CASE Room(work) /\ work' = Activated(work)
  <2>1. PICK a, b \in Job :
           /\ a # b /\ {work[a].job, work[b].job} \subseteq {"none", "load", "auto"}
           /\ \A i \in Job : work'[i] = IF i = a THEN Asking("load", "conversations")
                                        ELSE IF i = b THEN Asking("auto", "mode")
                                        ELSE IF work[i].job \in {"load", "auto"} THEN NoWork ELSE work[i]
    BY <1>3, ActivatedIs DEF MailSound
  <2>2. \A i \in Job : work[i].job \in {"delete", "reload"} => work'[i] = work[i]
    BY <2>1
  <2>3. \A i \in Job : work'[i] = work[i] \/ (work'[i].rows = {} /\ work'[i].asks # "hits")
    BY <2>1 DEF Asking, NoWork
  <2> QED
    BY <1>1, <2>2, <2>3, ListKept
<1>4. CASE work' = Deactivated(work)
  <2>1. \A i \in Job : work'[i] = IF work[i].job \in {"load", "auto"} THEN NoWork ELSE work[i]
    BY <1>4, DeactivatedIs DEF MailSound
  <2>2. \A i \in Job : work'[i] = work[i] \/ (work'[i].rows = {} /\ work'[i].asks # "hits")
    BY <2>1 DEF Asking, NoWork
  <2> QED
    BY <1>1, <2>1, <2>2, ListKept
<1>5. CASE UNCHANGED work
  BY <1>1, <1>5, ListKept
<1> QED
  BY <1>2, <1>3, <1>4, <1>5

LEMMA ListDaemonStep ==
  ASSUME MailSound, Alone(Lists), ListTrue,
         (\E p \in Correspondent : MessageArrives(p)) \/ \E j \in Job : DaemonHandles(j)
  PROVE  ListTrue'
<1>1. ASSUME NEW p \in Correspondent, MessageArrives(p) PROVE ListTrue'
  <2>1. inbox \subseteq inbox' /\ UNCHANGED <<listing, indexed, search_active, work>>
    BY <1>1 DEF MessageArrives, listingVars
  <2> QED
    BY <2>1, ListKept
<1>2. ASSUME NEW j \in Job, DaemonHandles(j) PROVE ListTrue'
  <2>1. UNCHANGED <<listing, indexed, search_active>>
    BY <1>2 DEF DaemonHandles, listingVars
  <2>2. /\ \A i \in Job \ {j} : work'[i] = work[i]
        /\ work'[j].job = work[j].job /\ work'[j].asks = work[j].asks /\ work'[j].heard
        /\ \/ work'[j].rows = {} /\ UNCHANGED inbox
           \/ /\ inbox' = IF work[j].asks = "delete" THEN inbox \ {work[j].peer} ELSE inbox
              /\ work'[j].ok /\ work'[j].rows \subseteq inbox'
    BY <1>2, DaemonIs DEF MailSound
  <2>3. Coherent(work[j]) /\ ~work[j].heard
    BY <1>2 DEF MailSound, WorkInv, DaemonHandles
  <2>4. inbox' = inbox \/ (work[j].asks = "delete" /\ work[j].job = "delete" /\ work'[j].ok)
    BY <2>2, <2>3 DEF Coherent
  <2>5. BringsInv'
    <3> SUFFICES ASSUME NEW i \in Job, work'[i].job \in Lists
        PROVE  work'[i].rows \subseteq inbox' /\ (work'[i].asks = "hits" => search_active')
      BY DEF BringsInv, Working
    <3>1. CASE i = j
      BY <2>1, <2>2, <3>1 DEF ListTrue, BringsInv, Working
    <3>2. CASE i # j
      <4>1. work'[i] = work[i] /\ i \in Working(work, Lists)
        BY <2>2, <3>2 DEF Working
      <4>2. inbox' = inbox
        <5>1. work[j].job = "delete" => j \in Working(work, Lists)
          BY DEF Working, Lists
        <5> QED
          BY <2>4, <3>2, <4>1, <5>1 DEF Alone
      <4> QED
        BY <2>1, <4>1, <4>2 DEF ListTrue, BringsInv
    <3> QED
      BY <3>1, <3>2
  <2>6. WillReload => WillReload'
    BY <2>2, <2>3 DEF WillReload
  <2>7. (listing'.rows \cup indexed') \subseteq inbox' \/ WillReload'
    <3>1. CASE inbox' = inbox
      BY <2>1, <2>6, <3>1 DEF ListTrue
    <3>2. CASE work[j].asks = "delete" /\ work[j].job = "delete" /\ work'[j].ok
      BY <2>2, <3>2 DEF WillReload
    <3> QED
      BY <2>4, <3>1, <3>2
  <2>8. Reloads => Reloads'
    BY <2>2 DEF Reloads
  <2> QED
    BY <2>1, <2>5, <2>7, <2>8 DEF ListTrue
<1> QED
  BY <1>1, <1>2

LEMMA ListWorkersStep ==
  ASSUME MailSound, Alone(Lists), ListTrue, NEW j \in Job,
         \/ LoadConversations(j) \/ ExecuteDelete(j) \/ ExecuteSync(j) \/ ExecuteSearch(j)
         \/ LoadAutoReply(j) \/ ToggleAutoReply(j) \/ ResolveAndOpen(j)
  PROVE  ListTrue'
<1>0. Coherent(work[j]) /\ Asking("delete", "conversations").rows = {} /\ NoWork.rows = {}
      /\ NoWork.asks = "nothing" /\ NoWork.job = "none"
  BY DEF MailSound, WorkInv, Asking, NoWork
<1>1. CASE LoadConversations(j)
  <2>1. \A i \in Job : work'[i] = IF i = j THEN NoWork ELSE work[i]
    BY <1>1, BegunIs, NoWorkIsValid DEF LoadConversations, MailSound, Updated
  <2>2. j \in Working(work, Lists)
    BY <1>1 DEF LoadConversations, Working
  <2>3. UNCHANGED <<inbox, search_active>> /\ listing'.rows = work[j].rows /\ listing'.kind = "threads"
        /\ indexed' = work[j].rows
    BY <1>1 DEF LoadConversations, workerKeeps
  <2>4. work[j].rows \subseteq inbox
    BY <2>2 DEF ListTrue, BringsInv
  <2>5. BringsInv'
    BY <1>0, <2>1, <2>3 DEF ListTrue, BringsInv, Working, Lists
  <2> QED
    BY <2>3, <2>4, <2>5 DEF ListTrue
<1>2. CASE ExecuteDelete(j)
  <2>1. /\ \A i \in Job \ {j} : work'[i] = work[i]
        /\ \/ work[j].asks = "nothing" /\ work'[j].rows = work[j].rows /\ work'[j].asks = "delete"
           \/ work[j].asks = "delete" /\ work[j].ok /\ work'[j] = Asking("delete", "conversations")
           \/ work[j].asks = "delete" /\ ~work[j].ok /\ work'[j] = NoWork
    BY <1>2, DeleteIs DEF MailSound
  <2>2. UNCHANGED <<inbox, listing, indexed, search_active>> /\ work[j].job = "delete"
    BY <1>2 DEF ExecuteDelete, workerKeeps, listingVars
  <2>3. j \in Working(work, Lists)
    BY <2>2 DEF Working, Lists
  <2>4. Asking("delete", "conversations").asks = "conversations" /\ Asking("delete", "conversations").job = "delete"
    BY DEF Asking
  <2>5. BringsInv'
    BY <1>0, <2>1, <2>2, <2>3, <2>4 DEF ListTrue, BringsInv, Working
  <2>6. WillReload => WillReload'
    BY <2>1, <2>4 DEF WillReload
  <2>7. Reloads => Reloads'
    BY <2>1, <2>2 DEF Reloads
  <2> QED
    BY <2>2, <2>5, <2>6, <2>7 DEF ListTrue
<1>3. CASE ExecuteSync(j)
  <2>1. /\ \A i \in Job \ {j} : work'[i] = work[i]
        /\ work'[j] \in {Asking("sync", "conversations"), NoWork}
    BY <1>3, SyncIs DEF MailSound
  <2>2. UNCHANGED <<inbox, listing, indexed, search_active>> /\ work[j].job = "sync"
    BY <1>0, <1>3 DEF ExecuteSync, workerKeeps, listingVars, Coherent
  <2>3. work'[j].rows = {} /\ work'[j].asks # "hits"
    BY <2>1 DEF Asking, NoWork
  <2> QED
    BY <2>1, <2>2, <2>3, ListKeptByOne
<1>4. CASE ExecuteSearch(j)
  <2>1. j \in Working(work, Lists) /\ work[j].job = "search" /\ work[j].asks = "hits"
    BY <1>0, <1>4 DEF ExecuteSearch, Coherent, Working, Lists
  <2>2. ~WillReload /\ ~Reloads
    BY <2>1 DEF WillReload, Reloads, Alone, Working, Lists
  <2>3. work[j].rows \subseteq inbox /\ search_active /\ (listing.rows \cup indexed) \subseteq inbox
    BY <2>1, <2>2 DEF ListTrue, BringsInv
  <2>4. UNCHANGED <<inbox, search_active, indexed>>
    BY <1>4 DEF ExecuteSearch
  <2>5. listing'.rows \subseteq inbox
    <3>1. listing' = listing \/ listing' = [kind |-> "hits", rows |-> work[j].rows]
      BY <1>4 DEF ExecuteSearch
    <3> QED
      BY <2>3, <3>1
  <2>6. \A i \in Job : work'[i] \in {work[i], NoWork}
    BY <1>4 DEF ExecuteSearch, Begun, MailSound, MailTypeOK
  <2>7. BringsInv'
    BY <1>0, <2>4, <2>6 DEF ListTrue, BringsInv, Working
  <2> QED
    BY <2>3, <2>4, <2>5, <2>7 DEF ListTrue
<1>5. CASE LoadAutoReply(j)
  <2>1. /\ \A i \in Job \ {j} : work'[i] = work[i]
        /\ work[j].job = "auto" /\ WorkInv' /\ (work'[j] = NoWork \/ work'[j].job = "toggle")
    BY <1>5, LoadAutoIs DEF MailSound
  <2>2. UNCHANGED <<inbox, listing, indexed, search_active>>
    BY <1>5 DEF LoadAutoReply, workerKeeps
  <2>3. work'[j].job \notin Lists
    BY <1>0, <2>1 DEF Lists
  <2>4. /\ \A i \in Job : work'[i].job \in Lists => work'[i] = work[i]
        /\ \A i \in Job : work[i].job \in {"delete", "reload"} => work'[i] = work[i]
    BY <2>1, <2>3
  <2> QED
    BY <2>2, <2>4, ListKept
<1>6. CASE ToggleAutoReply(j)
  <2>1. \A i \in Job : work'[i] = IF i = j THEN NoWork ELSE work[i]
    BY <1>6, BegunIs, NoWorkIsValid DEF ToggleAutoReply, MailSound, Updated
  <2>2. UNCHANGED <<inbox, listing, indexed, search_active>> /\ work[j].job = "toggle"
    BY <1>0, <1>6 DEF ToggleAutoReply, workerKeeps, listingVars, Coherent
  <2> QED
    BY <1>0, <2>1, <2>2, ListKeptByOne
<1>7. CASE ResolveAndOpen(j)
  <2>1. /\ work'[j] = NoWork
        /\ \/ \A i \in Job \ {j} : work'[i] = work[i]
           \/ \A i \in Job \ {j} : work'[i] = IF work[i].job \in {"load", "auto"} THEN NoWork ELSE work[i]
    BY <1>7, ResolveIs DEF MailSound
  <2>2. UNCHANGED <<inbox, listing, indexed, search_active>> /\ work[j].job = "open"
    BY <1>0, <1>7 DEF ResolveAndOpen, workerKeeps, listingVars, Coherent
  <2>3. /\ \A i \in Job : work'[i] = work[i] \/ work'[i] = NoWork
        /\ \A i \in Job : work[i].job \in {"delete", "reload"} => work'[i] = work[i]
    BY <2>1, <2>2
  <2> QED
    BY <1>0, <2>2, <2>3, ListKept
<1> QED
  BY <1>1, <1>2, <1>3, <1>4, <1>5, <1>6, <1>7

LEMMA ListUserStep ==
  ASSUME MailSound, ListTrue, Alone(Lists)',
         \/ CancelDeletePending \/ \E p \in Correspondent : ActionDelete(p)
         \/ OpenSearch \/ CloseSearch \/ OpenCompose \/ OnInputSubmitted \/ ActionSync \/ ActionCycleSort
         \/ OnSwitchChanged
  PROVE  ListTrue'
<1>1. ASSUME NEW record, Valid(record), FreeJob(work) # {}, work' = Added(work, record), record.rows = {},
             record.asks = "hits" => search_active',
             UNCHANGED <<inbox, listing, indexed, search_active>>
      PROVE  ListTrue'
  <2>1. PICK j \in Job : work[j] = NoWork /\ Updated(j, record)
    BY <1>1, AddedIs DEF MailSound
  <2>2. work[j].job \notin {"delete", "reload"}
    BY <2>1 DEF NoWork, Asking
  <2> QED
    BY <1>1, <2>1, <2>2, ListKeptByOne DEF Updated
<1>2. CASE CancelDeletePending \/ OpenSearch \/ OpenCompose
  <2>1. UNCHANGED <<inbox, listing, indexed, work>> /\ (search_active => search_active')
    BY <1>2 DEF CancelDeletePending, OpenSearch, OpenCompose, userKeeps, listingVars
  <2> QED
    BY <2>1, ListKept
<1>3. ASSUME NEW p \in Correspondent, ActionDelete(p) PROVE ListTrue'
  <2>1. UNCHANGED <<inbox, listing, indexed, search_active>>
    BY <1>3 DEF ActionDelete, userKeeps, listingVars
  <2>2. CASE UNCHANGED work
    BY <2>1, <2>2, ListKept
  <2>3. CASE work' = Added(work, [Asking("delete", "nothing") EXCEPT !.peer = p])
    <3> DEFINE record == [Asking("delete", "nothing") EXCEPT !.peer = p]
    <3>1. record.rows = {} /\ record.asks = "nothing"
      BY DEF Asking
    <3>2. Valid(record)
      BY AskingIsValid
    <3>3. FreeJob(work) # {}
      BY <1>3 DEF ActionDelete, Pressed
    <3>4. work' = Added(work, record)
      BY <2>3
    <3> HIDE DEF record
    <3> QED
      BY <1>1, <2>1, <3>1, <3>2, <3>3, <3>4
  <2> QED
    BY <1>3, <2>2, <2>3 DEF ActionDelete
<1>4. CASE OnInputSubmitted \/ ActionSync
  <2>1. UNCHANGED <<inbox, listing, indexed, search_active>> /\ FreeJob(work) # {}
    BY <1>4 DEF OnInputSubmitted, ActionSync, userKeeps, listingVars, Pressed
  <2>2. PICK record \in {Asking("search", "hits"), Asking("open", "name"), Asking("sync", "sync")} :
          work' = Added(work, record) /\ (record = Asking("search", "hits") => search_active)
    BY <1>4 DEF OnInputSubmitted, ActionSync, Asking
  <2>3. Valid(record)
    BY <2>2, AskingIsValid
  <2>4. record.rows = {} /\ (record.asks = "hits" => search_active)
    BY <2>2 DEF Asking
  <2> QED
    BY <1>1, <2>1, <2>2, <2>3, <2>4
<1>5. CASE OnSwitchChanged
  <2>1. UNCHANGED <<inbox, listing, indexed, search_active>> /\ FreeJob(work) # {}
    BY <1>5 DEF OnSwitchChanged, Pressed
  <2>2. PICK m \in Mode : work' = Added(work, [Asking("toggle", "set") EXCEPT !.mode = m])
    BY <1>5 DEF OnSwitchChanged, Mode
  <2> DEFINE record == [Asking("toggle", "set") EXCEPT !.mode = m]
  <2>3. record.rows = {} /\ record.asks = "set"
    BY DEF Asking
  <2>4. Valid(record) /\ work' = Added(work, record)
    BY <2>2, AskingIsValid
  <2> HIDE DEF record
  <2> QED
    BY <1>1, <2>1, <2>3, <2>4
<1>6. CASE ActionCycleSort
  <2>1. UNCHANGED <<inbox, indexed, search_active, work>> /\ listing' = [kind |-> "threads", rows |-> indexed]
    BY <1>6 DEF ActionCycleSort, userKeeps
  <2>2. BringsInv' /\ (WillReload => WillReload')
    BY <2>1 DEF ListTrue, BringsInv, Working, WillReload
  <2> QED
    BY <2>1, <2>2 DEF ListTrue
<1>7. CASE CloseSearch
  <2>1. UNCHANGED <<inbox, listing, indexed>> /\ FreeJob(work) # {} /\ work' = Added(work, Asking("reload", "conversations"))
    BY <1>7 DEF CloseSearch, userKeeps, listingVars, Pressed
  <2>2. PICK j \in Job : work[j] = NoWork /\ Updated(j, Asking("reload", "conversations"))
    BY <2>1, AddedIs, AskingIsValid DEF MailSound
  <2>3. /\ work'[j].job = "reload" /\ work'[j].rows = {} /\ work'[j].asks = "conversations"
        /\ \A i \in Job \ {j} : work'[i] = work[i]
        /\ work[j].job = "none"
    BY <2>2 DEF Updated, Asking, NoWork
  <2>4. \A i \in Working(work', Lists) : i = j
    <3>1. j \in Working(work', Lists)
      BY <2>3 DEF Working, Lists
    <3> QED
      BY <3>1 DEF Alone
  <2>5. BringsInv'
    BY <2>3, <2>4 DEF BringsInv
  <2>6. WillReload => WillReload'
    BY <2>3 DEF WillReload
  <2>7. Reloads'
    BY <2>3 DEF Reloads
  <2> QED
    BY <2>1, <2>5, <2>6, <2>7 DEF ListTrue
<1> QED
  BY <1>2, <1>3, <1>4, <1>5, <1>6, <1>7

LEMMA ListStep == ASSUME MailSound, ListInv, MailNext PROVE ListInv'
<1> SUFFICES ASSUME ~overlapped' PROVE Alone(Lists)' /\ ListTrue'
  BY DEF ListInv
<1>1. ~overlapped /\ ~(Cardinality(Working(work', Lists)) > 1)
  BY DEF MailNext
<1>2. Alone(Lists)'
  BY <1>1, OneAtMost DEF Alone, Working
<1>3. Alone(Lists) /\ ListTrue
  BY <1>1 DEF ListInv
<1> QED
  BY <1>2, <1>3, ListScreenStep, ListDaemonStep, ListWorkersStep, ListUserStep DEF MailNext, MailStep

-----------------------------------------------------------------------------
(* Automatic replies.                                                       *)

\* What leaves the modes and the switch alone, ends no request that sets the mode and begins none,
\* and shows the switch only with a request to read the mode.
LEMMA ReplyKept ==
  ASSUME ReplyTrue, UNCHANGED <<reply_mode, chosen, switch>>,
         \A i \in Job : work[i].job = "toggle" => work'[i] = work[i],
         \A i \in Job : work'[i].job \in Replies =>
            work'[i] = work[i] \/ (work'[i].job = "auto" /\ ~work'[i].heard),
         open_tab' = "mail" /\ front' /\ Working(work', Replies) = {} =>
            open_tab = "mail" /\ front /\ Working(work, Replies) = {}
  PROVE  ReplyTrue'
<1>1. BringsModeInv'
  BY DEF ReplyTrue, BringsModeInv, Working
<1>2. Working(work', {"toggle"}) = {} => Working(work, {"toggle"}) = {}
  BY DEF Working
<1> QED
  BY <1>1, <1>2 DEF ReplyTrue

\* The steps of the workers for other things.
LEMMA ReplyKeptByOthers ==
  ASSUME ReplyTrue, UNCHANGED <<reply_mode, chosen, switch, open_tab, front>>,
         \A i \in Job : work[i].job \in Replies \/ work'[i].job \in Replies => work'[i] = work[i]
  PROVE  ReplyTrue'
<1>1. \A i \in Job : work[i].job = "toggle" => work'[i] = work[i]
  BY DEF Replies
<1>2. Working(work', Replies) = {} => Working(work, Replies) = {}
  BY DEF Working
<1> QED
  BY <1>1, <1>2, ReplyKept

LEMMA ReplyScreenStep ==
  ASSUME MailSound, ReplyTrue,
         \/ OnMount \/ OnScreenResume \/ OnScreenSuspend \/ \E t \in {"mail", "contacts"} : OnTabActivated(t)
  PROVE  ReplyTrue'
<1>1. UNCHANGED <<reply_mode, chosen, switch>>
  BY DEF OnMount, OnScreenResume, OnScreenSuspend, OnTabActivated, userKeeps, listingVars
<1>2. \/ Room(work) /\ work' = Activated(work)
      \/ ~(open_tab' = "mail" /\ front') /\ (work' = Deactivated(work) \/ UNCHANGED work)
  BY RoomAtStart DEF OnMount, OnScreenResume, OnScreenSuspend, OnTabActivated, MailSound, StartInv
<1>3. CASE Room(work) /\ work' = Activated(work)
  <2>1. PICK a, b \in Job :
           /\ a # b /\ {work[a].job, work[b].job} \subseteq {"none", "load", "auto"}
           /\ \A i \in Job : work'[i] = IF i = a THEN Asking("load", "conversations")
                                        ELSE IF i = b THEN Asking("auto", "mode")
                                        ELSE IF work[i].job \in {"load", "auto"} THEN NoWork ELSE work[i]
    BY <1>3, ActivatedIs DEF MailSound
  <2>2. \A i \in Job : work[i].job = "toggle" => work'[i] = work[i]
    BY <2>1
  <2>3. /\ Asking("load", "conversations").job = "load" /\ NoWork.job = "none"
        /\ Asking("auto", "mode").job = "auto" /\ ~Asking("auto", "mode").heard
    BY DEF Asking, NoWork
  <2>4. \A i \in Job : work'[i].job \in Replies => work'[i] = work[i] \/ (work'[i].job = "auto" /\ ~work'[i].heard)
    BY <2>1, <2>3 DEF Replies
  <2>5. b \in Working(work', Replies)
    BY <2>1, <2>3 DEF Working, Replies
  <2> QED
    BY <1>1, <2>2, <2>4, <2>5, ReplyKept
<1>4. CASE ~(open_tab' = "mail" /\ front') /\ work' = Deactivated(work)
  <2>1. \A i \in Job : work'[i] = IF work[i].job \in {"load", "auto"} THEN NoWork ELSE work[i]
    BY <1>4, DeactivatedIs DEF MailSound
  <2>2. NoWork.job \notin Replies
    BY DEF NoWork, Asking, Replies
  <2> QED
    BY <1>1, <1>4, <2>1, <2>2, ReplyKept
<1>5. CASE ~(open_tab' = "mail" /\ front') /\ UNCHANGED work
  BY <1>1, <1>5, ReplyKept
<1> QED
  BY <1>2, <1>3, <1>4, <1>5

\* The daemon sets the mode to what the one request says, or tells it the one that asks.
LEMMA ReplyDaemonStep ==
  ASSUME MailSound, Alone(Replies), ReplyTrue,
         \A i \in Working(work', Replies) : work'[i].heard => work'[i].ok,
         (\E p \in Correspondent : MessageArrives(p)) \/ \E j \in Job : DaemonHandles(j)
  PROVE  ReplyTrue'
<1>1. ASSUME NEW p \in Correspondent, MessageArrives(p) PROVE ReplyTrue'
  <2>1. UNCHANGED <<reply_mode, chosen, switch, open_tab, front, work>>
    BY <1>1 DEF MessageArrives, listingVars
  <2> QED
    BY <2>1, ReplyKeptByOthers
<1>2. ASSUME NEW j \in Job, DaemonHandles(j) PROVE ReplyTrue'
  <2>1. UNCHANGED <<chosen, switch, open_tab, front>>
    BY <1>2 DEF DaemonHandles, listingVars
  <2>2. /\ \A i \in Job \ {j} : work'[i] = work[i]
        /\ work'[j].job = work[j].job /\ work'[j].asks = work[j].asks /\ work'[j].heard
        /\ \/ UNCHANGED reply_mode /\ ~work'[j].ok
           \/ /\ reply_mode' = IF work[j].asks = "set" THEN work[j].mode ELSE reply_mode
              /\ work'[j].ok
              /\ work'[j].mode = IF work[j].asks = "mode" THEN reply_mode ELSE work[j].mode
    BY <1>2, DaemonIs DEF MailSound
  <2>3. Coherent(work[j])
    BY DEF MailSound, WorkInv
  <2>4. CASE work[j].job \in Replies
    <3>1. j \in Working(work, Replies) /\ j \in Working(work', Replies)
      BY <2>2, <2>4 DEF Working
    <3>2. \A i \in Job : work[i].job \in Replies \/ work'[i].job \in Replies => i = j
      BY <2>2, <3>1 DEF Alone, Working
    <3>3. work'[j].ok /\ work'[j].mode = reply_mode'
      <4>1. work[j].job \in {"auto", "toggle"}
        BY <2>4 DEF Replies
      <4> QED
        BY <2>2, <2>3, <3>1, <4>1 DEF Coherent
    <3>4. work[j].job = "toggle" => work'[j].mode = work[j].mode
      BY <2>2, <2>3, <3>3 DEF Coherent
    <3>5. BringsModeInv'
      <4> SUFFICES ASSUME NEW i \in Job, work'[i].job \in Replies
          PROVE  /\ work'[i].heard => work'[i].ok /\ work'[i].mode = reply_mode'
                 /\ work'[i].job = "toggle" =>
                        Agrees(work'[i].mode, chosen') /\ switch' = (work'[i].mode # "disabled")
        BY DEF BringsModeInv, Working, Agrees
      <4>1. i = j
        BY <3>2
      <4> QED
        BY <2>1, <2>2, <3>1, <3>3, <3>4, <4>1 DEF ReplyTrue, BringsModeInv
    <3>6. Working(work', {"toggle"}) = {} => Agrees(reply_mode', chosen')
      <4> SUFFICES ASSUME Working(work', {"toggle"}) = {} PROVE Agrees(reply_mode', chosen)
        BY <2>1 DEF Agrees
      <4>1. work[j].job # "toggle"
        BY <2>2 DEF Working
      <4>2. reply_mode' = reply_mode
        BY <2>2, <2>3, <3>3, <4>1 DEF Coherent
      <4>3. Working(work, {"toggle"}) = {}
        BY <3>2, <4>1 DEF Working, Replies
      <4> QED
        BY <4>2, <4>3 DEF ReplyTrue
    <3> QED
      BY <3>1, <3>5, <3>6 DEF ReplyTrue
  <2>5. CASE work[j].job \notin Replies
    <3>1. reply_mode' = reply_mode
      BY <2>2, <2>3, <2>5 DEF Coherent, Replies
    <3> QED
      BY <2>1, <2>2, <2>5, <3>1, ReplyKeptByOthers
  <2> QED
    BY <2>4, <2>5
<1> QED
  BY <1>1, <1>2

LEMMA ReplyWorkersStep ==
  ASSUME MailSound, Alone(Replies), ReplyTrue, NEW j \in Job, open_tab' # "ended",
         \/ LoadConversations(j) \/ ExecuteDelete(j) \/ ExecuteSync(j) \/ ExecuteSearch(j)
         \/ LoadAutoReply(j) \/ ToggleAutoReply(j) \/ ResolveAndOpen(j)
  PROVE  ReplyTrue'
<1>0. Coherent(work[j]) /\ NoWork.job = "none"
  BY DEF MailSound, WorkInv, Asking, NoWork
<1>1. CASE LoadConversations(j) \/ ExecuteDelete(j) \/ ExecuteSync(j) \/ ExecuteSearch(j)
  <2>1. work[j].job \in Lists
    BY <1>0, <1>1 DEF LoadConversations, ExecuteDelete, ExecuteSync, ExecuteSearch, Lists, Coherent
  <2>2. UNCHANGED <<reply_mode, chosen, switch, open_tab, front>>
    BY <1>1 DEF LoadConversations, ExecuteDelete, ExecuteSync, ExecuteSearch, workerKeeps, listingVars
  <2>3. (\A i \in Job \ {j} : work'[i] = work[i]) /\ work'[j].job \notin Replies
    <3>1. CASE LoadConversations(j) \/ ExecuteSearch(j)
      <4>1. work' = Begun(work, j, NoWork)
        BY <3>1 DEF LoadConversations, ExecuteSearch
      <4>2. Updated(j, NoWork)
        BY <4>1, BegunIs, NoWorkIsValid DEF MailSound
      <4> QED
        BY <1>0, <4>2 DEF Updated, Replies
    <3>2. CASE ExecuteDelete(j)
      <4>1. work'[j].asks \in {"delete", "conversations", "nothing"}
        BY <3>2, DeleteIs DEF MailSound, Asking, NoWork
      <4> QED
        BY <3>2, <4>1, DeleteIs DEF MailSound, WorkInv, Coherent, Replies
    <3>3. CASE ExecuteSync(j)
      BY <3>3, SyncIs DEF MailSound, Asking, NoWork, Replies
    <3> QED
      BY <1>1, <3>1, <3>2, <3>3
  <2>4. work[j].job \notin Replies
    BY <2>1 DEF Lists, Replies
  <2> QED
    BY <2>2, <2>3, <2>4, ReplyKeptByOthers
<1>2. CASE LoadAutoReply(j)
  <2>1. /\ work[j].job = "auto" /\ work[j].heard
        /\ \A i \in Job \ {j} : work'[i] = work[i]
        /\ work[j].ok => switch' = (work[j].mode # "disabled")
        /\ \/ switch' = switch /\ work'[j] = NoWork
           \/ /\ work'[j].job = "toggle" /\ ~work'[j].heard
              /\ work'[j].mode = IF switch' THEN "template" ELSE "disabled"
    BY <1>2, LoadAutoIs DEF MailSound
  <2>2. UNCHANGED <<reply_mode, chosen, open_tab, front>>
    BY <1>2 DEF LoadAutoReply, workerKeeps
  <2>3. j \in Working(work, Replies)
    BY <2>1 DEF Working, Replies
  <2>4. switch' = (reply_mode # "disabled")
    BY <2>1, <2>3 DEF ReplyTrue, BringsModeInv
  <2>5. \A i \in Job \ {j} : work[i].job \notin Replies /\ work'[i].job \notin Replies
    BY <2>1, <2>3 DEF Alone, Working
  <2>6. Agrees(reply_mode, chosen)
    <3>1. Working(work, {"toggle"}) = {}
      BY <2>1, <2>5 DEF Working, Replies
    <3> QED
      BY <3>1 DEF ReplyTrue
  <2>7. reply_mode \in Mode
    BY DEF MailSound, MailTypeOK
  <2>8. Agrees(IF switch' THEN "template" ELSE "disabled", chosen)
    BY <2>4, <2>6, <2>7 DEF Agrees, Mode
  <2>9. BringsModeInv'
    <3> SUFFICES ASSUME NEW i \in Job, work'[i].job \in Replies
        PROVE  /\ work'[i].heard => work'[i].ok /\ work'[i].mode = reply_mode'
               /\ work'[i].job = "toggle" =>
                      Agrees(work'[i].mode, chosen') /\ switch' = (work'[i].mode # "disabled")
      BY DEF BringsModeInv, Working, Agrees
    <3>1. i = j /\ work'[j] # NoWork
      BY <1>0, <2>5 DEF Replies
    <3>2. switch' \in BOOLEAN
      BY <2>4
    <3> QED
      BY <2>1, <2>2, <2>8, <3>1, <3>2
  <2> QED
    BY <2>2, <2>4, <2>6, <2>9 DEF ReplyTrue, Agrees
<1>3. CASE ToggleAutoReply(j)
  <2>1. /\ \A i \in Job : work'[i] = IF i = j THEN NoWork ELSE work[i]
        /\ work[j].job = "toggle" /\ work[j].heard
    BY <1>0, <1>3, BegunIs, NoWorkIsValid DEF ToggleAutoReply, MailSound, Updated, Coherent
  <2>2. UNCHANGED <<reply_mode, chosen, switch, open_tab, front>>
    BY <1>3 DEF ToggleAutoReply, workerKeeps, listingVars
  <2>3. j \in Working(work, Replies)
    BY <2>1 DEF Working, Replies
  <2>4. Agrees(reply_mode, chosen) /\ switch = (reply_mode # "disabled")
    BY <2>1, <2>3 DEF ReplyTrue, BringsModeInv
  <2>5. \A i \in Job : work'[i].job \notin Replies
    BY <1>0, <2>1, <2>3 DEF Alone, Working, Replies
  <2>6. BringsModeInv'
    BY <2>5 DEF BringsModeInv, Working
  <2> QED
    BY <2>2, <2>4, <2>6 DEF ReplyTrue, Agrees
<1>4. CASE ResolveAndOpen(j)
  <2>1. /\ work'[j] = NoWork /\ work[j].job = "open"
        /\ \/ \A i \in Job \ {j} : work'[i] = work[i]
           \/ /\ ~front'
              /\ \A i \in Job \ {j} : work'[i] = IF work[i].job \in {"load", "auto"} THEN NoWork ELSE work[i]
        /\ front' => front
    BY <1>0, <1>4, ResolveIs DEF MailSound, ResolveAndOpen, Coherent
  <2>2. UNCHANGED <<reply_mode, chosen, switch, open_tab>>
    BY <1>4 DEF ResolveAndOpen, workerKeeps, listingVars
  <2>3. /\ \A i \in Job : work[i].job = "toggle" => work'[i] = work[i]
        /\ \A i \in Job : work'[i].job \in Replies => work'[i] = work[i]
    BY <1>0, <2>1 DEF Replies
  <2>4. front' /\ Working(work', Replies) = {} => Working(work, Replies) = {}
    BY <2>1 DEF Working, Replies
  <2> QED
    BY <2>1, <2>2, <2>3, <2>4, ReplyKept
<1> QED
  BY <1>1, <1>2, <1>3, <1>4

LEMMA ReplyUserStep ==
  ASSUME MailSound, ReplyTrue, Alone(Replies)',
         \/ CancelDeletePending \/ \E p \in Correspondent : ActionDelete(p)
         \/ OpenSearch \/ CloseSearch \/ OpenCompose \/ OnInputSubmitted \/ ActionSync \/ ActionCycleSort
         \/ OnSwitchChanged
  PROVE  ReplyTrue'
<1>1. CASE CancelDeletePending \/ OpenSearch \/ OpenCompose \/ ActionCycleSort
  <2>1. UNCHANGED <<reply_mode, chosen, switch, open_tab, front, work>>
    BY <1>1 DEF CancelDeletePending, OpenSearch, OpenCompose, ActionCycleSort, userKeeps, listingVars
  <2> QED
    BY <2>1, ReplyKeptByOthers
<1>2. ASSUME NEW record, Valid(record), FreeJob(work) # {}, work' = Added(work, record), record.job \notin Replies,
             UNCHANGED <<reply_mode, chosen, switch, open_tab, front>>
      PROVE  ReplyTrue'
  <2>1. PICK j \in Job : work[j] = NoWork /\ Updated(j, record)
    BY <1>2, AddedIs DEF MailSound
  <2>2. work[j].job \notin Replies
    BY <2>1 DEF NoWork, Asking, Replies
  <2> QED
    BY <1>2, <2>1, <2>2, ReplyKeptByOthers DEF Updated
<1>3. ASSUME NEW p \in Correspondent, ActionDelete(p) PROVE ReplyTrue'
  <2>1. UNCHANGED <<reply_mode, chosen, switch, open_tab, front>>
    BY <1>3 DEF ActionDelete, userKeeps, listingVars
  <2>2. CASE UNCHANGED work
    BY <2>1, <2>2, ReplyKeptByOthers
  <2>3. CASE work' = Added(work, [Asking("delete", "nothing") EXCEPT !.peer = p])
    <3> DEFINE record == [Asking("delete", "nothing") EXCEPT !.peer = p]
    <3>1. record.job \notin Replies
      BY DEF Asking, Replies
    <3>2. Valid(record) /\ work' = Added(work, record)
      BY <2>3, AskingIsValid
    <3>3. FreeJob(work) # {}
      BY <1>3 DEF ActionDelete, Pressed
    <3> HIDE DEF record
    <3> QED
      BY <1>2, <2>1, <3>1, <3>2, <3>3
  <2> QED
    BY <1>3, <2>2, <2>3 DEF ActionDelete
<1>4. CASE OnInputSubmitted \/ ActionSync \/ CloseSearch
  <2>1. UNCHANGED <<reply_mode, chosen, switch, open_tab, front>> /\ FreeJob(work) # {}
    BY <1>4 DEF OnInputSubmitted, ActionSync, CloseSearch, userKeeps, listingVars, Pressed
  <2>2. PICK record \in {Asking("search", "hits"), Asking("open", "name"), Asking("sync", "sync"),
                         Asking("reload", "conversations")} : work' = Added(work, record)
    BY <1>4 DEF OnInputSubmitted, ActionSync, CloseSearch
  <2>3. Valid(record) /\ record.job \notin Replies
    <3>1. Valid(record)
      BY <2>2, AskingIsValid
    <3>2. record.job \in {"search", "open", "sync", "reload"}
      BY <2>2 DEF Asking
    <3> QED
      BY <3>1, <3>2 DEF Replies
  <2> QED
    BY <1>2, <2>1, <2>2, <2>3
<1>5. CASE OnSwitchChanged
  <2> DEFINE next == IF switch THEN "disabled" ELSE "template"
             record == [Asking("toggle", "set") EXCEPT !.mode = next]
  <2>1. /\ UNCHANGED <<reply_mode, open_tab, front>> /\ FreeJob(work) # {}
        /\ chosen' = next /\ switch' = ~switch
        /\ work' = Added(work, record)
    BY <1>5 DEF OnSwitchChanged, Pressed
  <2>2. next \in Mode
    BY DEF Mode
  <2>3. record.job = "toggle" /\ ~record.heard /\ record.mode = next
    BY DEF Asking
  <2>4. Valid(record)
    BY <2>2, AskingIsValid
  <2>5. switch' = (next # "disabled")
    BY <2>1 DEF MailSound, MailTypeOK
  <2> HIDE DEF record, next
  <2>6. PICK j \in Job : work[j] = NoWork /\ Updated(j, record)
    BY <2>1, <2>4, AddedIs DEF MailSound
  <2>7. j \in Working(work', Replies) /\ j \in Working(work', {"toggle"})
    BY <2>3, <2>6 DEF Updated, Working, Replies
  <2>8. \A i \in Working(work', Replies) : i = j
    BY <2>7 DEF Alone
  <2>9. work'[j] = record
    BY <2>6 DEF Updated
  <2>10. Agrees(record.mode, chosen')
    BY <2>1, <2>3 DEF Agrees
  <2>11. BringsModeInv'
    <3> SUFFICES ASSUME NEW i \in Working(work', Replies)
        PROVE  /\ work'[i].heard => work'[i].ok /\ work'[i].mode = reply_mode'
               /\ work'[i].job = "toggle" =>
                      Agrees(work'[i].mode, chosen') /\ switch' = (work'[i].mode # "disabled")
      BY DEF BringsModeInv, Agrees
    <3>1. i = j
      BY <2>8
    <3> QED
      BY <2>3, <2>5, <2>9, <2>10, <3>1
  <2> QED
    BY <2>7, <2>11 DEF ReplyTrue
<1> QED
  BY <1>1, <1>3, <1>4, <1>5

LEMMA ReplyStep == ASSUME MailSound, ReplyInv, MailNext PROVE ReplyInv'
<1> SUFFICES ASSUME ~unsure', open_tab' # "ended" PROVE Alone(Replies)' /\ ReplyTrue'
  BY DEF ReplyInv
<1>1. /\ ~unsure /\ open_tab # "ended" /\ ~(Cardinality(Working(work', Replies)) > 1)
      /\ \A i \in Working(work', Replies) : work'[i].heard => work'[i].ok
  BY DEF MailNext
<1>2. Alone(Replies)'
  BY <1>1, OneAtMost DEF Alone, Working
<1>3. Alone(Replies) /\ ReplyTrue
  BY <1>1 DEF ReplyInv
<1> QED
  BY <1>1, <1>2, <1>3, ReplyScreenStep, ReplyDaemonStep, ReplyWorkersStep, ReplyUserStep DEF MailNext, MailStep

LEMMA MailStarts == MailInit => MailInv
<1> SUFFICES ASSUME MailInit PROVE MailInv
  OBVIOUS
<1>1. 0 \in 0..MaxPresses /\ 0 \in 0..MaxLetters /\ 0 \in 0..MaxRefusals
  BY MailAssumption
<1>2. \A j \in Job : work[j] = NoWork
  BY DEF MailInit
<1>3. work \in [Job -> Work] /\ WorkInv
  BY <1>2, NoWorkIsValid DEF MailInit, WorkInv, Valid
<1>4. MailTypeOK
  BY <1>1, <1>3, ListingIs DEF MailInit, MailTypeOK
<1>5. StartInv /\ ArmedInv
  BY <1>2 DEF MailInit, StartInv, ArmedInv, DeletionIsConfirmed
<1>6. NoWork.job \notin Lists \cup Replies
  BY DEF NoWork, Asking, Lists, Replies
<1>7. ListInv
  <2>1. Working(work, Lists) = {} /\ listing.rows = {} /\ listing.kind = "loading" /\ indexed = {}
    BY <1>2, <1>6 DEF Working, MailInit
  <2> QED
    BY <2>1 DEF ListInv, ListTrue, Alone, BringsInv
<1>8. ReplyInv
  <2>1. Working(work, Replies) = {} /\ chosen = reply_mode /\ open_tab = "none"
    BY <1>2, <1>6 DEF Working, MailInit
  <2> QED
    BY <2>1 DEF ReplyInv, ReplyTrue, Alone, BringsModeInv, Agrees
<1> QED
  BY <1>3, <1>4, <1>5, <1>7, <1>8 DEF MailInv, MailSound

LEMMA MailStays == ASSUME MailInv, UNCHANGED mailVars PROVE MailInv'
<1>1. UNCHANGED <<inbox, reply_mode, open_tab, front, work, listing, indexed, delete_pending, delete_timer,
                  search_active, compose_active, switch, presses, letters, refusals,
                  overlapped, unsure, chosen, confirm, unconfirmed>>
  BY DEF mailVars
<1>2. MailTypeOK' /\ WorkInv' /\ StartInv' /\ ArmedInv'
  BY <1>1 DEF MailInv, MailSound, MailTypeOK, WorkInv, StartInv, ArmedInv, DeletionIsConfirmed
<1>3. ListInv'
  BY <1>1 DEF MailInv, ListInv, ListTrue, Alone, BringsInv, Working, WillReload, Reloads
<1>4. ReplyInv'
  BY <1>1 DEF MailInv, ReplyInv, ReplyTrue, Alone, BringsModeInv, Working, Agrees
<1> QED
  BY <1>2, <1>3, <1>4 DEF MailInv, MailSound

LEMMA MailKeeps == ASSUME MailInv, [MailNext]_mailVars PROVE MailInv'
  BY MailStays, SoundStep, ListStep, ReplyStep DEF MailInv

LEMMA MailShows == MailInv => ListIsTrue /\ SwitchIsTrue /\ DeletionIsConfirmed
<1> SUFFICES ASSUME MailInv PROVE ListIsTrue /\ SwitchIsTrue /\ DeletionIsConfirmed
  OBVIOUS
<1>1. ListIsTrue
  <2>1. MailQuiet => ~WillReload /\ ~Reloads
    BY DEF MailQuiet, Working, WillReload, Reloads, Lists
  <2> QED
    BY <2>1 DEF MailInv, ListInv, ListTrue, ListIsTrue
<1>2. SwitchIsTrue
  <2>1. Working(work, Replies) = {} => Working(work, {"toggle"}) = {}
    BY DEF Working, Replies
  <2> QED
    BY <2>1 DEF MailInv, ReplyInv, ReplyTrue, SwitchIsTrue, Agrees
<1> QED
  BY <1>1, <1>2 DEF MailInv, MailSound, ArmedInv

-----------------------------------------------------------------------------
(* The three of them.                                                       *)

ClientInv == BridgeTypeOK /\ BridgeInv /\ MailInv /\ BookInv

LEMMA ClientStarts == MCInit => ClientInv
  BY BridgeStarts, MailStarts, BookStarts DEF MCInit, ClientInv

LEMMA ClientStep == ClientInv /\ [MCNext]_MCVars => ClientInv'
<1> SUFFICES ASSUME ClientInv, [MCNext]_MCVars PROVE ClientInv'
  OBVIOUS
<1>1. [BridgeNext]_bridgeVars /\ [MailNext]_mailVars /\ [BookNext]_bookVars
  BY DEF MCNext, MCVars
<1>2. BridgeTypeOK' /\ BridgeInv'
  BY <1>1, BridgeTypesStep, BridgeInvStep DEF ClientInv
<1>3. MailInv'
  BY <1>1, MailKeeps DEF ClientInv
<1>4. BookInv'
  BY <1>1, BookStep DEF ClientInv
<1> QED
  BY <1>2, <1>3, <1>4 DEF ClientInv

LEMMA ClientInvariant == MCSpec => []ClientInv
<1>1. MCInit => ClientInv
  BY ClientStarts
<1>2. ClientInv /\ [MCNext]_MCVars => ClientInv'
  BY ClientStep
<1> QED
  BY <1>1, <1>2, PTL DEF MCSpec

\* Whatever calls, workers and peers there are: the state of the bridge, of the exchange screen
\* and of the contacts screen has its types.
THEOREM ClientsAreTyped == MCSpec => []CallersTypeOK
<1>1. ClientInv => CallersTypeOK
  BY DEF ClientInv, MailInv, MailSound, BookInv, CallersTypeOK
<1> QED
  BY <1>1, ClientInvariant, PTL

\* IPCBridge._call: a request is sent at most once, what the call reports became of it, and a call
\* that waits keeps the connection its request went out on.
THEOREM CallsAreTrue == MCSpec => []BridgeIsTrue
<1>1. ClientInv => BridgeIsTrue
  BY BridgeTells DEF ClientInv
<1> QED
  BY <1>1, ClientInvariant, PTL

\* ExchangeScreen and ContactsScreen: when nothing is under way the list, the switch and the table
\* show what the daemon has, and a conversation is deleted only after the second "d".
THEOREM PeopleShown == MCSpec => []PeopleAreShown
<1>1. ClientInv => PeopleAreShown
  BY MailShows, BookShows DEF ClientInv, PeopleAreShown
<1> QED
  BY <1>1, ClientInvariant, PTL
=============================================================================
