------------------------------ MODULE PartProofs ------------------------------
(***************************************************************************)
(* Proofs about the parts of the program that keep nothing on a disk: a      *)
(* command of the command line, the terminal of a device and the detail       *)
(* screen, the connection to the daemon, the messages of the IPC bridge and    *)
(* of the mesh, the data of terminal sessions, the page browser and the        *)
(* tables of the Nodes screen.                                                 *)
(***************************************************************************)
EXTENDS MCProgram, FiniteSetTheorems, SequenceTheorems, TLAPS


-----------------------------------------------------------------------------
(* A command of the command line.                                           *)

\* One more or one less in a set of few.
LEMMA CountOfFew ==
  ASSUME NEW S, IsFiniteSet(S)
  PROVE  /\ Cardinality(S) \in Nat
         /\ \A x : Cardinality(S \cup {x}) = (IF x \in S THEN Cardinality(S) ELSE Cardinality(S) + 1)
         /\ \A x : Cardinality(S \ {x}) = (IF x \in S THEN Cardinality(S) - 1 ELSE Cardinality(S))
         /\ \A x : IsFiniteSet(S \cup {x}) /\ IsFiniteSet(S \ {x})
         /\ \A x \in S : Cardinality(S) >= 1
<1>1. Cardinality(S) \in Nat
  BY FS_CardinalityType
<1>2. ASSUME NEW x
      PROVE  /\ Cardinality(S \cup {x}) = (IF x \in S THEN Cardinality(S) ELSE Cardinality(S) + 1)
             /\ Cardinality(S \ {x}) = (IF x \in S THEN Cardinality(S) - 1 ELSE Cardinality(S))
             /\ IsFiniteSet(S \cup {x}) /\ IsFiniteSet(S \ {x})
             /\ x \in S => Cardinality(S) >= 1
  <2>1. /\ IsFiniteSet(S \cup {x})
        /\ Cardinality(S \cup {x}) = (IF x \in S THEN Cardinality(S) ELSE Cardinality(S) + 1)
    BY FS_AddElement
  <2>2. /\ IsFiniteSet(S \ {x})
        /\ Cardinality(S \ {x}) = (IF x \in S THEN Cardinality(S) - 1 ELSE Cardinality(S))
    BY FS_RemoveElement
  <2>3. Cardinality(S \ {x}) \in Nat
    BY <2>2, FS_CardinalityType
  <2> QED
    BY <1>1, <2>1, <2>2, <2>3
<1> QED
  BY <1>1, <1>2

LEMMA CountOfTwo ==
  \A x : x \in {"no answer", "unprinted"} =>
     IsFiniteSet({"undelivered", x}) /\ Cardinality({"undelivered", x}) = 2
<1> TAKE x
<1>1. IsFiniteSet({"undelivered"}) /\ Cardinality({"undelivered"}) = 1
  BY FS_Singleton
<1> DEFINE n == Cardinality({"undelivered"} \cup {x})
<1>2. IsFiniteSet({"undelivered"} \cup {x})
      /\ n = IF x \in {"undelivered"} THEN Cardinality({"undelivered"}) ELSE Cardinality({"undelivered"}) + 1
  BY <1>1, FS_AddElement
<1> HIDE DEF n
<1>3. x # "undelivered" => n = 2
  BY <1>1, <1>2
<1>4. {"undelivered"} \cup {x} = {"undelivered", x}
  OBVIOUS
<1> QED
  BY <1>2, <1>3, <1>4 DEF n

Whys == {"no answer", "unprinted", "undelivered"}
Askable == {"daemon", "mesh"}
NotAsked == {"begun", "alone", "lxmf", "finding", "listening", "direct", "found"}
WithDaemon == {"begun", "asking", "printing"}

LEMMA FewAreFinite == \A S : S \subseteq Whys \/ S \subseteq Askable => IsFiniteSet(S)
<1>1. IsFiniteSet({}) /\ \A S, x : IsFiniteSet(S) => IsFiniteSet(S \cup {x})
  BY FS_EmptySet, FS_AddElement
<1>2. Whys = (({} \cup {"no answer"}) \cup {"unprinted"}) \cup {"undelivered"}
      /\ Askable = ({} \cup {"daemon"}) \cup {"mesh"}
  BY DEF Whys, Askable
<1>3. IsFiniteSet(Whys) /\ IsFiniteSet(Askable)
  BY <1>1, <1>2
<1> QED
  BY <1>3, FS_Subset

\* How often the request has been or may yet be carried out.
Executions == carried + Cardinality(requested)

CommandStates ==
    /\ verb \in Commands /\ pipe \in {"none", "open", "closed"} /\ core \in {"down", "half", "up"}
    /\ at \in {"begun", "asking", "printing", "alone", "lxmf", "finding", "listening", "direct", "found",
                "sending", "calling", "returned", "raised"}
    /\ listening \in BOOLEAN /\ reply \in {"none", "good", "bad"}

CommandCounts ==
    /\ requested \subseteq Askable /\ carried \in Nat /\ gaveUp \subseteq Whys
    /\ code \in {NoCode, 0, 1, 130}

CommandTyped == CommandStates /\ CommandCounts

\* A command that has ended, and no other, has its exit code.
EndInv == code # NoCode <=> CommandEnded

\* No way is tried before the one before it was given up.
WaysInv ==
    /\ Executions <= Cardinality(gaveUp) + 1
    /\ at \in NotAsked => Executions <= Cardinality(gaveUp)
    /\ at \in WithDaemon => gaveUp = {}
    /\ "undelivered" \in gaveUp => at \in {"listening", "found", "calling", "returned", "raised"}
    /\ at \in {"direct", "sending"} => verb = "send"
    /\ ~({"no answer", "unprinted"} \subseteq gaveUp)

\* A command says it succeeded when it has an answer, or has sent its announce.
AnswerInv ==
    /\ reply # "none" => carried >= 1
    /\ at = "printing" => reply # "none"
    /\ code = 0 /\ verb \in {"send", "exec", "update", "announce", "block"} => carried >= 1

\* What is open, and since when.
ServicesInv ==
    /\ pipe = "open" => at \in {"asking", "raised"}
    /\ listening => at \in {"listening", "found", "calling", "raised"}
    /\ listening /\ at \in {"found", "calling"} => verb = "shell"
    /\ at = "returned" => core # "up"

CommandInv == CommandTyped /\ EndInv /\ WaysInv /\ AnswerInv /\ ServicesInv

LEMMA CommandStarts == CommandInit => CommandInv
<1> SUFFICES ASSUME CommandInit PROVE CommandInv
  OBVIOUS
<1>1. Cardinality({}) = 0
  BY FS_EmptySet
<1>2. CommandTyped
  BY DEF CommandInit, CommandTyped, CommandStates, CommandCounts
<1>3. WaysInv
  BY <1>1 DEF CommandInit, WaysInv, Executions
<1>4. AnswerInv /\ ServicesInv /\ EndInv
  BY DEF CommandInit, AnswerInv, ServicesInv, EndInv, CommandEnded, NoCode
<1> QED
  BY <1>2, <1>3, <1>4 DEF CommandInv

LEMMA CommandStatesStay == CommandInv /\ [CommandNext]_commandVars => CommandStates'
<1> SUFFICES ASSUME CommandInv, [CommandNext]_commandVars PROVE CommandStates'
  OBVIOUS
<1> USE DEF CommandStates, Returns, Raises, Calling
<1>0. CommandStates
  BY DEF CommandInv, CommandTyped
<1>1. CASE TryIpcClient
  BY <1>0, <1>1 DEF TryIpcClient
<1>2. CASE DaemonCarriesOut
  BY <1>0, <1>2 DEF DaemonCarriesOut
<1>3. CASE DaemonAnswered
  BY <1>0, <1>3 DEF DaemonAnswered
<1>4. CASE PrintsAnswer
  BY <1>0, <1>4 DEF PrintsAnswer
<1>5. CASE FallsBack
  <2>1. /\ at \in {"asking", "printing"} /\ pipe' = "closed" /\ reply' = "none"
        /\ UNCHANGED <<verb, carried>>
        /\ \/ at' = "returned" /\ code' = 1 /\ core' = "down" /\ listening' = FALSE
           \/ at' = "alone" /\ UNCHANGED <<code, core, listening>>
    BY <1>5, Zenon DEF FallsBack
  <2> QED
    BY <1>0, <2>1
<1>6. CASE InitializeCore
  BY <1>0, <1>6 DEF InitializeCore
<1>7. CASE InitializeLxmf
  BY <1>0, <1>7 DEF InitializeLxmf
<1>8. CASE ResolvePath
  BY <1>0, <1>8 DEF ResolvePath
<1>9. CASE StartDiscovery
  BY <1>0, <1>9 DEF StartDiscovery
<1>10. CASE DiscoveryEnds
  BY <1>0, <1>10 DEF DiscoveryEnds
<1>11. CASE AsksNode
  BY <1>0, <1>11 DEF AsksNode
<1>12. CASE NodeCarriesOut
  BY <1>0, <1>12 DEF NodeCarriesOut
<1>13. CASE CallReturned
  BY <1>0, <1>13 DEF CallReturned
<1>14. CASE CallFails
  BY <1>0, <1>14 DEF CallFails
<1>15. CASE Interrupted
  BY <1>0, <1>15 DEF Interrupted
<1>16. CASE UNCHANGED commandVars
  BY <1>0, <1>16 DEF commandVars
<1> QED
  BY <1>1, <1>2, <1>3, <1>4, <1>5, <1>6, <1>7, <1>8, <1>9, <1>10, <1>11, <1>12, <1>13, <1>14, <1>15,
     <1>16 DEF CommandNext

LEMMA CommandCountsStay == CommandInv /\ [CommandNext]_commandVars => CommandCounts'
<1> SUFFICES ASSUME CommandInv, [CommandNext]_commandVars PROVE CommandCounts'
  OBVIOUS
<1> USE DEF CommandCounts, Returns, Raises, Whys, Askable
<1>0. CommandCounts
  BY DEF CommandInv, CommandTyped
<1>a. carried \in Nat /\ code \in {NoCode, 0, 1, 130}
  BY <1>0
<1>1. CASE TryIpcClient
  BY <1>0, <1>1 DEF TryIpcClient
<1>2. CASE DaemonCarriesOut
  <2>1. requested' = requested \ {"daemon"} /\ carried' = carried + 1 /\ UNCHANGED <<gaveUp, code>>
    BY <1>2, Zenon DEF DaemonCarriesOut
  <2>2. requested' \subseteq Askable /\ gaveUp' \subseteq Whys
    BY <1>0, <2>1
  <2>a. (carried' = carried \/ carried' = carried + 1) /\ (code' = code \/ code' = 1 \/ code' = 0)
    BY <2>1, Zenon
  <2>3. carried' \in Nat /\ code' \in {NoCode, 0, 1, 130}
    BY <1>a, <2>a
  <2> QED
    BY <2>2, <2>3
<1>3. CASE DaemonAnswered
  BY <1>0, <1>3 DEF DaemonAnswered
<1>4. CASE PrintsAnswer
  BY <1>0, <1>4 DEF PrintsAnswer
<1>5. CASE FallsBack
  BY <1>0, <1>5 DEF FallsBack
<1>6. CASE InitializeCore
  BY <1>0, <1>6 DEF InitializeCore
<1>7. CASE InitializeLxmf
  BY <1>0, <1>7 DEF InitializeLxmf
<1>8. CASE ResolvePath
  BY <1>0, <1>8 DEF ResolvePath
<1>9. CASE StartDiscovery
  BY <1>0, <1>9 DEF StartDiscovery
<1>10. CASE DiscoveryEnds
  BY <1>0, <1>10 DEF DiscoveryEnds
<1>11. CASE AsksNode
  <2>1. /\ UNCHANGED gaveUp
        /\ requested' = requested \/ requested' = requested \cup {"mesh"}
        /\ carried' = carried \/ carried' = carried + 1
        /\ code' = code \/ code' = 1 \/ code' = 0
    BY <1>11, Zenon DEF AsksNode, Returns, Raises
  <2>2. requested' \subseteq Askable /\ gaveUp' \subseteq Whys
    BY <1>0, <2>1
  <2>a. (carried' = carried \/ carried' = carried + 1) /\ (code' = code \/ code' = 1 \/ code' = 0)
    BY <2>1, Zenon
  <2>3. carried' \in Nat /\ code' \in {NoCode, 0, 1, 130}
    BY <1>a, <2>a
  <2> QED
    BY <2>2, <2>3
<1>12. CASE NodeCarriesOut
  <2>1. requested' = requested \ {"mesh"} /\ carried' = carried + 1 /\ UNCHANGED <<gaveUp, code>>
    BY <1>12, Zenon DEF NodeCarriesOut
  <2>2. requested' \subseteq Askable /\ gaveUp' \subseteq Whys
    BY <1>0, <2>1
  <2>a. (carried' = carried \/ carried' = carried + 1) /\ (code' = code \/ code' = 1 \/ code' = 0)
    BY <2>1, Zenon
  <2>3. carried' \in Nat /\ code' \in {NoCode, 0, 1, 130}
    BY <1>a, <2>a
  <2> QED
    BY <2>2, <2>3
<1>13. CASE CallReturned
  BY <1>0, <1>13 DEF CallReturned
<1>14. CASE CallFails
  BY <1>0, <1>14 DEF CallFails
<1>15. CASE Interrupted
  BY <1>0, <1>15 DEF Interrupted
<1>16. CASE UNCHANGED commandVars
  BY <1>0, <1>16 DEF commandVars
<1> QED
  BY <1>1, <1>2, <1>3, <1>4, <1>5, <1>6, <1>7, <1>8, <1>9, <1>10, <1>11, <1>12, <1>13, <1>14, <1>15,
     <1>16 DEF CommandNext

LEMMA EndsStay == CommandInv /\ [CommandNext]_commandVars => EndInv'
<1> SUFFICES ASSUME CommandInv, [CommandNext]_commandVars PROVE EndInv'
  OBVIOUS
<1> USE DEF EndInv, Returns, Raises, CommandEnded, NoCode, Calling
<1>0. EndInv
  BY DEF CommandInv
<1>1. CASE TryIpcClient
  BY <1>0, <1>1 DEF TryIpcClient
<1>2. CASE DaemonCarriesOut
  BY <1>0, <1>2 DEF DaemonCarriesOut
<1>3. CASE DaemonAnswered
  BY <1>0, <1>3 DEF DaemonAnswered
<1>4. CASE PrintsAnswer
  BY <1>0, <1>4 DEF PrintsAnswer
<1>5. CASE FallsBack
  <2>1. /\ at \in {"asking", "printing"} /\ pipe' = "closed" /\ reply' = "none"
        /\ UNCHANGED <<verb, carried>>
        /\ \/ at' = "returned" /\ code' = 1 /\ core' = "down" /\ listening' = FALSE
           \/ at' = "alone" /\ UNCHANGED <<code, core, listening>>
    BY <1>5, Zenon DEF FallsBack
  <2> QED
    BY <1>0, <2>1
<1>6. CASE InitializeCore
  BY <1>0, <1>6 DEF InitializeCore
<1>7. CASE InitializeLxmf
  BY <1>0, <1>7 DEF InitializeLxmf
<1>8. CASE ResolvePath
  BY <1>0, <1>8 DEF ResolvePath
<1>9. CASE StartDiscovery
  BY <1>0, <1>9 DEF StartDiscovery
<1>10. CASE DiscoveryEnds
  BY <1>0, <1>10 DEF DiscoveryEnds
<1>11. CASE AsksNode
  BY <1>0, <1>11 DEF AsksNode
<1>12. CASE NodeCarriesOut
  BY <1>0, <1>12 DEF NodeCarriesOut
<1>13. CASE CallReturned
  BY <1>0, <1>13 DEF CallReturned
<1>14. CASE CallFails
  BY <1>0, <1>14 DEF CallFails
<1>15. CASE Interrupted
  BY <1>0, <1>15 DEF Interrupted
<1>16. CASE UNCHANGED commandVars
  BY <1>0, <1>16 DEF commandVars
<1> QED
  BY <1>1, <1>2, <1>3, <1>4, <1>5, <1>6, <1>7, <1>8, <1>9, <1>10, <1>11, <1>12, <1>13, <1>14, <1>15,
     <1>16 DEF CommandNext

LEMMA ServicesStay == CommandInv /\ [CommandNext]_commandVars => ServicesInv'
<1> SUFFICES ASSUME CommandInv, [CommandNext]_commandVars PROVE ServicesInv'
  OBVIOUS
<1> USE DEF ServicesInv, CommandTyped, CommandStates, Returns, Raises, Calling
<1>0. CommandTyped /\ ServicesInv /\ (at \in {"direct", "sending"} => verb = "send")
  BY DEF CommandInv, WaysInv
<1>1. CASE TryIpcClient
  BY <1>0, <1>1 DEF TryIpcClient
<1>2. CASE DaemonCarriesOut
  BY <1>0, <1>2 DEF DaemonCarriesOut
<1>3. CASE DaemonAnswered
  BY <1>0, <1>3 DEF DaemonAnswered
<1>4. CASE PrintsAnswer
  BY <1>0, <1>4 DEF PrintsAnswer
<1>5. CASE FallsBack
  <2>1. /\ at \in {"asking", "printing"} /\ pipe' = "closed" /\ reply' = "none"
        /\ UNCHANGED <<verb, carried>>
        /\ \/ at' = "returned" /\ code' = 1 /\ core' = "down" /\ listening' = FALSE
           \/ at' = "alone" /\ UNCHANGED <<code, core, listening>>
    BY <1>5, Zenon DEF FallsBack
  <2> QED
    BY <1>0, <2>1
<1>6. CASE InitializeCore
  BY <1>0, <1>6 DEF InitializeCore
<1>7. CASE InitializeLxmf
  BY <1>0, <1>7 DEF InitializeLxmf
<1>8. CASE ResolvePath
  BY <1>0, <1>8 DEF ResolvePath
<1>9. CASE StartDiscovery
  BY <1>0, <1>9 DEF StartDiscovery
<1>10. CASE DiscoveryEnds
  BY <1>0, <1>10 DEF DiscoveryEnds
<1>11. CASE AsksNode
  BY <1>0, <1>11 DEF AsksNode
<1>12. CASE NodeCarriesOut
  BY <1>0, <1>12 DEF NodeCarriesOut
<1>13. CASE CallReturned
  BY <1>0, <1>13 DEF CallReturned
<1>14. CASE CallFails
  BY <1>0, <1>14 DEF CallFails
<1>15. CASE Interrupted
  BY <1>0, <1>15 DEF Interrupted
<1>16. CASE UNCHANGED commandVars
  BY <1>0, <1>16 DEF commandVars
<1> QED
  BY <1>1, <1>2, <1>3, <1>4, <1>5, <1>6, <1>7, <1>8, <1>9, <1>10, <1>11, <1>12, <1>13, <1>14, <1>15,
     <1>16 DEF CommandNext

LEMMA AnswersStay == CommandInv /\ [CommandNext]_commandVars => AnswerInv'
<1> SUFFICES ASSUME CommandInv, [CommandNext]_commandVars PROVE AnswerInv'
  OBVIOUS
<1> USE DEF AnswerInv, CommandTyped, CommandStates, CommandCounts, Returns, Raises, Calling, NoCode, CommandEnded
<1>0. CommandTyped /\ AnswerInv
  BY DEF CommandInv
<1>1. CASE TryIpcClient
  BY <1>0, <1>1 DEF TryIpcClient
<1>2. CASE DaemonCarriesOut
  BY <1>0, <1>2 DEF DaemonCarriesOut
<1>3. CASE DaemonAnswered
  BY <1>0, <1>3 DEF DaemonAnswered
<1>4. CASE PrintsAnswer
  BY <1>0, <1>4 DEF PrintsAnswer
<1>5. CASE FallsBack
  <2>1. /\ at \in {"asking", "printing"} /\ pipe' = "closed" /\ reply' = "none"
        /\ UNCHANGED <<verb, carried>>
        /\ \/ at' = "returned" /\ code' = 1 /\ core' = "down" /\ listening' = FALSE
           \/ at' = "alone" /\ UNCHANGED <<code, core, listening>>
    BY <1>5, Zenon DEF FallsBack
  <2> QED
    BY <1>0, <2>1
<1>6. CASE InitializeCore
  BY <1>0, <1>6 DEF InitializeCore
<1>7. CASE InitializeLxmf
  BY <1>0, <1>7 DEF InitializeLxmf
<1>8. CASE ResolvePath
  BY <1>0, <1>8 DEF ResolvePath
<1>9. CASE StartDiscovery
  BY <1>0, <1>9 DEF StartDiscovery
<1>10. CASE DiscoveryEnds
  BY <1>0, <1>10 DEF DiscoveryEnds
<1>11. CASE AsksNode
  BY <1>0, <1>11 DEF AsksNode
<1>12. CASE NodeCarriesOut
  BY <1>0, <1>12 DEF NodeCarriesOut
<1>13. CASE CallReturned
  BY <1>0, <1>13 DEF CallReturned
<1>14. CASE CallFails
  BY <1>0, <1>14 DEF CallFails
<1>15. CASE Interrupted
  BY <1>0, <1>15 DEF Interrupted
<1>16. CASE UNCHANGED commandVars
  BY <1>0, <1>16 DEF commandVars
<1> QED
  BY <1>1, <1>2, <1>3, <1>4, <1>5, <1>6, <1>7, <1>8, <1>9, <1>10, <1>11, <1>12, <1>13, <1>14, <1>15,
     <1>16 DEF CommandNext


LEMMA WaysStay == CommandInv /\ [CommandNext]_commandVars => WaysInv'
<1> SUFFICES ASSUME CommandInv, [CommandNext]_commandVars PROVE WaysInv'
  OBVIOUS
<1> DEFINE R == Cardinality(requested)
           G == Cardinality(gaveUp)
<1>1. carried \in Nat /\ requested \subseteq Askable /\ gaveUp \subseteq Whys
      /\ at \in {"begun", "asking", "printing", "alone", "lxmf", "finding", "listening", "direct", "found",
                 "sending", "calling", "returned", "raised"}
  BY DEF CommandInv, CommandTyped, CommandStates, CommandCounts
<1>2. /\ R \in Nat /\ G \in Nat
      /\ \A x : Cardinality(requested \cup {x}) = IF x \in requested THEN R ELSE R + 1
      /\ \A x \in requested : Cardinality(requested \ {x}) = R - 1
      /\ \A x : Cardinality(gaveUp \cup {x}) = IF x \in gaveUp THEN G ELSE G + 1
      /\ \A x : Cardinality(requested \ {x}) \in Nat /\ Cardinality(requested \ {x}) <= R
      /\ requested # {} => R >= 1
  <2>1. IsFiniteSet(requested) /\ IsFiniteSet(gaveUp)
    BY <1>1, FewAreFinite
  <2>2. /\ R \in Nat
        /\ \A x : Cardinality(requested \cup {x}) = IF x \in requested THEN R ELSE R + 1
        /\ \A x : Cardinality(requested \ {x}) = IF x \in requested THEN R - 1 ELSE R
        /\ \A x \in requested : R >= 1
    BY <2>1, CountOfFew
  <2>3. G \in Nat /\ \A x : Cardinality(gaveUp \cup {x}) = IF x \in gaveUp THEN G ELSE G + 1
    BY <2>1, CountOfFew
  <2> HIDE DEF R, G
  <2>4. ASSUME NEW x
        PROVE  Cardinality(requested \ {x}) \in Nat /\ Cardinality(requested \ {x}) <= R
    <3>1. CASE x \in requested
      BY <2>2, <3>1
    <3>2. CASE x \notin requested
      BY <2>2, <3>2
    <3> QED
      BY <3>1, <3>2
  <2> QED
    BY <2>2, <2>3, <2>4
<1>3. Cardinality({}) = 0 /\ Cardinality({"daemon"}) = 1
  BY FS_EmptySet, FS_Singleton
<1>4. /\ carried + R <= G + 1
      /\ at \in NotAsked => carried + R <= G
      /\ at \in WithDaemon => gaveUp = {}
      /\ "undelivered" \in gaveUp => at \in {"listening", "found", "calling", "returned", "raised"}
      /\ at \in {"direct", "sending"} => verb = "send"
      /\ ~({"no answer", "unprinted"} \subseteq gaveUp)
  BY DEF CommandInv, WaysInv, Executions
<1>5. ASSUME verb' = verb, gaveUp' = gaveUp, requested' = requested, carried' = carried,
             at' \in NotAsked => at \in NotAsked \/ carried + R <= G,
             at' \in WithDaemon => at \in WithDaemon,
             "undelivered" \in gaveUp => at' \in {"listening", "found", "calling", "returned", "raised"},
             at' \in {"direct", "sending"} => verb = "send"
      PROVE  WaysInv'
  <2> HIDE DEF R, G
  <2>1. Cardinality(requested)' = R /\ Cardinality(gaveUp)' = G
    BY <1>5 DEF R, G
  <2>2. Executions' = carried + R
    BY <1>5, <2>1 DEF Executions
  <2> QED
    BY <1>4, <1>5, <2>1, <2>2 DEF WaysInv
<1> HIDE DEF R, G
<1>6. CASE TryIpcClient
  <2>1. /\ at = "begun" /\ UNCHANGED <<verb, gaveUp, carried>>
        /\ \/ requested' = requested /\ at' \in {"alone", "returned", "raised"}
           \/ requested' = {"daemon"} /\ at' = "asking"
    BY <1>6, Zenon DEF TryIpcClient, Returns, Raises
  <2>2. gaveUp = {} /\ G = 0 /\ carried + R <= 0
    BY <1>3, <1>4, <2>1 DEF WithDaemon, NotAsked, G
  <2>3. CASE requested' = requested /\ at' \in {"alone", "returned", "raised"}
    BY <1>5, <2>1, <2>2, <2>3 DEF WithDaemon, NotAsked
  <2>4. CASE requested' = {"daemon"} /\ at' = "asking"
    <3>1. Executions' = 1 /\ Cardinality(gaveUp)' = 0
      BY <1>1, <1>2, <1>3, <2>1, <2>2, <2>4 DEF Executions, G
    <3> QED
      BY <1>4, <2>1, <2>2, <2>4, <3>1 DEF WaysInv, NotAsked
  <2> QED
    BY <2>1, <2>3, <2>4
<1>7. CASE DaemonCarriesOut
  <2>1. /\ "daemon" \in requested /\ requested' = requested \ {"daemon"} /\ carried' = carried + 1
        /\ UNCHANGED <<verb, at, gaveUp>>
    BY <1>7, Zenon DEF DaemonCarriesOut
  <2>2. Cardinality(requested)' = R - 1 /\ Cardinality(gaveUp)' = G
    BY <1>2, <2>1 DEF G
  <2>3. Executions' = carried + R
    BY <1>1, <1>2, <2>1, <2>2 DEF Executions
  <2> QED
    BY <1>4, <2>1, <2>2, <2>3 DEF WaysInv
<1>8. CASE NodeCarriesOut
  <2>1. /\ "mesh" \in requested /\ requested' = requested \ {"mesh"} /\ carried' = carried + 1
        /\ UNCHANGED <<verb, at, gaveUp>>
    BY <1>8, Zenon DEF NodeCarriesOut
  <2>2. Cardinality(requested)' = R - 1 /\ Cardinality(gaveUp)' = G
    BY <1>2, <2>1 DEF G
  <2>3. Executions' = carried + R
    BY <1>1, <1>2, <2>1, <2>2 DEF Executions
  <2> QED
    BY <1>4, <2>1, <2>2, <2>3 DEF WaysInv
<1>9. CASE FallsBack
  <2>1. /\ at \in {"asking", "printing"} /\ UNCHANGED <<verb, carried>> /\ at' \in {"alone", "returned"}
        /\ requested' = requested \/ requested' = {}
        /\ gaveUp' = gaveUp \cup {"no answer"} \/ gaveUp' = gaveUp \cup {"unprinted"}
    BY <1>9, Zenon DEF FallsBack, Returns
  <2>2. gaveUp = {} /\ G = 0 /\ carried + R <= 1
    <3>1. gaveUp = {}
      BY <1>4, <2>1 DEF WithDaemon
    <3>2. G = 0
      BY <1>3, <3>1 DEF G
    <3> QED
      BY <1>1, <1>2, <1>4, <3>1, <3>2
  <2>3. Cardinality(gaveUp)' = 1 /\ gaveUp' \in {{"no answer"}, {"unprinted"}}
    <3>1. Cardinality({"no answer"}) = 1 /\ Cardinality({"unprinted"}) = 1
      BY FS_Singleton
    <3> QED
      BY <2>1, <2>2, <3>1
  <2>4. Executions' <= 1 /\ Executions' \in Int
    <3>1. Cardinality(requested)' = R \/ Cardinality(requested)' = 0
      BY <1>3, <2>1 DEF R
    <3>2. carried' = carried /\ carried \in Nat /\ R \in Nat /\ carried + R <= 1
      BY <1>1, <1>2, <2>1, <2>2
    <3> QED
      BY <3>1, <3>2 DEF Executions
  <2>5. ~({"no answer", "unprinted"} \subseteq gaveUp') /\ "undelivered" \notin gaveUp'
    BY <2>3
  <2>a. at' \in {"alone", "returned"} /\ Cardinality(gaveUp)' = 1
    BY <2>1, <2>3
  <2>6. Executions' <= Cardinality(gaveUp)' + 1 /\ (at' \in NotAsked => Executions' <= Cardinality(gaveUp)')
    BY <2>a, <2>4
  <2>7. at' \in {"alone", "returned"}
    BY <2>a
  <2> QED
    BY <2>5, <2>6, <2>7, Zenon DEF WaysInv, WithDaemon
<1>10. CASE InitializeCore
  <2>1. /\ at = "alone" /\ UNCHANGED <<verb, gaveUp, carried, requested>>
        /\ at' \in {"finding", "found", "lxmf", "returned"}
    BY <1>10 DEF InitializeCore
  <2> QED
    BY <1>4, <1>5, <2>1 DEF WithDaemon, NotAsked
<1>11. CASE InitializeLxmf
  <2>1. at = "lxmf" /\ UNCHANGED <<verb, gaveUp, carried, requested>> /\ at' \in {"finding", "returned"}
    BY <1>11 DEF InitializeLxmf, Returns
  <2> QED
    BY <1>4, <1>5, <2>1 DEF WithDaemon, NotAsked
<1>12. CASE ResolvePath
  <2>1. /\ at = "finding" /\ UNCHANGED <<verb, gaveUp, carried, requested>>
        /\ at' \in {"direct", "found", "listening", "raised"} /\ (at' = "direct" => verb = "send")
    BY <1>12 DEF ResolvePath, Raises
  <2> QED
    BY <1>4, <1>5, <2>1 DEF WithDaemon, NotAsked
<1>13. CASE StartDiscovery
  <2>1. at = "finding" /\ UNCHANGED <<verb, gaveUp, carried, requested>> /\ at' = "listening"
    BY <1>13 DEF StartDiscovery
  <2> QED
    BY <1>4, <1>5, <2>1 DEF WithDaemon, NotAsked
<1>14. CASE DiscoveryEnds
  <2>1. at = "listening" /\ UNCHANGED <<verb, gaveUp, carried, requested>> /\ at' \in {"found", "returned"}
    BY <1>14 DEF DiscoveryEnds, Returns
  <2> QED
    BY <1>4, <1>5, <2>1 DEF WithDaemon, NotAsked
<1>15. CASE AsksNode
  <2>1. /\ at \in {"direct", "found"} /\ UNCHANGED <<verb, gaveUp>>
        /\ \/ at' \in {"returned", "raised"} /\ requested' = requested
              /\ (carried' = carried \/ carried' = carried + 1)
           \/ at' = (IF at = "direct" THEN "sending" ELSE "calling")
              /\ requested' = requested \cup {"mesh"} /\ carried' = carried
    BY <1>15, Zenon DEF AsksNode, Returns, Raises
  <2>2. carried + R <= G
    BY <1>4, <2>1 DEF NotAsked
  <2>3. Cardinality(requested)' \in {R, R + 1} /\ (requested' = requested => Cardinality(requested)' = R)
    BY <1>2, <2>1 DEF R
  <2>4. Executions' <= G + 1 /\ Cardinality(gaveUp)' = G
    BY <1>1, <1>2, <2>1, <2>2, <2>3 DEF Executions, G
  <2>5. at' \in {"returned", "raised", "sending", "calling"} /\ (at' = "sending" => at = "direct")
    BY <2>1
  <2> QED
    BY <1>4, <2>1, <2>4, <2>5 DEF WaysInv, NotAsked, WithDaemon
<1>16. CASE CallFails
  <2>1. CASE at = "sending"
    <3>1. /\ UNCHANGED <<verb, carried>> /\ at' = "listening" /\ gaveUp' = gaveUp \cup {"undelivered"}
          /\ requested' = requested \/ requested' = requested \ {"mesh"}
      BY <1>16, <2>1, Zenon DEF CallFails
    <3>2. "undelivered" \notin gaveUp
      BY <1>4, <2>1
    <3>3. Cardinality(gaveUp)' = G + 1
      BY <1>2, <3>1, <3>2
    <3>4. Cardinality(requested)' \in Nat /\ Cardinality(requested)' <= R
      BY <1>2, <3>1 DEF R
    <3>5. Executions' <= G + 1
      <4>1. carried' = carried /\ carried \in Nat /\ carried + R <= G + 1
        BY <1>1, <1>4, <3>1
      <4> QED
        BY <1>2, <3>4, <4>1 DEF Executions
    <3>6. ~({"no answer", "unprinted"} \subseteq gaveUp')
      BY <1>4, <3>1
    <3>7. Executions' \in Nat
      BY <1>1, <3>1, <3>4 DEF Executions
    <3>8. at' = "listening" /\ G \in Nat
      BY <1>2, <3>1
    <3>9. Executions' <= Cardinality(gaveUp)' + 1 /\ Executions' <= Cardinality(gaveUp)'
      BY <3>3, <3>5, <3>7, <3>8
    <3> QED
      BY <3>6, <3>8, <3>9, Zenon DEF WaysInv, WithDaemon
  <2>2. CASE at # "sending"
    <3>1. /\ UNCHANGED <<verb, carried, gaveUp>> /\ at' = "returned"
          /\ requested' = requested \/ requested' = requested \ {"mesh"}
      BY <1>16, <2>2, Zenon DEF CallFails, Returns
    <3>2. Cardinality(requested)' \in Nat /\ Cardinality(requested)' <= R /\ Cardinality(gaveUp)' = G
      BY <1>2, <3>1 DEF R, G
    <3>3. Executions' <= G + 1
      <4>1. carried' = carried /\ carried \in Nat /\ carried + R <= G + 1
        BY <1>1, <1>4, <3>1
      <4> QED
        BY <1>2, <3>2, <4>1 DEF Executions
    <3> QED
      BY <1>4, <3>1, <3>2, <3>3 DEF WaysInv, WithDaemon, NotAsked
  <2> QED
    BY <2>1, <2>2
<1>17. CASE DaemonAnswered
  <2>1. at = "asking" /\ at' = "printing" /\ UNCHANGED <<verb, gaveUp, carried, requested>>
    BY <1>17 DEF DaemonAnswered
  <2> QED
    BY <1>4, <1>5, <2>1 DEF WithDaemon, NotAsked
<1>18. CASE PrintsAnswer \/ CallReturned \/ Interrupted
  <2>1. at' \in {"returned", "raised"} /\ UNCHANGED <<verb, gaveUp, carried, requested>>
    BY <1>18, Zenon DEF PrintsAnswer, CallReturned, Interrupted, Returns
  <2> QED
    BY <1>4, <1>5, <2>1 DEF WithDaemon, NotAsked
<1>19. CASE UNCHANGED commandVars
  BY <1>4, <1>5, <1>19 DEF commandVars
<1> QED
  BY <1>6, <1>7, <1>8, <1>9, <1>10, <1>11, <1>12, <1>13, <1>14, <1>15, <1>16, <1>17, <1>18, <1>19
  DEF CommandNext

LEMMA CommandInvariant == CommandSpec => []CommandInv
<1>1. CommandInv /\ [CommandNext]_commandVars => CommandInv'
  <2> SUFFICES ASSUME CommandInv, [CommandNext]_commandVars PROVE CommandInv'
    OBVIOUS
  <2>1. CommandTyped'
    BY CommandStatesStay, CommandCountsStay DEF CommandTyped
  <2> QED
    BY <2>1, EndsStay, WaysStay, AnswersStay, ServicesStay DEF CommandInv
<1> QED
  BY <1>1, CommandStarts, PTL DEF CommandSpec

\* Two ways at most are given up.
LEMMA CommandShows == CommandInv => CommandTypeOK /\ CarriedOutOnce /\ ServicesAreStopped
<1> SUFFICES ASSUME CommandInv PROVE CommandTypeOK /\ CarriedOutOnce /\ ServicesAreStopped
  OBVIOUS
<1>1. CommandStates /\ CommandCounts /\ EndInv /\ WaysInv /\ AnswerInv /\ ServicesInv
  BY DEF CommandInv, CommandTyped
<1> DEFINE G == Cardinality(gaveUp)
<1>2. Cardinality(requested) \in Nat /\ G \in Nat
  BY <1>1, FewAreFinite, FS_CardinalityType DEF CommandCounts
<1>3. G <= 2
  <2>1. \E x \in {"no answer", "unprinted"} : gaveUp \subseteq {"undelivered"} \cup {x}
    BY <1>1 DEF WaysInv, CommandCounts, Whys
  <2>2. PICK x \in {"no answer", "unprinted"} : gaveUp \subseteq {"undelivered"} \cup {x}
    BY <2>1
  <2>3. IsFiniteSet({"undelivered", x}) /\ Cardinality({"undelivered", x}) = 2
    BY <2>2, CountOfTwo, Zenon
  <2>4. gaveUp \subseteq {"undelivered", x}
    BY <2>2
  <2> QED
    BY <2>3, <2>4, FS_Subset
<1> HIDE DEF G
<1>4. carried <= 1 + G /\ carried \in 0..3
  <2>1. carried \in Nat /\ carried + Cardinality(requested) <= G + 1
    BY <1>1 DEF WaysInv, Executions, CommandCounts, G
  <2> QED
    BY <1>2, <1>3, <2>1
<1>5. CommandTypeOK
  <2>1. code # NoCode <=> CommandEnded
    BY <1>1 DEF EndInv
  <2> QED
    BY <1>1, <1>4, <2>1, Zenon DEF CommandTypeOK, CommandStates, CommandCounts, Whys, Askable
<1>6. CarriedOutOnce
  <2>1. code = 0 /\ verb \in {"send", "exec", "update", "announce", "block"} => carried >= 1
    BY <1>1 DEF AnswerInv
  <2>2. carried <= 1 + Cardinality(gaveUp)
    BY <1>4 DEF G
  <2> QED
    BY <2>1, <2>2 DEF CarriedOutOnce
<1>7. ServicesAreStopped
  BY <1>1 DEF ServicesAreStopped, ServicesInv, Calling, CommandStates
<1> QED
  BY <1>5, <1>6, <1>7

\* A command that succeeds was carried out, and a second time only if an earlier
\* attempt was given up (cli.py: the daemon first, then alone, a send directly and
\* then after discovery), in any order of answers, failures and late executions.
THEOREM CommandsOnce == CommandSpec => []CarriedOutOnce
<1>1. CommandInv => CarriedOutOnce
  BY CommandShows
<1> QED
  BY <1>1, CommandInvariant, PTL

-----------------------------------------------------------------------------
(* The terminal of a device.                                                *)

\* The daemon has ended the session, or somebody has asked for it or given it up.
Released(s) == s \in alive => s \in dropped \cup closing

\* The daemon has opened no session later than this one.
SessionsKnown ==
    /\ alive \subseteq 1..opened
    /\ session_id <= opened /\ opener.of <= opened
    /\ \A c \in closers : c.of <= opened
    /\ \A i \in 1..Len(frames) : frames[i].of <= opened

\* A session that is not shown, or whose end is on its way, is nobody's any more; one
\* worker at a time opens a session, beside no other.
PaneInv ==
    /\ ~connected => Released(session_id)
    /\ opener.phase # "idle" => ~connected /\ closers = {}
    /\ opener.phase \in {"idle", "asks", "refused"} => opener.of = NoShell
    /\ \A c \in closers : (connected /\ ~c.back) \/ Released(c.of)
    /\ connected => \A c \in closers : c.of = session_id
    /\ \A i \in 1..Len(frames) : frames[i].kind = "exited" => Released(frames[i].of)
    /\ \A i \in 1..Len(frames) : frames[i].kind = "refused" <=> frames[i].of = NoShell
    /\ connected => session_id # NoShell
    /\ opener.phase = "opened" => opener.of # NoShell
    /\ \A c \in closers : c.of # NoShell

PaneSessionInv == TerminalTypeOK /\ SessionsKnown /\ PaneInv /\ NoSessionLeft

\* What a frame that comes, or the first that is taken, leaves in the stream.
LEMMA FramesCome ==
  ASSUME TerminalTypeOK, NEW kind \in {"opened", "refused", "output", "exited"},
         NEW s \in Shell \cup {NoShell}, Comes(kind, s)
  PROVE  /\ frames' \in Seq(Frame) /\ Len(frames') = Len(frames) + 1 /\ Len(frames) \in Nat
         /\ \A i \in 1..Len(frames) : frames'[i] = frames[i]
         /\ frames'[Len(frames) + 1].kind = kind /\ frames'[Len(frames) + 1].of = s
         /\ \A i \in 1..Len(frames') : i \in 1..Len(frames) \/ i = Len(frames) + 1
         /\ \A i \in 1..Len(frames) : i \in 1..Len(frames')
         /\ Len(frames) + 1 \in 1..Len(frames')
<1> DEFINE new == [kind |-> kind, of |-> s]
<1>1. frames \in Seq(Frame) /\ new \in Frame /\ new.kind = kind /\ new.of = s
  BY DEF TerminalTypeOK, Frame
<1> HIDE DEF new
<1>2. frames' = Append(frames, new)
  BY DEF Comes, new
<1>3. /\ frames' \in Seq(Frame) /\ Len(frames') = Len(frames) + 1 /\ Len(frames) \in Nat
      /\ \A i \in 1..Len(frames) : frames'[i] = frames[i]
      /\ frames'[Len(frames) + 1] = new
  BY <1>1, <1>2
<1>4. /\ \A i \in 1..Len(frames') : i \in 1..Len(frames) \/ i = Len(frames) + 1
      /\ \A i \in 1..Len(frames) : i \in 1..Len(frames')
      /\ Len(frames) + 1 \in 1..Len(frames')
  BY <1>3
<1> QED
  BY <1>1, <1>3, <1>4

LEMMA FramesGo ==
  ASSUME TerminalTypeOK, NEW kind, Takes(kind)
  PROVE  /\ frames' \in Seq(Frame) /\ Len(frames') = Len(frames) - 1 /\ Len(frames) \in Nat
         /\ \A i \in 1..Len(frames') : i + 1 \in 1..Len(frames) /\ frames'[i] = frames[i + 1]
         /\ 1 \in 1..Len(frames) /\ frames[1] \in Frame /\ Head1 = frames[1] /\ frames[1].kind = kind
         /\ \A i \in 1..Len(frames) : i = 1 \/ (i - 1 \in 1..Len(frames') /\ frames'[i - 1] = frames[i])
<1>1. frames \in Seq(Frame) /\ frames # <<>> /\ frames' = Tail(frames) /\ Head1 = Head(frames)
      /\ Head1.kind = kind
  BY DEF TerminalTypeOK, Takes, Head1
<1>2. Len(frames) \in Nat /\ Len(frames) # 0 /\ Head(frames) = frames[1] /\ frames[1] \in Frame
  BY <1>1
<1>3. frames' \in Seq(Frame) /\ Len(frames') = Len(frames) - 1
      /\ \A i \in 1..(Len(frames) - 1) : frames'[i] = frames[i + 1]
  BY <1>1, <1>2
<1>4. ASSUME NEW i \in 1..Len(frames')
      PROVE  i + 1 \in 1..Len(frames) /\ frames'[i] = frames[i + 1]
  BY <1>2, <1>3
<1>5. ASSUME NEW i \in 1..Len(frames), i # 1
      PROVE  i - 1 \in 1..Len(frames') /\ frames'[i - 1] = frames[i]
  <2>1. i - 1 \in 1..(Len(frames) - 1) /\ (i - 1) + 1 = i
    BY <1>2, <1>5
  <2> QED
    BY <1>3, <2>1
<1> QED
  BY <1>1, <1>2, <1>3, <1>4, <1>5

LEMMA PaneStarts == TerminalInit => PaneSessionInv
<1> SUFFICES ASSUME TerminalInit PROVE PaneSessionInv
  OBVIOUS
<1>1. MaxOpens \in Nat /\ Len(frames) = 0 /\ frames \in Seq(Frame)
  BY DeviceTerminalAssumption DEF TerminalInit
<1>2. TerminalTypeOK
  <2>1. closers \subseteq Closer /\ closing \cup alive \cup painted \cup missed \cup dropped \subseteq Shell
    BY DEF TerminalInit
  <2>2. session_id \in Shell \cup {NoShell} /\ opened \in 0..MaxOpens
        /\ opener \in [phase : {"idle", "asks", "opened", "refused"}, of : Shell \cup {NoShell}]
    BY <1>1 DEF TerminalInit, Resting
  <2> QED
    BY <1>1, <2>1, <2>2 DEF TerminalInit, TerminalTypeOK
<1>3. SessionsKnown
  BY <1>1 DEF TerminalInit, SessionsKnown, Resting, NoShell
<1>4. PaneInv /\ NoSessionLeft
  BY <1>1 DEF TerminalInit, PaneInv, NoSessionLeft, Resting, Released
<1> QED
  BY <1>2, <1>3, <1>4 DEF PaneSessionInv

\* The types stay.
LEMMA PaneTypesStay == PaneSessionInv /\ [TerminalNext]_terminalVars => TerminalTypeOK'
<1> SUFFICES ASSUME PaneSessionInv, [TerminalNext]_terminalVars PROVE TerminalTypeOK'
  OBVIOUS
<1>0. TerminalTypeOK /\ MaxOpens \in Nat
  BY DeviceTerminalAssumption DEF PaneSessionInv
<1>a. PaneInv
  BY DEF PaneSessionInv
<1> USE DEF TerminalTypeOK, Resting, NoShell, Shell
<1>1. CASE DoConnect
  BY <1>0, <1>1 DEF DoConnect, farVars
<1>2. CASE Connected
  BY <1>0, <1>2 DEF Connected, farVars
<1>3. CASE ConnectFailed
  BY <1>0, <1>3 DEF ConnectFailed, farVars
<1>4. CASE Disconnect
  <2>1. PICK i \in 1..MaxClosers : closers' = closers \cup {[id |-> i, of |-> session_id, back |-> FALSE]}
    BY <1>4 DEF Disconnect
  <2>2. [id |-> i, of |-> session_id, back |-> FALSE] \in Closer
    BY <1>0 DEF Closer
  <2> QED
    BY <1>0, <1>4, <2>1, <2>2 DEF Disconnect, farVars, paneVars
<1>5. CASE TerminalUnmount
  <2>1. closing' \subseteq Shell /\ dropped' \subseteq Shell
    BY <1>0, <1>a, <1>5 DEF TerminalUnmount, PaneInv
  <2> QED
    BY <1>0, <1>5, <2>1 DEF TerminalUnmount, farVars, Cleanup
<1>6. CASE Opens
  <2>1. frames' \in Seq(Frame)
    <3>1. CASE opened < MaxOpens /\ Comes("opened", opened + 1)
      <4>1. opened + 1 \in Shell
        BY <1>0, <3>1
      <4> QED
        BY <1>0, <3>1, <4>1, FramesCome
    <3>2. CASE Comes("refused", NoShell)
      BY <1>0, <3>2, FramesCome
    <3> QED
      BY <1>6, <3>1, <3>2 DEF Opens
  <2> QED
    BY <1>0, <1>6, <2>1 DEF Opens, paneVars, workVars
<1>7. ASSUME NEW c \in Closer, Disconnected(c) PROVE TerminalTypeOK'
  BY <1>0, <1>7 DEF Disconnected, farVars, Cleanup
<1>8. ASSUME NEW c \in Closer, CloserBack(c) PROVE TerminalTypeOK'
  <2>1. [c EXCEPT !.back = TRUE] \in Closer
    BY DEF Closer
  <2>2. c.of \in Shell
    BY <1>0, <1>a, <1>8 DEF CloserBack, PaneInv, Closer
  <2> QED
    BY <1>0, <1>8, <2>1, <2>2 DEF CloserBack, paneVars
<1>9. ASSUME NEW s \in Shell, Prints(s) PROVE TerminalTypeOK'
  BY <1>0, <1>9, FramesCome DEF Prints, paneVars, workVars
<1>10. ASSUME NEW s \in Shell, Exits(s) PROVE TerminalTypeOK'
  BY <1>0, <1>10, FramesCome DEF Exits, paneVars, workVars
<1>11. ASSUME NEW s \in Shell, Closes(s) PROVE TerminalTypeOK'
  BY <1>0, <1>11 DEF Closes, paneVars
<1>12. CASE Answered
  <2>1. frames' \in Seq(Frame) /\ Head1 \in Frame /\ Head1.kind \in {"opened", "refused"}
    BY <1>0, <1>12, FramesGo DEF Answered
  <2> QED
    BY <1>0, <1>12, <2>1 DEF Answered, paneVars, Frame
<1>13. CASE OnTerminalOutput
  <2>1. frames' \in Seq(Frame) /\ Head1 \in Frame /\ Head1 = frames[1] /\ frames[1].kind = "output"
        /\ 1 \in 1..Len(frames)
    BY <1>0, <1>13, FramesGo DEF OnTerminalOutput
  <2>2. Head1.of \in Shell
    BY <1>a, <2>1 DEF PaneInv, Frame
  <2> QED
    BY <1>0, <1>13, <2>1, <2>2 DEF OnTerminalOutput, paneVars, workVars
<1>14. CASE OnTerminalExited
  <2>1. frames' \in Seq(Frame) /\ Head1 \in Frame
    BY <1>0, <1>14, FramesGo DEF OnTerminalExited
  <2> QED
    BY <1>0, <1>14, <2>1 DEF OnTerminalExited, workVars, Frame
<1>15. CASE UNCHANGED terminalVars
  BY <1>0, <1>15 DEF terminalVars, paneVars, workVars, farVars
<1> QED
  BY <1>1, <1>2, <1>3, <1>4, <1>5, <1>6, <1>7, <1>8, <1>9, <1>10, <1>11, <1>12, <1>13, <1>14, <1>15
  DEF TerminalNext


\* A session that is nobody's stays so.
LEMMA ReleasedStays ==
  PaneSessionInv /\ [TerminalNext]_terminalVars =>
    /\ \A s : s # opened + 1 /\ Released(s) => Released(s)'
    /\ opened' \in {opened, opened + 1} /\ alive' \subseteq alive \cup {opened'}
<1> SUFFICES ASSUME PaneSessionInv, [TerminalNext]_terminalVars
             PROVE  /\ \A s : s # opened + 1 /\ Released(s) => Released(s)'
                    /\ opened' \in {opened, opened + 1} /\ alive' \subseteq alive \cup {opened'}
  OBVIOUS
<1> USE DEF Released
<1>1. CASE DoConnect \/ Connected \/ ConnectFailed \/ Disconnect \/ UNCHANGED terminalVars
  BY <1>1 DEF DoConnect, Connected, ConnectFailed, Disconnect, terminalVars, workVars, farVars
<1>2. CASE TerminalUnmount
  BY <1>2 DEF TerminalUnmount, farVars
<1>3. CASE Opens
  BY <1>3 DEF Opens, workVars
<1>4. CASE \E c \in Closer : Disconnected(c)
  BY <1>4 DEF Disconnected, farVars
<1>5. CASE \E c \in Closer : CloserBack(c)
  BY <1>5 DEF CloserBack
<1>6. CASE \E s \in Shell : Prints(s) \/ Exits(s)
  BY <1>6 DEF Prints, Exits, workVars
<1>7. CASE \E s \in Shell : Closes(s)
  BY <1>7 DEF Closes
<1>8. CASE Answered \/ OnTerminalOutput \/ OnTerminalExited
  BY <1>8 DEF Answered, OnTerminalOutput, OnTerminalExited, workVars
<1> QED
  BY <1>1, <1>2, <1>3, <1>4, <1>5, <1>6, <1>7, <1>8 DEF TerminalNext

\* No session is known that the daemon has not opened.
LEMMA SessionsKnownStay == PaneSessionInv /\ [TerminalNext]_terminalVars => SessionsKnown'
<1> SUFFICES ASSUME PaneSessionInv, [TerminalNext]_terminalVars PROVE SessionsKnown'
  OBVIOUS
<1>0. TerminalTypeOK /\ SessionsKnown /\ MaxOpens \in Nat /\ opened \in Nat
  BY DeviceTerminalAssumption DEF PaneSessionInv, TerminalTypeOK
<1> USE DEF SessionsKnown, Resting, NoShell
<1>1. CASE DoConnect
  BY <1>0, <1>1 DEF DoConnect, farVars
<1>2. CASE Connected
  BY <1>0, <1>2 DEF Connected, farVars
<1>3. CASE ConnectFailed
  BY <1>0, <1>3 DEF ConnectFailed, farVars
<1>4. CASE Disconnect
  <2>1. PICK i \in 1..MaxClosers : closers' = closers \cup {[id |-> i, of |-> session_id, back |-> FALSE]}
    BY <1>4 DEF Disconnect
  <2>2. \A c \in closers' : c.of <= opened
    BY <1>0, <2>1
  <2> QED
    BY <1>0, <1>4, <2>2 DEF Disconnect, farVars, paneVars
<1>5. CASE TerminalUnmount
  BY <1>0, <1>5 DEF TerminalUnmount, farVars, Cleanup
<1>6. CASE Opens
  <2>1. CASE opened < MaxOpens /\ opened' = opened + 1 /\ alive' = alive \cup {opened + 1}
             /\ Comes("opened", opened + 1)
    <3>1. opened + 1 \in Shell
      BY <1>0, <2>1 DEF Shell
    <3>2. Len(frames') = Len(frames) + 1 /\ Len(frames) \in Nat
          /\ (\A i \in 1..Len(frames) : frames'[i] = frames[i])
          /\ frames'[Len(frames) + 1].of = opened + 1
      BY <1>0, <2>1, <3>1, FramesCome
    <3>3. \A i \in 1..Len(frames') : i \in 1..Len(frames) \/ i = Len(frames) + 1
      BY <1>0, <2>1, <3>1, FramesCome
    <3>4. \A x : x \in {session_id, opener.of} \cup {c.of : c \in closers} \cup {frames[i].of : i \in 1..Len(frames)}
                 => x \in Nat /\ x <= opened
      <4>1. session_id \in Nat /\ opener.of \in Nat /\ (\A c \in closers : c.of \in Nat)
        BY <1>0 DEF TerminalTypeOK, Shell, Closer
      <4>2. \A i \in 1..Len(frames) : frames[i].of \in Nat
        <5>1. \A i \in 1..Len(frames) : frames[i] \in Frame
          BY <1>0 DEF TerminalTypeOK
        <5> QED
          BY <5>1 DEF Frame, Shell
      <4> QED
        BY <1>0, <4>1, <4>2
    <3>5. \A i \in 1..Len(frames') : frames'[i].of <= opened'
      <4> TAKE i \in 1..Len(frames')
      <4>1. CASE i \in 1..Len(frames)
        <5>1. frames'[i].of \in Nat /\ frames'[i].of <= opened
          BY <3>2, <3>4, <4>1
        <5> QED
          BY <1>0, <2>1, <5>1
      <4>2. CASE i = Len(frames) + 1
        BY <1>0, <2>1, <3>2, <4>2
      <4> QED
        BY <3>3, <4>1, <4>2
    <3>6. \A x : x \in Nat /\ x <= opened => x <= opened'
      BY <1>0, <2>1
    <3>7. UNCHANGED <<session_id, opener, closers>>
      BY <1>6 DEF Opens, paneVars, workVars
    <3>8. alive' \subseteq 1..opened'
      BY <1>0, <2>1
    <3>9. session_id' <= opened' /\ opener'.of <= opened' /\ \A c \in closers' : c.of <= opened'
      BY <3>4, <3>6, <3>7
    <3> QED
      BY <3>5, <3>8, <3>9
  <2>2. CASE Comes("refused", NoShell) /\ UNCHANGED <<opened, alive>>
    <3>1. Len(frames') = Len(frames) + 1 /\ Len(frames) \in Nat
          /\ (\A i \in 1..Len(frames) : frames'[i] = frames[i])
          /\ frames'[Len(frames) + 1].of = NoShell
      BY <1>0, <2>2, FramesCome
    <3>2. \A i \in 1..Len(frames') : i \in 1..Len(frames) \/ i = Len(frames) + 1
      BY <1>0, <2>2, FramesCome
    <3>3. \A i \in 1..Len(frames') : frames'[i].of <= opened
      BY <1>0, <3>1, <3>2
    <3> QED
      BY <1>0, <1>6, <2>2, <3>3 DEF Opens, paneVars, workVars
  <2> QED
    BY <1>6, <2>1, <2>2 DEF Opens
<1>7. ASSUME NEW c \in Closer, Disconnected(c) PROVE SessionsKnown'
  BY <1>0, <1>7 DEF Disconnected, farVars, Cleanup
<1>8. ASSUME NEW c \in Closer, CloserBack(c) PROVE SessionsKnown'
  <2>1. [c EXCEPT !.back = TRUE].of = c.of
    BY DEF Closer
  <2> QED
    BY <1>0, <1>8, <2>1 DEF CloserBack, paneVars
<1>9. ASSUME NEW s \in Shell, Prints(s) \/ Exits(s) PROVE SessionsKnown'
  <2>1. s \in alive /\ UNCHANGED <<session_id, opener, closers, opened>> /\ alive' \subseteq alive
        /\ (Comes("output", s) \/ Comes("exited", s))
    BY <1>9 DEF Prints, Exits, paneVars, workVars
  <2>2. Len(frames') = Len(frames) + 1 /\ Len(frames) \in Nat
        /\ (\A i \in 1..Len(frames) : frames'[i] = frames[i])
        /\ frames'[Len(frames) + 1].of = s
    BY <1>0, <2>1, FramesCome
  <2>3. \A i \in 1..Len(frames') : i \in 1..Len(frames) \/ i = Len(frames) + 1
    BY <1>0, <2>1, FramesCome
  <2>4. s <= opened
    <3>1. alive \subseteq 1..opened /\ s \in alive /\ opened \in Nat
      BY <1>0, <2>1
    <3> HIDE DEF SessionsKnown
    <3> QED
      BY <3>1
  <2>5. \A i \in 1..Len(frames') : frames'[i].of <= opened
    BY <1>0, <2>2, <2>3, <2>4
  <2> QED
    BY <1>0, <2>1, <2>5
<1>10. ASSUME NEW s \in Shell, Closes(s) PROVE SessionsKnown'
  BY <1>0, <1>10 DEF Closes, paneVars
<1>11. ASSUME NEW kind, Takes(kind)
       PROVE  \A i \in 1..Len(frames') : frames'[i].of <= opened
  BY <1>0, <1>11, FramesGo
<1>12. CASE Answered
  <2>1. Head1 = frames[1] /\ 1 \in 1..Len(frames)
    BY <1>0, <1>12, FramesGo DEF Answered
  <2>2. \A i \in 1..Len(frames') : frames'[i].of <= opened
    BY <1>11, <1>12 DEF Answered
  <2> QED
    BY <1>0, <1>12, <2>1, <2>2 DEF Answered, paneVars
<1>13. CASE OnTerminalOutput
  BY <1>0, <1>11, <1>13 DEF OnTerminalOutput, paneVars, workVars
<1>14. CASE OnTerminalExited
  BY <1>0, <1>11, <1>14 DEF OnTerminalExited, workVars
<1>15. CASE UNCHANGED terminalVars
  BY <1>0, <1>15 DEF terminalVars, paneVars, workVars, farVars
<1> QED
  BY <1>1, <1>2, <1>3, <1>4, <1>5, <1>6, <1>7, <1>8, <1>9, <1>10, <1>12, <1>13, <1>14, <1>15
  DEF TerminalNext


\* A session that the widget lets go of is nobody's any more.
LEMMA PaneStays == PaneSessionInv /\ [TerminalNext]_terminalVars => PaneInv'
<1> SUFFICES ASSUME PaneSessionInv, [TerminalNext]_terminalVars PROVE PaneInv'
  OBVIOUS
<1>0. TerminalTypeOK /\ PaneInv /\ SessionsKnown /\ opened \in Nat
  BY DEF PaneSessionInv, TerminalTypeOK
<1>a. \A s : s \in alive \/ s = session_id \/ s = opener.of \/ (\E c \in closers : s = c.of)
             \/ (\E i \in 1..Len(frames) : s = frames[i].of) => s # opened + 1
  <2>1. session_id \in Nat /\ opener.of \in Nat /\ \A c \in closers : c.of \in Nat
    BY <1>0 DEF TerminalTypeOK, Shell, Closer, NoShell
  <2>2. \A i \in 1..Len(frames) : frames[i].of \in Nat
    <3>1. \A i \in 1..Len(frames) : frames[i] \in Frame
      BY <1>0 DEF TerminalTypeOK
    <3> QED
      BY <3>1 DEF Frame, Shell, NoShell
  <2>3. \A n \in Nat : n <= opened => n # opened + 1
    BY <1>0
  <2> QED
    BY <1>0, <2>1, <2>2, <2>3 DEF SessionsKnown
<1>b. \A s : s # opened + 1 /\ Released(s) => Released(s)'
  BY ReleasedStays
<1>1. ASSUME NEW s, ~connected /\ s = session_id PROVE Released(s)'
  BY <1>0, <1>1, <1>a, <1>b DEF PaneInv
<1>2. ASSUME NEW c \in closers, ~(connected /\ ~c.back), NEW s, s = c.of
      PROVE  Released(s)'
  BY <1>0, <1>2, <1>a, <1>b DEF PaneInv
<1>3. ASSUME NEW i \in 1..Len(frames), frames[i].kind = "exited", NEW s, s = frames[i].of
      PROVE  Released(s)'
  <2>1. Released(s)
    BY <1>0, <1>3 DEF PaneInv
  <2>2. s # opened + 1
    BY <1>a, <1>3
  <2> QED
    BY <1>b, <2>1, <2>2
<1>4. /\ opener.phase # "idle" => ~connected /\ closers = {}
      /\ opener.phase \in {"idle", "asks", "refused"} => opener.of = NoShell
      /\ \A i \in 1..Len(frames) : frames[i].kind = "refused" <=> frames[i].of = NoShell
      /\ connected => session_id # NoShell
      /\ opener.phase = "opened" => opener.of # NoShell
      /\ \A c \in closers : c.of # NoShell
      /\ connected => \A c \in closers : c.of = session_id
      /\ opener.phase \in {"idle", "asks", "opened", "refused"}
  BY <1>0 DEF PaneInv, TerminalTypeOK
<1>5. Released(NoShell)'
  <2>1. NoShell \notin alive /\ NoShell # opened + 1
    BY <1>0 DEF TerminalTypeOK, Shell, NoShell
  <2> QED
    BY <1>b, <2>1 DEF Released
\* What holds of the frames that stay.
<1>6. ASSUME frames' = frames
      PROVE  \A i \in 1..Len(frames') :
                /\ frames'[i].kind = "exited" => Released(frames[i].of)'
                /\ frames'[i].kind = "refused" <=> frames'[i].of = NoShell
  BY <1>3, <1>4, <1>6
<1>7. ASSUME NEW kind \in {"opened", "refused", "output", "exited"}, NEW s \in Shell \cup {NoShell},
             Comes(kind, s), kind = "refused" <=> s = NoShell, kind = "exited" => Released(s)'
      PROVE  \A i \in 1..Len(frames') :
                /\ frames'[i].kind = "exited" => Released(frames[i].of)'
                /\ frames'[i].kind = "refused" <=> frames'[i].of = NoShell
  <2>1. /\ frames'[Len(frames) + 1].kind = kind /\ frames'[Len(frames) + 1].of = s
        /\ \A i \in 1..Len(frames) : frames'[i] = frames[i]
        /\ \A i \in 1..Len(frames') : i \in 1..Len(frames) \/ i = Len(frames) + 1
    BY <1>0, <1>7, FramesCome
  <2> TAKE i \in 1..Len(frames')
  <2>2. CASE i \in 1..Len(frames)
    BY <1>3, <1>4, <2>1, <2>2
  <2>3. CASE i = Len(frames) + 1
    BY <1>7, <2>1, <2>3
  <2> QED
    BY <2>1, <2>2, <2>3
<1>8. ASSUME NEW kind, Takes(kind)
      PROVE  /\ \A i \in 1..Len(frames') :
                /\ frames'[i].kind = "exited" => Released(frames[i].of)'
                /\ frames'[i].kind = "refused" <=> frames'[i].of = NoShell
             /\ Head1.kind = kind
             /\ Head1.kind = "refused" <=> Head1.of = NoShell
             /\ Head1.kind = "exited" => Released(Head1.of)
  <2>1. /\ \A i \in 1..Len(frames') : i + 1 \in 1..Len(frames) /\ frames'[i] = frames[i + 1]
        /\ 1 \in 1..Len(frames) /\ Head1 = frames[1] /\ frames[1].kind = kind
    BY <1>0, <1>8, FramesGo
  <2>2. \A i \in 1..Len(frames') :
                /\ frames'[i].kind = "exited" => Released(frames[i].of)'
                /\ frames'[i].kind = "refused" <=> frames'[i].of = NoShell
    BY <1>3, <1>4, <2>1
  <2> QED
    BY <1>0, <1>4, <2>1, <2>2 DEF PaneInv
<1> DEFINE Good == \A i \in 1..Len(frames') :
                      /\ frames'[i].kind = "exited" => Released(frames[i].of)'
                      /\ frames'[i].kind = "refused" <=> frames'[i].of = NoShell
           Rest == /\ ~connected' => Released(session_id)'
                   /\ opener'.phase # "idle" => ~connected' /\ closers' = {}
                   /\ opener'.phase \in {"idle", "asks", "refused"} => opener'.of = NoShell
                   /\ \A c \in closers' : (connected' /\ ~c.back) \/ Released(c.of)'
                   /\ connected' => \A c \in closers' : c.of = session_id'
                   /\ connected' => session_id' # NoShell
                   /\ opener'.phase = "opened" => opener'.of # NoShell
                   /\ \A c \in closers' : c.of # NoShell
<1> SUFFICES Good /\ Rest
  BY DEF PaneInv
<1> USE DEF Resting
<1> HIDE DEF Good, Rest
<1>10. CASE DoConnect
  <2>1. frames' = frames /\ connected' = connected /\ ~connected /\ session_id' = session_id
        /\ closers' = {} /\ opener' = [phase |-> "asks", of |-> NoShell]
    BY <1>10 DEF DoConnect, farVars
  <2> QED
    BY <1>1, <1>6, <2>1 DEF Good, Rest
<1>11. CASE Connected
  <2>1. frames' = frames /\ connected' /\ session_id' = opener.of /\ opener' = Resting
        /\ closers' = closers /\ opener.phase = "opened"
    BY <1>11 DEF Connected, farVars
  <2>2. session_id' # NoShell /\ closers' = {}
    BY <1>4, <2>1
  <2> QED
    BY <1>6, <2>1, <2>2 DEF Good, Rest
<1>12. CASE ConnectFailed
  <2>1. frames' = frames /\ connected' = connected /\ session_id' = session_id /\ opener' = Resting
        /\ closers' = closers /\ opener.phase = "refused"
    BY <1>12 DEF ConnectFailed, farVars
  <2>2. ~connected' /\ closers' = {}
    BY <1>4, <2>1
  <2> QED
    BY <1>1, <1>6, <2>1, <2>2 DEF Good, Rest
<1>13. CASE Disconnect
  <2>1. PICK i \in 1..MaxClosers : closers' = closers \cup {[id |-> i, of |-> session_id, back |-> FALSE]}
    BY <1>13 DEF Disconnect
  <2>2. frames' = frames /\ connected' = connected /\ connected /\ session_id' = session_id
        /\ opener' = opener /\ opener = Resting
    BY <1>13 DEF Disconnect, farVars, paneVars
  <2>3. \A c \in closers' : c \in closers \/ (c.of = session_id /\ ~c.back)
    BY <2>1
  <2>4. \A c \in closers' : (connected' /\ ~c.back) \/ Released(c.of)'
    BY <1>2, <2>2, <2>3
  <2>5. \A c \in closers' : c.of # NoShell
    BY <1>4, <2>2, <2>3
  <2>6. \A c \in closers' : c.of = session_id'
    BY <1>4, <2>2, <2>3
  <2> QED
    BY <1>4, <1>6, <2>2, <2>4, <2>5, <2>6 DEF Good, Rest
<1>14. CASE TerminalUnmount
  <2>1. frames' = frames /\ ~connected' /\ session_id' = NoShell /\ opener' = Resting /\ closers' = {}
    BY <1>14 DEF TerminalUnmount, farVars, Cleanup
  <2> QED
    BY <1>5, <1>6, <2>1 DEF Good, Rest
<1>15. ASSUME UNCHANGED <<connected, session_id, opener, closers>>
       PROVE  Rest
  <2>1. \A c \in closers : (connected /\ ~c.back) \/ Released(c.of)'
    BY <1>2
  <2> QED
    BY <1>1, <1>4, <1>15, <2>1 DEF Rest
<1>16. CASE Opens
  <2>1. Rest
    BY <1>15, <1>16 DEF Opens, paneVars, workVars
  <2>2. CASE opened < MaxOpens /\ Comes("opened", opened + 1)
    <3>1. opened + 1 \in Shell /\ opened + 1 # NoShell
      <4>1. opened \in Nat /\ MaxOpens \in Nat
        BY <1>0, DeviceTerminalAssumption
      <4> QED
        BY <2>2, <4>1 DEF Shell, NoShell
    <3> QED
      BY <1>7, <2>1, <2>2, <3>1 DEF Good
  <2>3. CASE Comes("refused", NoShell)
    BY <1>7, <2>1, <2>3 DEF Good
  <2> QED
    BY <1>16, <2>2, <2>3 DEF Opens
<1>17. ASSUME NEW s \in Shell, Prints(s) \/ Exits(s)
       PROVE  Good /\ Rest
  <2>1. Rest
    BY <1>15, <1>17 DEF Prints, Exits, paneVars, workVars
  <2>2. s # NoShell
    BY DEF Shell, NoShell
  <2>3. CASE Prints(s)
    BY <1>7, <2>1, <2>2, <2>3 DEF Prints, Good
  <2>4. CASE Exits(s)
    <3>1. Comes("exited", s) /\ s \notin alive'
      BY <2>4 DEF Exits
    <3>2. Released(s)'
      BY <3>1 DEF Released
    <3> QED
      BY <1>7, <2>1, <2>2, <3>1, <3>2 DEF Good
  <2> QED
    BY <1>17, <2>3, <2>4
<1>18. ASSUME NEW s \in Shell, Closes(s)
       PROVE  Good /\ Rest
  BY <1>6, <1>15, <1>18 DEF Closes, paneVars, Good
<1>19. ASSUME NEW c \in Closer, Disconnected(c)
       PROVE  Good /\ Rest
  <2>1. frames' = frames /\ ~connected' /\ session_id' = NoShell /\ opener' = opener
        /\ closers' = closers \ {c} /\ c \in closers /\ c.back
    BY <1>19 DEF Disconnected, farVars, Cleanup
  <2>2. \A d \in closers' : Released(d.of)'
    <3> TAKE d \in closers'
    <3>1. CASE ~(connected /\ ~d.back)
      BY <1>2, <2>1, <3>1
    <3>2. CASE connected
      <4>1. Released(c.of)' /\ d.of = c.of
        BY <1>2, <1>4, <2>1, <3>2
      <4> QED
        BY <4>1
    <3> QED
      BY <3>1, <3>2
  <2> QED
    BY <1>4, <1>5, <1>6, <2>1, <2>2 DEF Good, Rest
<1>20. ASSUME NEW c \in Closer, CloserBack(c)
       PROVE  Good /\ Rest
  <2> DEFINE answered == [c EXCEPT !.back = TRUE]
  <2>1. frames' = frames /\ connected' = connected /\ session_id' = session_id /\ opener' = opener
        /\ closers' = (closers \ {c}) \cup {answered} /\ c \in closers
    BY <1>20 DEF CloserBack, paneVars
  <2>2. answered.of = c.of /\ answered.back
    BY DEF Closer
  <2>3. Released(c.of)'
    BY <1>20 DEF CloserBack, Released
  <2> HIDE DEF answered
  <2>4. \A d \in closers' : d \in closers \/ (d.of = c.of /\ Released(d.of)')
    BY <2>1, <2>2, <2>3
  <2>5. \A d \in closers' : (connected' /\ ~d.back) \/ Released(d.of)'
    BY <1>2, <2>1, <2>4
  <2>6. \A d \in closers' : d.of # NoShell /\ (connected' => d.of = session_id')
    BY <1>4, <2>1, <2>4
  <2>7. opener'.phase # "idle" => ~connected' /\ closers' = {}
    BY <1>4, <2>1
  <2>8. ~connected' => Released(session_id)'
    BY <1>1, <2>1
  <2> QED
    BY <1>4, <1>6, <2>1, <2>5, <2>6, <2>7, <2>8 DEF Good, Rest
<1>21. CASE Answered
  <2>1. PICK kind \in {"opened", "refused"} : Takes(kind)
    BY <1>21 DEF Answered
  <2>2. Good /\ Head1.kind = kind /\ (Head1.kind = "refused" <=> Head1.of = NoShell)
    BY <1>8, <2>1 DEF Good
  <2>3. CASE opener.phase # "asks"
    BY <1>15, <1>21, <2>2, <2>3 DEF Answered, paneVars
  <2>4. CASE opener.phase = "asks"
    <3>1. opener' = [phase |-> Head1.kind, of |-> Head1.of] /\ closers' = closers
          /\ connected' = connected /\ session_id' = session_id /\ ~connected /\ closers = {}
      BY <1>4, <1>21, <2>4 DEF Answered, paneVars
    <3>2. opener'.phase = kind /\ opener'.of = Head1.of
      BY <2>2, <3>1
    <3>3. ~connected' => Released(session_id)'
      BY <1>1, <3>1
    <3> QED
      BY <2>1, <2>2, <3>1, <3>2, <3>3 DEF Rest
  <2> QED
    BY <2>3, <2>4
<1>22. CASE OnTerminalOutput
  BY <1>8, <1>15, <1>22 DEF OnTerminalOutput, paneVars, workVars, Good
<1>23. CASE OnTerminalExited
  <2>1. Good /\ Head1.kind = "exited" /\ Released(Head1.of) /\ Takes("exited")
    BY <1>8, <1>23 DEF OnTerminalExited, Good
  <2>2. connected' = (connected /\ ~(registered /\ Head1.of = session_id)) /\ session_id' = session_id
        /\ opener' = opener /\ closers' = closers
    BY <1>23 DEF OnTerminalExited, workVars
  <2>3. CASE connected' = connected
    BY <1>15, <2>1, <2>2, <2>3
  <2>4. CASE connected' # connected
    <3>1. connected /\ ~connected' /\ Head1.of = session_id
      BY <1>0, <2>2, <2>4 DEF TerminalTypeOK
    <3>2. \A s : s = session_id => Released(s)'
      BY <1>a, <1>b, <2>1, <3>1
    <3>3. \A c \in closers' : Released(c.of)'
      BY <1>4, <2>2, <3>1, <3>2
    <3>4. Released(session_id)'
      BY <2>2, <3>2
    <3> QED
      BY <1>4, <2>1, <2>2, <3>1, <3>3, <3>4 DEF Rest
  <2> QED
    BY <2>3, <2>4
<1>24. CASE UNCHANGED terminalVars
  BY <1>6, <1>15, <1>24 DEF terminalVars, paneVars, workVars, farVars, Good
<1> QED
  BY <1>10, <1>11, <1>12, <1>13, <1>14, <1>16, <1>17, <1>18, <1>19, <1>20, <1>21, <1>22, <1>23, <1>24
  DEF TerminalNext

\* Where a session is known, s among those the daemon keeps.
Kept(s) == \/ s \in dropped \cup closing \/ s \in {session_id, opener.of}
           \/ \E i \in 1..Len(frames) : frames[i] = [kind |-> "opened", of |-> s]
           \/ \E c \in closers : c.of = s

LEMMA SessionsStayKept == PaneSessionInv /\ [TerminalNext]_terminalVars => NoSessionLeft'
<1> SUFFICES ASSUME PaneSessionInv, [TerminalNext]_terminalVars PROVE NoSessionLeft'
  OBVIOUS
<1>0. TerminalTypeOK /\ PaneInv /\ SessionsKnown
  BY DEF PaneSessionInv
<1>1. NoShell \notin alive /\ \A s \in alive : Kept(s)
  BY DEF PaneSessionInv, NoSessionLeft, Kept, TerminalTypeOK, Shell, NoShell
<1>2. /\ ~connected => \A s \in alive : s = session_id => s \in dropped \cup closing
      /\ \A s \in alive : \A c \in closers : c.of = s =>
            (connected /\ ~c.back /\ s = session_id) \/ s \in dropped \cup closing
      /\ opener.phase # "idle" => ~connected /\ closers = {}
      /\ opener.phase # "opened" => opener.of = NoShell
  BY <1>0 DEF PaneInv, Released, TerminalTypeOK
<1> SUFFICES ASSUME NEW s \in alive' PROVE Kept(s)'
  BY DEF NoSessionLeft, Kept
<1>3. s \in alive \/ s = opened'
  BY ReleasedStays
<1> DEFINE Coming == \E i \in 1..Len(frames) : frames[i] = [kind |-> "opened", of |-> s]
<1>4. s \in alive => s # NoShell /\ (s \in dropped \cup closing \/ s \in {session_id, opener.of} \/ Coming
                                     \/ \E c \in closers : c.of = s)
  BY <1>1 DEF Kept
<1>5. ASSUME NEW kind \in {"opened", "refused", "output", "exited"}, NEW t \in Shell \cup {NoShell},
             Comes(kind, t), Coming
      PROVE  Coming'
  <2>1. \A i \in 1..Len(frames) : i \in 1..Len(frames') /\ frames'[i] = frames[i]
    BY <1>0, <1>5, FramesCome
  <2> QED
    BY <1>5, <2>1
<1>6. ASSUME NEW kind, Takes(kind), Coming
      PROVE  Coming' \/ (kind = "opened" /\ Head1.of = s)
  <2>1. /\ \A i \in 1..Len(frames) : i = 1 \/ (i - 1 \in 1..Len(frames') /\ frames'[i - 1] = frames[i])
        /\ Head1 = frames[1] /\ frames[1].kind = kind
    BY <1>0, <1>6, FramesGo
  <2>2. PICK i \in 1..Len(frames) : frames[i] = [kind |-> "opened", of |-> s]
    BY <1>6
  <2>3. CASE i = 1
    BY <2>1, <2>2, <2>3
  <2>4. CASE i # 1
    BY <2>1, <2>2, <2>4
  <2> QED
    BY <2>3, <2>4
<1> DEFINE Held == \E c \in closers : c.of = s
<1>7. Kept(s)' <=> s \in dropped' \cup closing' \/ s = session_id' \/ s = opener'.of \/ Coming' \/ Held'
  BY DEF Kept
<1>8. s \in alive => s # NoShell /\ (s \in dropped \cup closing \/ s = session_id \/ s = opener.of \/ Coming \/ Held)
  BY <1>4
<1>9. frames' = frames /\ Coming => Coming'
  OBVIOUS
<1>10. closers' = closers /\ Held => Held'
  OBVIOUS
<1> HIDE DEF Coming
<1>11. CASE DoConnect
  <2>1. frames' = frames /\ ~connected /\ session_id' = session_id /\ opener = Resting /\ s \in alive
        /\ UNCHANGED <<dropped, closing>>
    BY <1>11 DEF DoConnect, farVars
  <2> QED
    BY <1>2, <1>7, <1>8, <1>9, <2>1 DEF Resting
<1>12. CASE Connected
  <2>1. frames' = frames /\ session_id' = opener.of /\ opener.phase = "opened" /\ s \in alive
        /\ UNCHANGED <<dropped, closing, closers>>
    BY <1>12 DEF Connected, farVars
  <2> QED
    BY <1>2, <1>7, <1>8, <1>9, <2>1
<1>13. CASE ConnectFailed
  <2>1. frames' = frames /\ session_id' = session_id /\ opener.phase = "refused" /\ s \in alive
        /\ UNCHANGED <<dropped, closing, closers>>
    BY <1>13 DEF ConnectFailed, farVars
  <2> QED
    BY <1>2, <1>7, <1>8, <1>9, <1>10, <2>1
<1>14. CASE Disconnect
  <2>1. frames' = frames /\ session_id' = session_id /\ opener' = opener /\ s \in alive
        /\ UNCHANGED <<dropped, closing>> /\ closers \subseteq closers'
    BY <1>14 DEF Disconnect, farVars, paneVars
  <2> QED
    BY <1>7, <1>8, <1>9, <2>1
<1>15. CASE TerminalUnmount
  <2>1. /\ frames' = frames /\ s \in alive
        /\ closing' = IF connected THEN closing \cup {session_id} ELSE closing
        /\ dropped' = dropped \cup ({opener.of} \ {NoShell})
    BY <1>15 DEF TerminalUnmount, farVars
  <2>2. CASE s = session_id \/ Held
    BY <1>2, <1>7, <1>8, <2>1, <2>2
  <2>3. CASE s = opener.of
    BY <1>7, <1>8, <2>1, <2>3
  <2> QED
    BY <1>7, <1>8, <1>9, <2>1, <2>2, <2>3
<1>16. CASE Opens
  <2>1. UNCHANGED <<dropped, closing, session_id, opener, closers>>
    BY <1>16 DEF Opens, paneVars, workVars
  <2>2. CASE s \in alive
    <3>1. Coming => Coming'
      <4>1. CASE opened < MaxOpens /\ Comes("opened", opened + 1)
        <5>1. opened + 1 \in Shell \cup {NoShell}
          BY <1>0, <4>1, DeviceTerminalAssumption DEF TerminalTypeOK, Shell
        <5> QED
          BY <1>5, <4>1, <5>1
      <4>2. CASE Comes("refused", NoShell)
        BY <1>5, <4>2
      <4> QED
        BY <1>16, <4>1, <4>2 DEF Opens
    <3> QED
      BY <1>7, <1>8, <1>10, <2>1, <2>2, <3>1
  <2>3. CASE s \notin alive
    <3>1. opened < MaxOpens /\ Comes("opened", opened + 1) /\ s = opened + 1
      BY <1>16, <2>3 DEF Opens
    <3>2. opened + 1 \in Shell
      BY <1>0, <3>1, DeviceTerminalAssumption DEF TerminalTypeOK, Shell
    <3>3. Len(frames) + 1 \in 1..Len(frames') /\ frames'[Len(frames) + 1] = [kind |-> "opened", of |-> s]
      <4> DEFINE new == [kind |-> "opened", of |-> s]
      <4>1. frames' = Append(frames, new)
        BY <3>1 DEF Comes
      <4>2. Len(frames) + 1 \in 1..Len(frames')
        BY <1>0, <3>1, <3>2, FramesCome
      <4> HIDE DEF new
      <4>3. frames'[Len(frames) + 1] = new
        BY <1>0, <4>1 DEF TerminalTypeOK
      <4> QED
        BY <4>2, <4>3 DEF new
    <3> QED
      BY <1>7, <3>3 DEF Coming
  <2> QED
    BY <2>2, <2>3
<1>17. ASSUME NEW t \in Shell, Prints(t) \/ Exits(t) PROVE Kept(s)'
  <2>1. UNCHANGED <<dropped, closing, session_id, opener, closers>> /\ s \in alive
        /\ (Comes("output", t) \/ Comes("exited", t))
    BY <1>17 DEF Prints, Exits, paneVars, workVars
  <2> QED
    BY <1>5, <1>7, <1>8, <1>10, <2>1
<1>18. ASSUME NEW t \in Shell, Closes(t) PROVE Kept(s)'
  <2>1. UNCHANGED <<session_id, opener, closers, frames>> /\ s \in alive /\ dropped \subseteq dropped'
        /\ (s = t => s \in dropped') /\ closing' = closing \ {t}
    BY <1>18 DEF Closes, paneVars
  <2> QED
    BY <1>7, <1>8, <1>9, <1>10, <2>1
<1>19. ASSUME NEW c \in Closer, Disconnected(c) PROVE Kept(s)'
  <2>1. UNCHANGED <<dropped, closing, opener, frames>> /\ s \in alive /\ closers' = closers \ {c}
        /\ c \in closers /\ c.back
    BY <1>19 DEF Disconnected, farVars
  <2>2. CASE s = session_id
    <3>1. connected => c.of = session_id
      BY <1>0, <2>1 DEF PaneInv
    <3> QED
      BY <1>2, <1>7, <2>1, <2>2, <3>1
  <2>3. CASE s # session_id /\ Held
    <3>1. PICK d \in closers : d.of = s
      BY <2>3
    <3> QED
      BY <1>2, <1>7, <2>1, <2>3, <3>1
  <2> QED
    BY <1>7, <1>8, <1>9, <2>1, <2>2, <2>3
<1>20. ASSUME NEW c \in Closer, CloserBack(c) PROVE Kept(s)'
  <2> DEFINE answered == [c EXCEPT !.back = TRUE]
  <2>1. frames' = frames /\ session_id' = session_id /\ opener' = opener /\ s \in alive
        /\ closing' = closing /\ dropped \subseteq dropped'
        /\ closers' = (closers \ {c}) \cup {answered} /\ c \in closers
    BY <1>20 DEF CloserBack, paneVars
  <2>2. answered.of = c.of
    BY DEF Closer
  <2> HIDE DEF answered
  <2>3. Held => Held'
    BY <2>1, <2>2
  <2> QED
    BY <1>7, <1>8, <1>9, <2>1, <2>3
<1>21. CASE Answered
  <2>1. PICK kind \in {"opened", "refused"} : Takes(kind)
    BY <1>21 DEF Answered
  <2>2. UNCHANGED <<session_id, closing, closers>> /\ s \in alive
        /\ dropped \subseteq dropped'
        /\ IF opener.phase = "asks" THEN opener'.of = Head1.of
           ELSE opener' = opener /\ dropped' = dropped \cup ({Head1.of} \ {NoShell})
    BY <1>21 DEF Answered, paneVars
  <2>3. Coming => Coming' \/ Head1.of = s
    BY <1>6, <2>1
  <2> QED
    BY <1>2, <1>7, <1>8, <1>10, <2>2, <2>3
<1>22. CASE OnTerminalOutput \/ OnTerminalExited
  <2>1. UNCHANGED <<session_id, closing, closers, opener, dropped>> /\ s \in alive
        /\ (Takes("output") \/ Takes("exited"))
    BY <1>22 DEF OnTerminalOutput, OnTerminalExited, paneVars, workVars
  <2>2. Coming => Coming'
    BY <1>6, <2>1
  <2> QED
    BY <1>7, <1>8, <1>10, <2>1, <2>2
<1>23. CASE UNCHANGED terminalVars
  <2>1. UNCHANGED <<session_id, closing, closers, opener, dropped, frames, alive>>
    BY <1>23 DEF terminalVars, paneVars, workVars, farVars
  <2> QED
    BY <1>7, <1>8, <1>9, <1>10, <2>1
<1> QED
  BY <1>11, <1>12, <1>13, <1>14, <1>15, <1>16, <1>17, <1>18, <1>19, <1>20, <1>21, <1>22, <1>23
  DEF TerminalNext

LEMMA PaneInvariant == TerminalSpec => []PaneSessionInv
<1>1. PaneSessionInv /\ [TerminalNext]_terminalVars => PaneSessionInv'
  BY PaneTypesStay, SessionsKnownStay, PaneStays, SessionsStayKept DEF PaneSessionInv
<1> QED
  BY <1>1, PaneStarts, PTL DEF TerminalSpec

-----------------------------------------------------------------------------
(* The detail screen of a device.                                           *)

\* Nothing is fetched for a device that is not found.
FetchInv ==
    /\ view = "new" => ~spinner /\ ~due /\ ~lookup /\ refresh = "idle" /\ linkWork = "idle"
    /\ lookup => device # "found"
    /\ spinner \/ due \/ refresh # "idle" \/ linkWork # "idle" => device = "found"
    /\ refresh \in {"begun", "link", "query", "rpc"} \/ ~spinner \/ view # "shown"

\* Taps are counted.
TapInv ==
    /\ \A b \in Button : 2 * sent[b] + voided[b] + (IF b \in armed THEN 1 ELSE 0) <= taps[b]
    /\ view # "gone" =>
          \A b \in Button : 2 * sent[b] + voided[b] + (IF b \in armed THEN 1 ELSE 0) = taps[b]
    /\ view = "gone" => armed = {} /\ late = {} /\ \A b \in Button : timers[b] = 0

DetailInv == DetailTypeOK /\ FetchInv /\ TapInv

\* The types of the fetches, of what they show, and of the taps.
FetchTypes ==
    /\ view \in {"new", "shown", "suspended", "gone"} /\ device \in {"unknown", "found", "missing"}
    /\ {lookup, due, linked, spinner} \subseteq BOOLEAN
    /\ refresh \in {"idle", "begun", "link", "query", "rpc"} /\ linkWork \in {"idle", "asks", "status"}
AnswerTypes ==
    /\ status \in 0..answers /\ cached \in 0..answers /\ answers \in 0..MaxAnswers
    /\ visits \in 0..MaxVisits
TapTypes ==
    /\ armed \subseteq Button /\ late \subseteq Button
    /\ timers \in [Button -> 0..MaxTaps] /\ taps \in [Button -> 0..MaxTaps]
    /\ sent \in [Button -> 0..MaxTaps] /\ voided \in [Button -> 0..MaxTaps]

LEMMA DetailTypesAre == DetailTypeOK <=> FetchTypes /\ AnswerTypes /\ TapTypes
  BY DEF DetailTypeOK, FetchTypes, AnswerTypes, TapTypes

LEMMA DetailStarts == DetailInit => DetailInv
<1> SUFFICES ASSUME DetailInit PROVE DetailInv
  OBVIOUS
<1>1. DetailTypeOK
  <2>1. MaxAnswers \in Nat /\ MaxVisits \in Nat /\ MaxTaps \in Nat
    BY DetailAssumption
  <2>2. FetchTypes
    BY DEF DetailInit, FetchTypes
  <2>3. AnswerTypes
    BY <2>1 DEF DetailInit, AnswerTypes
  <2>4. TapTypes
    BY <2>1 DEF DetailInit, TapTypes
  <2> QED
    BY <2>2, <2>3, <2>4, DetailTypesAre
<1>2. FetchInv
  BY DEF DetailInit, FetchInv
<1>3. TapInv
  BY DEF DetailInit, TapInv
<1> QED
  BY <1>1, <1>2, <1>3 DEF DetailInv

\* The steps of the fetches.
FetchStep ==
    \/ DetailMount \/ DetailSuspend \/ DetailResume \/ DetailUnmount
    \/ AsyncLoadDevice \/ AfterRefresh \/ RefreshStatus
    \/ FetchBegins \/ LinkStatusKnown \/ StatusArrives \/ StatusFails \/ CacheExpires
    \/ EstablishLink \/ LinkAnswered \/ LinkReported

LEMMA FetchesStay ==
  ASSUME DetailInv, [DetailNext]_deviceVars
  PROVE  FetchTypes' /\ FetchInv'
<1>0. FetchTypes /\ FetchInv
  BY DetailTypesAre DEF DetailInv
<1> USE DEF FetchTypes, FetchInv, tapVars
<1>1. CASE DetailMount
  BY <1>0, <1>1 DEF DetailMount, Begins
<1>2. CASE DetailSuspend
  BY <1>0, <1>2 DEF DetailSuspend, StopsWork
<1>3. CASE DetailResume
  BY <1>0, <1>3 DEF DetailResume, Begins
<1>4. CASE DetailUnmount
  BY <1>0, <1>4 DEF DetailUnmount, StopsWork
<1>5. CASE AsyncLoadDevice
  <2>1. device # "found" /\ ~spinner /\ ~due /\ refresh = "idle" /\ linkWork = "idle" /\ view # "new"
    BY <1>0, <1>5 DEF AsyncLoadDevice
  <2>2. /\ UNCHANGED <<view, refresh, linkWork, linked, spinner>> /\ lookup' = FALSE
        /\ (device' = "found" /\ due' = TRUE) \/ (device' = "missing" /\ due' = due)
    BY <1>5, <2>1, Zenon DEF AsyncLoadDevice
  <2>3. FetchTypes'
    BY <1>0, <2>2
  <2>4. FetchInv'
    BY <1>0, <2>1, <2>2
  <2> QED
    BY <2>3, <2>4
<1>6. CASE AfterRefresh
  BY <1>0, <1>6 DEF AfterRefresh
<1>7. CASE RefreshStatus
  BY <1>0, <1>7 DEF RefreshStatus
<1>8. CASE FetchBegins
  BY <1>0, <1>8 DEF FetchBegins
<1>9. CASE LinkStatusKnown
  BY <1>0, <1>9 DEF LinkStatusKnown
<1>10. CASE StatusArrives
  BY <1>0, <1>10 DEF StatusArrives
<1>11. CASE StatusFails
  BY <1>0, <1>11 DEF StatusFails
<1>12. CASE CacheExpires
  BY <1>0, <1>12 DEF CacheExpires
<1>13. CASE EstablishLink
  BY <1>0, <1>13 DEF EstablishLink
<1>14. CASE LinkAnswered
  BY <1>0, <1>14 DEF LinkAnswered
<1>15. CASE LinkReported
  BY <1>0, <1>15 DEF LinkReported
<1>16. CASE (\E b \in Button : Tap(b) \/ TimerFires(b) \/ DisarmLate(b)) \/ UNCHANGED deviceVars
  <2>1. UNCHANGED detailVars
    BY <1>16 DEF Tap, TimerFires, DisarmLate, deviceVars
  <2> QED
    BY <1>0, <2>1 DEF detailVars
<1> QED
  BY <1>1, <1>2, <1>3, <1>4, <1>5, <1>6, <1>7, <1>8, <1>9, <1>10, <1>11, <1>12, <1>13, <1>14, <1>15,
     <1>16 DEF DetailNext

LEMMA AnswersStayTyped ==
  ASSUME DetailInv, [DetailNext]_deviceVars
  PROVE  AnswerTypes'
<1>0. AnswerTypes /\ MaxAnswers \in Nat /\ MaxVisits \in Nat
  BY DetailTypesAre, DetailAssumption DEF DetailInv
<1> USE DEF AnswerTypes
<1>1. CASE DetailSuspend
  BY <1>0, <1>1 DEF DetailSuspend
<1>2. CASE LinkStatusKnown
  BY <1>0, <1>2 DEF LinkStatusKnown
<1>3. CASE StatusArrives
  BY <1>0, <1>3 DEF StatusArrives, CacheStatus
<1>4. CASE CacheExpires
  BY <1>0, <1>4 DEF CacheExpires
<1>5. CASE DetailMount \/ DetailResume \/ DetailUnmount \/ AsyncLoadDevice \/ AfterRefresh \/ RefreshStatus
           \/ FetchBegins \/ StatusFails \/ EstablishLink \/ LinkAnswered \/ LinkReported
  <2>1. UNCHANGED <<status, cached, answers, visits>>
    BY <1>5 DEF DetailMount, DetailResume, DetailUnmount, AsyncLoadDevice, AfterRefresh, RefreshStatus,
                FetchBegins, StatusFails, EstablishLink, LinkAnswered, LinkReported
  <2> QED
    BY <1>0, <2>1
<1>6. CASE (\E b \in Button : Tap(b) \/ TimerFires(b) \/ DisarmLate(b)) \/ UNCHANGED deviceVars
  <2>1. UNCHANGED detailVars
    BY <1>6 DEF Tap, TimerFires, DisarmLate, deviceVars
  <2> QED
    BY <1>0, <2>1 DEF detailVars
<1> QED
  BY <1>1, <1>2, <1>3, <1>4, <1>5, <1>6 DEF DetailNext

LEMMA TapsStay ==
  ASSUME DetailInv, [DetailNext]_deviceVars
  PROVE  TapTypes' /\ TapInv'
<1>0. TapTypes /\ TapInv /\ MaxTaps \in Nat
  BY DetailTypesAre, DetailAssumption DEF DetailInv
<1>1. CASE DetailUnmount
  <2>1. view' = "gone" /\ armed' = {} /\ late' = {} /\ timers' = [b \in Button |-> 0]
        /\ UNCHANGED <<taps, sent, voided>>
    BY <1>1 DEF DetailUnmount
  <2>2. TapTypes'
    BY <1>0, <2>1 DEF TapTypes
  <2>3. \A b \in Button : 2 * sent[b] + voided[b] <= taps[b]
    <3> TAKE b \in Button
    <3>1. sent[b] \in Nat /\ voided[b] \in Nat /\ taps[b] \in Nat
          /\ 2 * sent[b] + voided[b] + (IF b \in armed THEN 1 ELSE 0) <= taps[b]
      BY <1>0 DEF TapTypes, TapInv
    <3> QED
      BY <3>1
  <2>4. \A b \in Button : sent[b] \in Nat /\ voided[b] \in Nat /\ taps[b] \in Nat
    BY <1>0 DEF TapTypes
  <2> QED
    BY <2>1, <2>2, <2>3, <2>4 DEF TapInv
<1>2. ASSUME UNCHANGED tapVars, view' = "gone" <=> view = "gone"
      PROVE  TapTypes' /\ TapInv'
  BY <1>0, <1>2 DEF TapTypes, TapInv, tapVars
<1>3. CASE FetchStep /\ ~DetailUnmount
  <2>1. UNCHANGED tapVars /\ (view' = "gone" <=> view = "gone")
    BY <1>3, Zenon DEF FetchStep, DetailMount, DetailSuspend, DetailResume, AsyncLoadDevice, AfterRefresh,
                RefreshStatus, FetchBegins, LinkStatusKnown, StatusArrives, StatusFails, CacheExpires,
                EstablishLink, LinkAnswered, LinkReported
  <2> QED
    BY <1>2, <2>1
<1>4. CASE UNCHANGED deviceVars
  BY <1>2, <1>4 DEF deviceVars, detailVars
\* What a step on one button leaves of the others.
<1>5. ASSUME NEW b \in Button, TapTypes',
             \A c \in Button \ {b} : /\ sent'[c] = sent[c] /\ voided'[c] = voided[c] /\ taps'[c] = taps[c]
                                     /\ c \in armed' <=> c \in armed,
             view' = view, view # "gone",
             2 * sent'[b] + voided'[b] + (IF b \in armed' THEN 1 ELSE 0) = taps'[b]
      PROVE  TapInv'
  <2>1. \A c \in Button : 2 * sent'[c] + voided'[c] + (IF c \in armed' THEN 1 ELSE 0) = taps'[c]
    BY <1>0, <1>5 DEF TapInv
  <2>2. \A c \in Button : taps'[c] \in Nat
    BY <1>5 DEF TapTypes
  <2>3. \A c \in Button : 2 * sent'[c] + voided'[c] + (IF c \in armed' THEN 1 ELSE 0) <= taps'[c]
    BY <2>1, <2>2
  <2> QED
    BY <1>5, <2>1, <2>3 DEF TapInv
<1>6. ASSUME NEW b \in Button
      PROVE  /\ sent[b] \in Nat /\ voided[b] \in Nat /\ taps[b] \in Nat /\ taps[b] <= MaxTaps
             /\ timers[b] \in 0..MaxTaps
             /\ view # "gone" => 2 * sent[b] + voided[b] + (IF b \in armed THEN 1 ELSE 0) = taps[b]
  BY <1>0 DEF TapTypes, TapInv
<1>7. ASSUME NEW b \in Button, Tap(b)
      PROVE  TapTypes' /\ TapInv'
  <2>1. /\ view' = view /\ view = "shown" /\ late' = late /\ voided' = voided /\ taps[b] < MaxTaps
        /\ taps' = [taps EXCEPT ![b] = @ + 1]
    BY <1>7 DEF Tap, detailVars, Bump
  <2>2. taps' \in [Button -> 0..MaxTaps] /\ taps'[b] = taps[b] + 1 /\ (\A c \in Button \ {b} : taps'[c] = taps[c])
    BY <1>0, <1>6, <2>1 DEF TapTypes
  <2>3. CASE b \in armed
    <3>1. armed' = armed \ {b} /\ timers' = [timers EXCEPT ![b] = 0] /\ sent' = [sent EXCEPT ![b] = @ + 1]
      BY <1>7, <2>3 DEF Tap, Disarm, Bump
    <3>2. sent'[b] = sent[b] + 1 /\ \A c \in Button \ {b} : sent'[c] = sent[c]
      BY <1>0, <3>1 DEF TapTypes
    <3>3. sent[b] + 1 \in 0..MaxTaps
      <4>1. 2 * sent[b] + voided[b] + 1 = taps[b] /\ taps[b] < MaxTaps
            /\ sent[b] \in Nat /\ voided[b] \in Nat /\ taps[b] \in Nat
        BY <1>6, <2>1, <2>3
      <4> QED
        BY <1>0, <4>1
    <3>4. TapTypes'
      BY <1>0, <2>1, <2>2, <3>1, <3>3 DEF TapTypes
    <3>5. 2 * sent'[b] + voided'[b] + (IF b \in armed' THEN 1 ELSE 0) = taps'[b]
      BY <1>6, <2>1, <2>2, <2>3, <3>1, <3>2
    <3> QED
      BY <1>5, <2>1, <2>2, <3>1, <3>2, <3>4, <3>5
  <2>4. CASE b \notin armed
    <3>1. armed' = armed \cup {b} /\ timers' = [timers EXCEPT ![b] = taps'[b]] /\ sent' = sent
      BY <1>7, <2>4 DEF Tap
    <3>2. TapTypes'
      BY <1>0, <2>1, <2>2, <3>1 DEF TapTypes
    <3>3. 2 * sent'[b] + voided'[b] + (IF b \in armed' THEN 1 ELSE 0) = taps'[b]
      BY <1>6, <2>1, <2>2, <2>4, <3>1
    <3> QED
      BY <1>5, <2>1, <2>2, <3>1, <3>2, <3>3
  <2> QED
    BY <2>3, <2>4
<1>8. ASSUME NEW b \in Button, TimerFires(b)
      PROVE  TapTypes' /\ TapInv'
  <2>1. timers[b] # 0 /\ late' = late \cup {b} /\ UNCHANGED <<armed, timers, taps, sent, voided, view>>
    BY <1>8 DEF TimerFires, detailVars
  <2>2. view # "gone"
    BY <1>0, <2>1 DEF TapInv
  <2> QED
    BY <1>0, <2>1, <2>2 DEF TapTypes, TapInv
<1>9. ASSUME NEW b \in Button, DisarmLate(b)
      PROVE  TapTypes' /\ TapInv'
  <2>1. /\ view' = view /\ b \in late /\ late' = late \ {b} /\ taps' = taps /\ sent' = sent
        /\ voided' = (IF b \in armed THEN [voided EXCEPT ![b] = @ + 1] ELSE voided)
        /\ armed' = armed \ {b} /\ timers' = [timers EXCEPT ![b] = 0]
    BY <1>9 DEF DisarmLate, detailVars, Bump, Disarm
  <2>2. view # "gone"
    BY <1>0, <2>1 DEF TapInv
  <2>3. voided'[b] = (IF b \in armed THEN voided[b] + 1 ELSE voided[b])
        /\ \A c \in Button \ {b} : voided'[c] = voided[c]
    BY <1>0, <2>1 DEF TapTypes
  <2>4. b \in armed => voided[b] + 1 \in 0..MaxTaps
    <3>1. b \in armed => 2 * sent[b] + voided[b] + 1 = taps[b]
      BY <1>6, <2>2
    <3>2. taps[b] <= MaxTaps /\ sent[b] \in Nat /\ voided[b] \in Nat /\ taps[b] \in Nat
      BY <1>6
    <3> QED
      BY <1>0, <3>1, <3>2
  <2>5. TapTypes'
    BY <1>0, <2>1, <2>4 DEF TapTypes
  <2>6. 2 * sent'[b] + voided'[b] + (IF b \in armed' THEN 1 ELSE 0) = taps'[b]
    <3>1. 2 * sent[b] + voided[b] + (IF b \in armed THEN 1 ELSE 0) = taps[b]
          /\ sent[b] \in Nat /\ voided[b] \in Nat /\ taps[b] \in Nat
      BY <1>6, <2>2
    <3>2. sent'[b] = sent[b] /\ taps'[b] = taps[b] /\ b \notin armed'
      BY <2>1
    <3> QED
      BY <2>3, <3>1, <3>2
  <2> QED
    BY <1>5, <2>1, <2>2, <2>3, <2>5, <2>6
<1> QED
  BY <1>1, <1>3, <1>4, <1>7, <1>8, <1>9 DEF DetailNext, FetchStep

LEMMA DetailInvariant == DetailSpec => []DetailInv
<1>1. DetailInv /\ [DetailNext]_deviceVars => DetailInv'
  <2> SUFFICES ASSUME DetailInv, [DetailNext]_deviceVars PROVE DetailInv'
    OBVIOUS
  <2>1. DetailTypeOK'
    BY FetchesStay, AnswersStayTyped, TapsStay DEF DetailTypeOK, FetchTypes, AnswerTypes, TapTypes
  <2> QED
    BY <2>1, FetchesStay, TapsStay DEF DetailInv
<1> QED
  BY <1>1, DetailStarts, PTL DEF DetailSpec

LEMMA DetailShows == DetailInv => SpinnerHasWorker /\ TwoTapsEach
<1> SUFFICES ASSUME DetailInv PROVE SpinnerHasWorker /\ TwoTapsEach
  OBVIOUS
<1>1. SpinnerHasWorker
  BY DEF DetailInv, FetchInv, SpinnerHasWorker
<1>2. ASSUME NEW b \in Button, view # "gone"
      PROVE  2 * sent[b] + voided[b] + Cardinality(armed \cap {b}) = taps[b]
  <2>1. Cardinality(armed \cap {b}) = IF b \in armed THEN 1 ELSE 0
    <3>1. armed \cap {b} = IF b \in armed THEN {b} ELSE {}
      OBVIOUS
    <3> QED
      BY <3>1, FS_EmptySet, FS_Singleton
  <2> QED
    BY <1>2, <2>1 DEF DetailInv, TapInv
<1> QED
  BY <1>1, <1>2 DEF TwoTapsEach

\* The answer that is shown is no newer than what the cache holds.
LEMMA StatusStaysNew == DetailInv /\ StatusNeverAges /\ [DetailNext]_deviceVars => StatusNeverAges'
<1> SUFFICES ASSUME DetailInv, StatusNeverAges, [DetailNext]_deviceVars PROVE StatusNeverAges'
  OBVIOUS
<1>0. status \in Nat /\ cached \in Nat /\ answers \in Nat
  BY DetailTypesAre, DetailAssumption DEF DetailInv, AnswerTypes
<1>1. CASE LinkStatusKnown
  BY <1>0, <1>1 DEF LinkStatusKnown, StatusNeverAges
<1>2. CASE StatusArrives
  BY <1>0, <1>2 DEF StatusArrives, CacheStatus, StatusNeverAges
<1>3. CASE CacheExpires
  BY <1>3 DEF CacheExpires, StatusNeverAges
<1>4. ASSUME status' = status, cached' = cached PROVE StatusNeverAges'
  BY <1>4 DEF StatusNeverAges
<1>5. CASE DetailMount \/ DetailSuspend \/ DetailResume \/ DetailUnmount \/ AsyncLoadDevice \/ AfterRefresh
           \/ RefreshStatus \/ FetchBegins \/ StatusFails \/ EstablishLink \/ LinkAnswered \/ LinkReported
  BY <1>4, <1>5 DEF DetailMount, DetailSuspend, DetailResume, DetailUnmount, AsyncLoadDevice, AfterRefresh,
                RefreshStatus, FetchBegins, StatusFails, EstablishLink, LinkAnswered, LinkReported
<1>6. CASE (\E b \in Button : Tap(b) \/ TimerFires(b) \/ DisarmLate(b)) \/ UNCHANGED deviceVars
  BY <1>4, <1>6 DEF Tap, TimerFires, DisarmLate, deviceVars, detailVars
<1> QED
  BY <1>1, <1>2, <1>3, <1>5, <1>6 DEF DetailNext

LEMMA StatusInvariant == DetailSpec => []StatusNeverAges
<1>1. DetailInit => StatusNeverAges
  BY DEF DetailInit, StatusNeverAges
<1> QED
  BY <1>1, StatusStaysNew, DetailInvariant, PTL DEF DetailSpec

-----------------------------------------------------------------------------
(* What the terminal of a device shows.                                     *)

\* The exit of a session is on its way, behind the frame of this number.
ExitBehind(i, s) == \E j \in 1..Len(frames) : i < j /\ frames[j] = [kind |-> "exited", of |-> s]
IsAnswer(i) == frames[i].kind \in {"opened", "refused"}

\* While the widget is mounted nothing closes a session behind its back, and the one
\* answer on its way is that of the worker that asks.
MountedInv ==
    /\ termOn => closing = {}
    /\ ~termOn => ~connected /\ opener.phase = "idle" /\ closers = {}
    /\ termOn => \A i \in 1..Len(frames) : IsAnswer(i) => opener.phase = "asks"
    /\ termOn => \A i, j \in 1..Len(frames) : IsAnswer(i) /\ IsAnswer(j) => i = j

\* A session that is opened lives, or its exit is still to come or was missed; and the
\* handlers hear of it.
HeardInv ==
    /\ connected \/ opener.phase # "idle" => registered
    /\ termOn => \A i \in 1..Len(frames) : frames[i].kind = "opened" =>
                    frames[i].of \in alive \/ ExitBehind(i, frames[i].of)
    /\ opener.phase = "opened" => opener.of \in alive \cup missed \/ ExitComes(opener.of)
    /\ PaneIsTrue

SeenInv == PaneSessionInv /\ MountedInv /\ HeardInv

\* Exits on their way stay so when a frame comes, or another is taken.
LEMMA ExitsStay ==
  ASSUME TerminalTypeOK, frames' = frames
  PROVE  /\ \A s : ExitComes(s) => ExitComes(s)'
         /\ \A i, s : ExitBehind(i, s) => ExitBehind(i, s)'
  BY DEF ExitComes, ExitBehind

LEMMA ExitsCome ==
  ASSUME TerminalTypeOK, NEW kind \in {"opened", "refused", "output", "exited"},
         NEW s \in Shell \cup {NoShell}, Comes(kind, s)
  PROVE  /\ \A t : ExitComes(t) => ExitComes(t)'
         /\ \A i, t : ExitBehind(i, t) => ExitBehind(i, t)'
         /\ kind = "exited" => ExitComes(s)' /\ \A i \in 1..Len(frames) : ExitBehind(i, s)'
<1>1. /\ \A i \in 1..Len(frames) : frames'[i] = frames[i]
      /\ \A i \in 1..Len(frames) : i \in 1..Len(frames')
      /\ Len(frames) + 1 \in 1..Len(frames') /\ Len(frames) \in Nat
  BY FramesCome
<1>2. \A t : ExitComes(t) => ExitComes(t)'
  BY <1>1 DEF ExitComes
<1>3. \A i, t : ExitBehind(i, t) => ExitBehind(i, t)'
  BY <1>1 DEF ExitBehind
<1>4. ASSUME kind = "exited" PROVE ExitComes(s)' /\ \A i \in 1..Len(frames) : ExitBehind(i, s)'
  <2> DEFINE new == [kind |-> kind, of |-> s]
  <2>1. frames \in Seq(Frame) /\ new \in Frame
    BY DEF TerminalTypeOK, Frame
  <2> HIDE DEF new
  <2>2. frames' = Append(frames, new)
    BY DEF Comes, new
  <2>3. frames'[Len(frames) + 1] = new
    BY <2>1, <2>2
  <2>4. frames'[Len(frames) + 1] = [kind |-> "exited", of |-> s]
    BY <1>4, <2>3 DEF new
  <2>5. \A i \in 1..Len(frames) : i < Len(frames) + 1
    BY <1>1
  <2> QED
    BY <1>1, <2>4, <2>5 DEF ExitComes, ExitBehind
<1> QED
  BY <1>2, <1>3, <1>4

LEMMA ExitsGo ==
  ASSUME TerminalTypeOK, NEW kind, Takes(kind)
  PROVE  /\ \A s : ExitComes(s) => ExitComes(s)' \/ (kind = "exited" /\ Head1.of = s)
         /\ \A i \in 1..Len(frames') : \A s : ExitBehind(i + 1, s) => ExitBehind(i, s)'
         /\ \A s : ExitBehind(1, s) => ExitComes(s)'
<1>1. /\ Len(frames') = Len(frames) - 1 /\ Len(frames) \in Nat
      /\ 1 \in 1..Len(frames) /\ Head1 = frames[1] /\ frames[1].kind = kind
      /\ \A i \in 1..Len(frames) : i = 1 \/ (i - 1 \in 1..Len(frames') /\ frames'[i - 1] = frames[i])
  BY FramesGo
<1>2. ASSUME NEW s, ExitComes(s) PROVE ExitComes(s)' \/ (kind = "exited" /\ Head1.of = s)
  <2>1. PICK i \in 1..Len(frames) : frames[i] = [kind |-> "exited", of |-> s]
    BY <1>2 DEF ExitComes
  <2>2. CASE i = 1
    BY <1>1, <2>1, <2>2
  <2>3. CASE i # 1
    BY <1>1, <2>1, <2>3 DEF ExitComes
  <2> QED
    BY <2>2, <2>3
<1>3. ASSUME NEW i \in 1..Len(frames'), NEW s, ExitBehind(i + 1, s) PROVE ExitBehind(i, s)'
  <2>1. PICK j \in 1..Len(frames) : i + 1 < j /\ frames[j] = [kind |-> "exited", of |-> s]
    BY <1>3 DEF ExitBehind
  <2>2. i \in Nat /\ j \in Nat /\ j # 1 /\ i < j - 1
    BY <1>1, <2>1
  <2>3. j - 1 \in 1..Len(frames') /\ frames'[j - 1] = frames[j]
    BY <1>1, <2>2
  <2> QED
    BY <2>1, <2>2, <2>3 DEF ExitBehind
<1>4. ASSUME NEW s, ExitBehind(1, s) PROVE ExitComes(s)'
  <2>1. PICK j \in 1..Len(frames) : 1 < j /\ frames[j] = [kind |-> "exited", of |-> s]
    BY <1>4 DEF ExitBehind
  <2>2. j - 1 \in 1..Len(frames') /\ frames'[j - 1] = frames[j]
    BY <1>1, <2>1
  <2> QED
    BY <2>1, <2>2 DEF ExitComes
<1> QED
  BY <1>2, <1>3, <1>4

LEMMA SeenStarts == TerminalInit => SeenInv
<1> SUFFICES ASSUME TerminalInit PROVE SeenInv
  OBVIOUS
<1>1. Len(frames) = 0 /\ termOn = TRUE /\ connected = FALSE /\ opener = Resting /\ closing = {}
  BY DEF TerminalInit
<1>2. MountedInv
  BY <1>1 DEF MountedInv
<1>3. HeardInv
  BY <1>1 DEF HeardInv, PaneIsTrue, Resting
<1> QED
  BY <1>2, <1>3, PaneStarts DEF SeenInv

\* One answer at a time is on its way, to the worker that asks.
LEMMA MountedStays == SeenInv /\ [TerminalNext]_terminalVars => MountedInv'
<1> SUFFICES ASSUME SeenInv, [TerminalNext]_terminalVars PROVE MountedInv'
  OBVIOUS
<1>0. TerminalTypeOK /\ MountedInv /\ PaneInv
  BY DEF SeenInv, PaneSessionInv
<1>1. /\ termOn => closing = {}
      /\ ~termOn => ~connected /\ opener.phase = "idle" /\ closers = {}
      /\ termOn => \A i \in 1..Len(frames) : IsAnswer(i) => opener.phase = "asks"
      /\ termOn => \A i, j \in 1..Len(frames) : IsAnswer(i) /\ IsAnswer(j) => i = j
      /\ opener.phase # "idle" => ~connected /\ closers = {}
      /\ termOn \in BOOLEAN /\ connected \in BOOLEAN
  BY <1>0 DEF MountedInv, PaneInv, TerminalTypeOK
<1> DEFINE Workers == /\ termOn' => closing' = {}
                      /\ ~termOn' => ~connected' /\ opener'.phase = "idle" /\ closers' = {}
           Coming  == /\ termOn' => \A i \in 1..Len(frames') : IsAnswer(i)' => opener'.phase = "asks"
                      /\ termOn' => \A i, j \in 1..Len(frames') : IsAnswer(i)' /\ IsAnswer(j)' => i = j
<1> SUFFICES Workers /\ Coming
  BY DEF MountedInv
\* The frames that stay.
<1>2. ASSUME frames' = frames, termOn' => termOn, opener.phase = "asks" => opener'.phase = "asks"
      PROVE  Coming
  BY <1>1, <1>2 DEF IsAnswer
<1>3. ASSUME frames' = frames, termOn' => termOn, opener.phase # "asks"
      PROVE  Coming
  BY <1>1, <1>3 DEF IsAnswer
<1>4. ASSUME NEW kind \in {"opened", "refused", "output", "exited"}, NEW s \in Shell \cup {NoShell},
             Comes(kind, s), termOn' => termOn, opener' = opener,
             kind \in {"opened", "refused"} =>
                opener.phase = "asks" /\ \A i \in 1..Len(frames) : ~IsAnswer(i)
      PROVE  Coming
  <2>1. /\ \A i \in 1..Len(frames) : frames'[i] = frames[i]
        /\ frames'[Len(frames) + 1].kind = kind
        /\ \A i \in 1..Len(frames') : i \in 1..Len(frames) \/ i = Len(frames) + 1
    BY <1>0, <1>4, FramesCome
  <2>2. \A i \in 1..Len(frames) : IsAnswer(i)' <=> IsAnswer(i)
    BY <2>1 DEF IsAnswer
  <2>3. \A i \in 1..Len(frames') : i = Len(frames) + 1 => (IsAnswer(i)' <=> kind \in {"opened", "refused"})
    BY <2>1 DEF IsAnswer
  <2>4. \A i \in 1..Len(frames') : IsAnswer(i)' =>
           (i \in 1..Len(frames) /\ IsAnswer(i)) \/ (i = Len(frames) + 1 /\ kind \in {"opened", "refused"})
    BY <2>1, <2>2, <2>3
  <2> QED
    BY <1>1, <1>4, <2>4
<1>5. ASSUME NEW kind, Takes(kind), termOn' => termOn, opener' = opener PROVE Coming
  <2>1. \A i \in 1..Len(frames') : i + 1 \in 1..Len(frames) /\ frames'[i] = frames[i + 1]
    BY <1>0, <1>5, FramesGo
  <2>2. \A i \in 1..Len(frames') : i + 1 \in 1..Len(frames) /\ (IsAnswer(i)' => IsAnswer(i + 1))
    BY <2>1 DEF IsAnswer
  <2>3. \A i, j \in 1..Len(frames') : i + 1 = j + 1 => i = j
    OBVIOUS
  <2> QED
    BY <1>1, <1>5, <2>2, <2>3
<1> HIDE DEF Coming
<1>10. CASE DoConnect
  <2>1. termOn /\ termOn' = termOn /\ closing' = closing /\ frames' = frames /\ opener.phase = "idle"
    BY <1>10 DEF DoConnect, farVars, Resting
  <2> QED
    BY <1>1, <1>3, <2>1
<1>11. CASE Connected
  <2>1. opener.phase = "opened" /\ termOn' = termOn /\ closing' = closing /\ frames' = frames
    BY <1>11 DEF Connected, farVars
  <2> QED
    BY <1>1, <1>3, <2>1
<1>12. CASE ConnectFailed
  <2>1. opener.phase = "refused" /\ termOn' = termOn /\ closing' = closing /\ frames' = frames
    BY <1>12 DEF ConnectFailed, farVars
  <2> QED
    BY <1>1, <1>3, <2>1
<1>13. CASE Disconnect
  <2>1. termOn /\ termOn' = termOn /\ closing' = closing /\ frames' = frames /\ opener' = opener
    BY <1>13 DEF Disconnect, paneVars, farVars
  <2> QED
    BY <1>1, <1>2, <2>1
<1>14. CASE \E c \in Closer : Disconnected(c)
  <2>1. termOn' = termOn /\ closing' = closing /\ frames' = frames /\ opener' = opener /\ closers # {}
    BY <1>14 DEF Disconnected, farVars
  <2> QED
    BY <1>1, <1>2, <2>1
<1>15. CASE TerminalUnmount
  <2>1. termOn' = FALSE /\ connected' = FALSE /\ opener' = Resting /\ closers' = {}
    BY <1>15 DEF TerminalUnmount, Cleanup
  <2>2. ~termOn' /\ ~connected' /\ opener'.phase = "idle"
    BY <2>1 DEF Resting
  <2>3. Coming
    BY <2>2 DEF Coming
  <2> QED
    BY <2>1, <2>2, <2>3
<1>16. CASE Opens
  <2>1. /\ opener.phase = "asks" /\ (\A i \in 1..Len(frames) : ~IsAnswer(i))
        /\ termOn' = termOn /\ closing' = closing /\ opener' = opener /\ closers' = closers /\ connected' = connected
    BY <1>16 DEF Opens, paneVars, workVars, IsAnswer
  <2>2. CASE Comes("refused", NoShell)
    BY <1>1, <1>4, <2>1, <2>2
  <2>3. CASE opened < MaxOpens /\ Comes("opened", opened + 1)
    <3>1. opened + 1 \in Shell
      BY <1>0, <2>3, DeviceTerminalAssumption DEF TerminalTypeOK, Shell
    <3> QED
      BY <1>1, <1>4, <2>1, <2>3, <3>1
  <2> QED
    BY <1>16, <2>2, <2>3 DEF Opens
<1>17. CASE \E s \in Shell : Prints(s) \/ Exits(s)
  <2>1. PICK s \in Shell : Comes("output", s) \/ Comes("exited", s)
    BY <1>17 DEF Prints, Exits
  <2>2. termOn' = termOn /\ closing' = closing /\ opener' = opener /\ closers' = closers /\ connected' = connected
    BY <1>17 DEF Prints, Exits, paneVars, workVars
  <2> QED
    BY <1>1, <1>4, <2>1, <2>2
<1>18. CASE \E s \in Shell : Closes(s)
  <2>1. closing # {} /\ frames' = frames /\ opener' = opener /\ closers' = closers /\ termOn' = termOn
        /\ connected' = connected
    BY <1>18 DEF Closes, paneVars
  <2> QED
    BY <1>1, <1>2, <2>1
<1>19. CASE \E c \in Closer : CloserBack(c)
  <2>1. frames' = frames /\ opener' = opener /\ termOn' = termOn /\ closing' = closing /\ closers # {}
    BY <1>19 DEF CloserBack, paneVars
  <2> QED
    BY <1>1, <1>2, <2>1
<1>20. CASE Answered
  <2>1. /\ termOn' = termOn /\ closing' = closing /\ closers' = closers /\ connected' = connected
        /\ opener.phase # "asks" => opener' = opener
    BY <1>20, Zenon DEF Answered, paneVars
  <2>2. PICK kind \in {"opened", "refused"} : Takes(kind)
    BY <1>20 DEF Answered
  <2>3. /\ \A i \in 1..Len(frames') : i + 1 \in 1..Len(frames) /\ frames'[i] = frames[i + 1]
        /\ 1 \in 1..Len(frames) /\ frames[1].kind = kind
    BY <1>0, <2>2, FramesGo
  <2>4. IsAnswer(1)
    BY <2>2, <2>3 DEF IsAnswer
  <2>5. ASSUME termOn, NEW i \in 1..Len(frames'), IsAnswer(i)' PROVE FALSE
    <3>1. i + 1 \in 1..Len(frames) /\ IsAnswer(i + 1)
      BY <2>3, <2>5 DEF IsAnswer
    <3>2. i + 1 # 1
      BY <2>5
    <3> QED
      BY <1>1, <2>3, <2>4, <2>5, <3>1, <3>2
  <2>6. Coming
    BY <2>1, <2>5 DEF Coming
  <2>7. ~termOn => opener' = opener
    BY <1>1, <2>1
  <2> QED
    BY <1>1, <2>1, <2>6, <2>7
<1>21. CASE OnTerminalOutput \/ OnTerminalExited
  <2>1. termOn' = termOn /\ closing' = closing /\ closers' = closers /\ opener' = opener /\ (connected' => connected)
    BY <1>1, <1>21 DEF OnTerminalOutput, OnTerminalExited, paneVars, workVars
  <2>2. Takes("output") \/ Takes("exited")
    BY <1>21 DEF OnTerminalOutput, OnTerminalExited
  <2> QED
    BY <1>1, <1>5, <2>1, <2>2
<1>22. CASE UNCHANGED terminalVars
  <2>1. termOn' = termOn /\ closing' = closing /\ closers' = closers /\ opener' = opener /\ connected' = connected
        /\ frames' = frames
    BY <1>22 DEF terminalVars, paneVars, workVars, farVars
  <2> QED
    BY <1>1, <1>2, <2>1
<1> QED
  BY <1>10, <1>11, <1>12, <1>13, <1>14, <1>15, <1>16, <1>17, <1>18, <1>19, <1>20, <1>21, <1>22 DEF TerminalNext

\* What is opened lives or is heard to end, and so does what is shown.
LEMMA HeardStays == SeenInv /\ [TerminalNext]_terminalVars => HeardInv'
<1> SUFFICES ASSUME SeenInv, [TerminalNext]_terminalVars PROVE HeardInv'
  OBVIOUS
<1>0. TerminalTypeOK /\ MountedInv /\ PaneInv
  BY DEF SeenInv, PaneSessionInv
<1>1. /\ termOn => closing = {}
      /\ ~termOn => ~connected /\ opener.phase = "idle" /\ closers = {}
      /\ termOn => \A i \in 1..Len(frames) : IsAnswer(i) => opener.phase = "asks"
      /\ opener.phase # "idle" => ~connected /\ closers = {}
      /\ connected => \A c \in closers : c.of = session_id
      /\ termOn \in BOOLEAN /\ connected \in BOOLEAN
  BY <1>0 DEF MountedInv, PaneInv, TerminalTypeOK
<1>2. /\ connected \/ opener.phase # "idle" => registered
      /\ termOn => \A i \in 1..Len(frames) : frames[i].kind = "opened" =>
                      frames[i].of \in alive \/ ExitBehind(i, frames[i].of)
      /\ opener.phase = "opened" => opener.of \in alive \cup missed \/ ExitComes(opener.of)
      /\ connected => \/ session_id \in alive \cup missed \cup dropped \/ ExitComes(session_id)
                      \/ \E c \in closers : c.of = session_id
  BY DEF SeenInv, HeardInv, PaneIsTrue
<1> DEFINE Hears == connected' \/ opener'.phase # "idle" => registered'
           Lives == termOn' => \A i \in 1..Len(frames') : frames'[i].kind = "opened" =>
                      \A t : t = frames'[i].of => t \in alive' \/ ExitBehind(i, t)'
           Begun == opener'.phase = "opened" => opener'.of \in alive' \cup missed' \/ ExitComes(opener.of)'
           Shown == connected' => \/ session_id' \in alive' \cup missed' \cup dropped' \/ ExitComes(session_id)'
                                  \/ \E c \in closers' : c.of = session_id'
<1> SUFFICES Hears /\ Lives /\ Begun /\ Shown
  <2>1. Lives => (termOn => \A i \in 1..Len(frames) : frames[i].kind = "opened" =>
                      frames[i].of \in alive \/ ExitBehind(i, frames[i].of))'
    BY DEF ExitBehind
  <2> QED
    BY <2>1 DEF HeardInv, PaneIsTrue
\* The frames that stay; what is heard of the sessions that stay.
<1>3. ASSUME frames' = frames, termOn' => termOn, termOn => alive \subseteq alive' PROVE Lives
  <2>1. \A i, s : ExitBehind(i, s) => ExitBehind(i, s)'
    BY <1>0, <1>3, ExitsStay
  <2> QED
    BY <1>2, <1>3, <2>1
<1>4. ASSUME opener' = opener, opener.phase = "opened" => alive \subseteq alive' /\ missed \subseteq missed',
             \A s : ExitComes(s) => ExitComes(s)'
      PROVE  Begun
  <2>1. ASSUME opener.phase = "opened" PROVE opener'.of \in alive' \cup missed' \/ ExitComes(opener.of)'
    <3>1. CASE ExitComes(opener.of)
      <4>1. PICK s : s = opener.of
        OBVIOUS
      <4>2. ExitComes(s)'
        BY <1>4, <3>1, <4>1
      <4> QED
        BY <1>4, <4>1, <4>2 DEF ExitComes
    <3> QED
      BY <1>2, <1>4, <2>1, <3>1
  <2> QED
    BY <1>4, <2>1
<1>5. ASSUME connected' => connected, connected => session_id' = session_id,
             connected => alive \subseteq alive' /\ missed \subseteq missed' /\ dropped \subseteq dropped',
             connected => closers \subseteq closers', \A s : ExitComes(s) => ExitComes(s)'
      PROVE  Shown
  <2>1. ASSUME connected' PROVE \/ session_id' \in alive' \cup missed' \cup dropped' \/ ExitComes(session_id)'
                                \/ \E c \in closers' : c.of = session_id'
    <3>1. CASE ExitComes(session_id)
      <4>1. PICK s : s = session_id
        OBVIOUS
      <4>2. ExitComes(s)'
        BY <1>5, <3>1, <4>1
      <4> QED
        BY <1>5, <2>1, <4>1, <4>2 DEF ExitComes
    <3> QED
      BY <1>2, <1>5, <2>1, <3>1
  <2> QED
    BY <2>1
<1>6. frames' = frames => \A s : ExitComes(s) => ExitComes(s)'
  BY <1>0, ExitsStay
<1>7. ASSUME NEW kind \in {"output", "exited"}, NEW s \in Shell \cup {NoShell}, Comes(kind, s),
             termOn' => termOn, alive \ {s} \subseteq alive', kind = "output" => s \in alive'
      PROVE  Lives
  <2>1. /\ \A i \in 1..Len(frames) : frames'[i] = frames[i]
        /\ frames'[Len(frames) + 1].kind = kind
        /\ \A i \in 1..Len(frames') : i \in 1..Len(frames) \/ i = Len(frames) + 1
    BY <1>0, <1>7, FramesCome
  <2>2. /\ \A i, t : ExitBehind(i, t) => ExitBehind(i, t)'
        /\ kind = "exited" => \A i \in 1..Len(frames) : ExitBehind(i, s)'
    BY <1>0, <1>7, ExitsCome
  <2>3. ASSUME termOn, NEW i \in 1..Len(frames), frames[i].kind = "opened", NEW t, t = frames[i].of
        PROVE  t \in alive' \/ ExitBehind(i, t)'
    BY <1>2, <1>7, <2>2, <2>3
  <2>4. ASSUME termOn', NEW i \in 1..Len(frames'), frames'[i].kind = "opened", NEW t, t = frames'[i].of
        PROVE  t \in alive' \/ ExitBehind(i, t)'
    <3>1. CASE i \in 1..Len(frames)
      BY <1>7, <2>1, <2>3, <2>4, <3>1
    <3>2. CASE i = Len(frames) + 1
      BY <1>7, <2>1, <2>4, <3>2
    <3> QED
      BY <2>1, <2>4, <3>1, <3>2
  <2> QED
    BY <2>4
<1>8. ASSUME NEW kind, Takes(kind), termOn' => termOn, alive' = alive
      PROVE  Lives
  <2>1. \A i \in 1..Len(frames') : i + 1 \in 1..Len(frames) /\ frames'[i] = frames[i + 1]
    BY <1>0, <1>8, FramesGo
  <2>2. \A i \in 1..Len(frames') : \A t : ExitBehind(i + 1, t) => ExitBehind(i, t)'
    BY <1>0, <1>8, ExitsGo
  <2>3. ASSUME termOn', NEW i \in 1..Len(frames'), frames'[i].kind = "opened", NEW t, t = frames'[i].of
        PROVE  t \in alive' \/ ExitBehind(i, t)'
    <3>1. frames[i + 1].kind = "opened" /\ i + 1 \in 1..Len(frames) /\ t = frames[i + 1].of
      BY <2>1, <2>3
    <3>2. t \in alive' \/ ExitBehind(i + 1, t)
      BY <1>2, <1>8, <2>3, <3>1
    <3> QED
      BY <2>2, <2>3, <3>2
  <2> QED
    BY <2>3
<1> HIDE DEF Hears, Lives, Begun, Shown
<1>10. CASE DoConnect
  <2>1. /\ termOn' = termOn /\ connected' = connected /\ ~connected /\ registered' = TRUE
        /\ alive' = alive /\ frames' = frames /\ opener' = [phase |-> "asks", of |-> NoShell]
    BY <1>10 DEF DoConnect, farVars
  <2>2. opener'.phase = "asks"
    BY <2>1
  <2> QED
    BY <1>3, <2>1, <2>2 DEF Hears, Begun, Shown
<1>11. CASE Connected
  <2>1. /\ opener.phase = "opened" /\ session_id' = opener.of /\ opener' = Resting
        /\ registered' = registered /\ termOn' = termOn
        /\ alive' = alive /\ missed' = missed /\ frames' = frames
    BY <1>11 DEF Connected, farVars
  <2>2. opener'.phase = "idle" /\ registered
    BY <1>2, <2>1 DEF Resting
  <2>3. session_id' \in alive' \cup missed' \/ ExitComes(session_id)'
    BY <1>2, <2>1 DEF ExitComes
  <2> QED
    BY <1>3, <2>1, <2>2, <2>3 DEF Hears, Begun, Shown
<1>12. CASE ConnectFailed
  <2>1. /\ opener.phase = "refused" /\ opener' = Resting /\ connected' = connected /\ termOn' = termOn
        /\ alive' = alive /\ frames' = frames
    BY <1>12 DEF ConnectFailed, farVars
  <2>2. opener'.phase = "idle" /\ ~connected
    BY <1>1, <2>1 DEF Resting
  <2> QED
    BY <1>3, <2>1, <2>2 DEF Hears, Begun, Shown
<1>13. CASE Disconnect
  <2>1. /\ UNCHANGED <<termOn, connected, session_id, registered, opener, alive, frames, missed, dropped>>
        /\ closers \subseteq closers'
    BY <1>13 DEF Disconnect, paneVars, farVars
  <2>2. \A s : ExitComes(s) => ExitComes(s)'
    BY <1>6, <2>1
  <2>3. Hears
    BY <1>2, <2>1 DEF Hears
  <2> QED
    BY <1>3, <1>4, <1>5, <2>1, <2>2, <2>3
<1>14. CASE \E c \in Closer : Disconnected(c)
  <2>1. UNCHANGED <<termOn, opener, alive, frames, missed>> /\ connected' = FALSE /\ closers # {}
    BY <1>14 DEF Disconnected, Cleanup, farVars
  <2>2. opener'.phase = "idle"
    BY <1>1, <2>1
  <2> QED
    BY <1>3, <2>1, <2>2 DEF Hears, Begun, Shown
<1>15. CASE TerminalUnmount
  <2>1. termOn' = FALSE /\ connected' = FALSE /\ opener'.phase = "idle"
    BY <1>15 DEF TerminalUnmount, Cleanup, Resting
  <2> QED
    BY <2>1 DEF Hears, Lives, Begun, Shown
<1>16. CASE Opens
  <2>1. /\ opener.phase = "asks" /\ UNCHANGED <<termOn, connected, session_id, registered, opener>>
        /\ ~connected /\ registered
    BY <1>1, <1>2, <1>16 DEF Opens, paneVars, workVars
  <2>2. Hears /\ Begun /\ Shown
    BY <2>1 DEF Hears, Begun, Shown
  <2>3. PICK kind \in {"opened", "refused"} : \E s \in Shell \cup {NoShell} : Comes(kind, s) /\ alive \subseteq alive' /\
           (kind = "opened" => s \in alive')
    <3>1. CASE Comes("refused", NoShell) /\ UNCHANGED <<opened, alive>>
      BY <3>1
    <3>2. CASE opened < MaxOpens /\ alive' = alive \cup {opened + 1} /\ Comes("opened", opened + 1)
      <4>1. opened + 1 \in Shell
        BY <1>0, <3>2, DeviceTerminalAssumption DEF TerminalTypeOK, Shell
      <4> QED
        BY <3>2, <4>1
    <3> QED
      BY <1>16, <3>1, <3>2 DEF Opens
  <2>4. PICK s \in Shell \cup {NoShell} : Comes(kind, s) /\ alive \subseteq alive' /\ (kind = "opened" => s \in alive')
    BY <2>3
  <2>5. /\ \A i \in 1..Len(frames) : frames'[i] = frames[i]
        /\ frames'[Len(frames) + 1].kind = kind /\ frames'[Len(frames) + 1].of = s
        /\ \A i \in 1..Len(frames') : i \in 1..Len(frames) \/ i = Len(frames) + 1
        /\ \A i, t : ExitBehind(i, t) => ExitBehind(i, t)'
    BY <1>0, <2>4, FramesCome, ExitsCome
  <2>6. ASSUME termOn', NEW i \in 1..Len(frames'), frames'[i].kind = "opened", NEW t, t = frames'[i].of
        PROVE  t \in alive' \/ ExitBehind(i, t)'
    <3>1. CASE i = Len(frames) + 1
      BY <2>4, <2>5, <2>6, <3>1
    <3>2. CASE i \in 1..Len(frames)
      <4>1. t = frames[i].of /\ frames[i].kind = "opened"
        BY <2>5, <2>6, <3>2
      <4>2. t \in alive \/ ExitBehind(i, t)
        BY <1>2, <2>1, <2>6, <3>2, <4>1
      <4> QED
        BY <2>4, <2>5, <4>2
    <3> QED
      BY <2>5, <2>6, <3>1, <3>2
  <2>7. Lives
    BY <2>6 DEF Lives
  <2> QED
    BY <2>2, <2>7
<1>17. CASE \E s \in Shell : Prints(s) \/ Exits(s)
  <2>1. PICK s \in Shell : Prints(s) \/ Exits(s)
    BY <1>17
  <2>2. UNCHANGED <<termOn, connected, session_id, registered, opener, closers, missed, dropped>>
    BY <2>1 DEF Prints, Exits, paneVars, workVars
  <2>3. PICK kind \in {"output", "exited"} : /\ Comes(kind, s) /\ alive \ {s} \subseteq alive'
                                             /\ kind = "output" => s \in alive' /\ alive' = alive
                                             /\ alive' \subseteq alive
    BY <2>1 DEF Prints, Exits
  <2>4. /\ \A t : ExitComes(t) => ExitComes(t)'
        /\ kind = "exited" => ExitComes(s)'
    BY <1>0, <2>3, ExitsCome
  <2>5. Lives
    BY <1>7, <2>2, <2>3
  <2>6. Hears
    BY <1>2, <2>2 DEF Hears
  <2>7. ASSUME NEW t, t \in alive \/ ExitComes(t) PROVE t \in alive' \/ ExitComes(t)'
    BY <2>3, <2>4, <2>7
  <2>8. Begun
    <3>1. ASSUME opener.phase = "opened" PROVE opener.of \in alive' \cup missed \/ ExitComes(opener.of)'
      <4>1. PICK t : t = opener.of
        OBVIOUS
      <4>2. t \in alive' \cup missed \/ ExitComes(t)'
        BY <1>2, <2>7, <3>1, <4>1
      <4> QED
        BY <2>2, <4>1, <4>2 DEF ExitComes
    <3> QED
      BY <2>2, <3>1 DEF Begun
  <2>9. Shown
    <3>1. ASSUME connected
          PROVE  \/ session_id \in alive' \cup missed \cup dropped \/ ExitComes(session_id)'
                 \/ \E c \in closers : c.of = session_id
      <4>1. PICK t : t = session_id
        OBVIOUS
      <4>2. t \in alive' \cup missed \cup dropped \/ ExitComes(t)' \/ \E c \in closers : c.of = t
        BY <1>2, <2>7, <3>1, <4>1
      <4> QED
        BY <2>2, <4>1, <4>2 DEF ExitComes
    <3> QED
      BY <2>2, <3>1 DEF Shown
  <2> QED
    BY <2>5, <2>6, <2>8, <2>9
<1>18. CASE \E s \in Shell : Closes(s)
  <2>1. closing # {} /\ UNCHANGED <<termOn, connected, opener>>
    BY <1>18 DEF Closes, paneVars
  <2>2. ~termOn' /\ ~connected' /\ opener'.phase = "idle"
    BY <1>1, <2>1
  <2> QED
    BY <2>2 DEF Hears, Lives, Begun, Shown
<1>19. CASE \E c \in Closer : CloserBack(c)
  <2>1. PICK c \in Closer : CloserBack(c)
    BY <1>19
  <2>2. /\ UNCHANGED <<termOn, connected, session_id, registered, opener, frames, missed>>
        /\ c \in closers
    BY <2>1 DEF CloserBack, paneVars
  <2>3. closers' = (closers \ {c}) \cup {[c EXCEPT !.back = TRUE]}
    BY <2>1 DEF CloserBack
  <2>4. opener.phase = "idle"
    BY <1>1, <2>2
  <2>5. Hears
    BY <1>2, <2>2 DEF Hears
  <2>6. Begun
    BY <2>2, <2>4 DEF Begun
  <2>7. Lives
    <3>1. ASSUME termOn, NEW i \in 1..Len(frames) PROVE frames[i].kind # "opened"
      BY <1>1, <2>4, <3>1 DEF IsAnswer
    <3> QED
      BY <2>2, <3>1 DEF Lives
  <2>8. Shown
    <3>1. ASSUME connected PROVE \E d \in closers' : d.of = session_id
      <4>1. [c EXCEPT !.back = TRUE].of = c.of
        BY DEF Closer
      <4>2. c.of = session_id
        BY <1>1, <2>2, <3>1
      <4> QED
        BY <2>3, <4>1, <4>2
    <3> QED
      BY <2>2, <3>1 DEF Shown
  <2> QED
    BY <2>5, <2>6, <2>7, <2>8
<1>20. CASE Answered
  <2>1. PICK kind \in {"opened", "refused"} : Takes(kind)
    BY <1>20 DEF Answered
  <2>2. /\ UNCHANGED <<termOn, connected, session_id, registered, closers, alive, missed>>
        /\ dropped \subseteq dropped'
        /\ opener.phase # "asks" => opener' = opener
        /\ opener.phase = "asks" => opener' = [phase |-> Head1.kind, of |-> Head1.of]
    BY <1>20, Zenon DEF Answered, paneVars
  <2>3. 1 \in 1..Len(frames) /\ Head1 = frames[1] /\ frames[1].kind = kind
    BY <1>0, <2>1, FramesGo
  <2>4. /\ \A s : ExitComes(s) => ExitComes(s)'
        /\ \A s : ExitBehind(1, s) => ExitComes(s)'
    BY <1>0, <2>1, ExitsGo
  <2>5. Lives
    BY <1>8, <2>1, <2>2
  <2>6. Hears
    BY <1>2, <2>2 DEF Hears
  <2>7. Shown
    BY <1>5, <2>2, <2>4
  <2>8. Begun
    <3>1. CASE opener.phase # "asks"
      BY <1>4, <2>2, <2>4, <3>1
    <3>2. CASE opener.phase = "asks"
      <4>1. termOn
        BY <1>1, <3>2
      <4>2. PICK t : t = frames[1].of
        OBVIOUS
      <4>3. opener'.phase = kind /\ opener'.of = t
        BY <2>2, <2>3, <3>2, <4>2
      <4>4. kind = "opened" => t \in alive \/ ExitBehind(1, t)
        BY <1>2, <2>3, <4>1, <4>2
      <4>5. kind = "opened" => t \in alive' \/ ExitComes(t)'
        BY <2>2, <2>4, <4>4
      <4> QED
        BY <4>3, <4>5 DEF Begun, ExitComes
    <3> QED
      BY <3>1, <3>2
  <2> QED
    BY <2>5, <2>6, <2>7, <2>8
<1>21. CASE OnTerminalOutput
  <2>1. UNCHANGED <<termOn, connected, session_id, registered, opener, closers, alive, missed, dropped>>
    BY <1>21 DEF OnTerminalOutput, paneVars, workVars
  <2>2. Takes("output")
    BY <1>21 DEF OnTerminalOutput
  <2>3. \A s : ExitComes(s) => ExitComes(s)'
    BY <1>0, <2>2, ExitsGo
  <2>4. Hears
    BY <1>2, <2>1 DEF Hears
  <2> QED
    BY <1>4, <1>5, <1>8, <2>1, <2>2, <2>3, <2>4
<1>22. CASE OnTerminalExited
  <2>1. /\ UNCHANGED <<termOn, session_id, registered, opener, closers, alive, dropped>>
        /\ missed' = missed \cup ({opener.of} \cap {Head1.of})
    BY <1>22 DEF OnTerminalExited, workVars
  <2>2. connected' => connected /\ ~(registered /\ Head1.of = session_id)
    BY <1>22, Zenon DEF OnTerminalExited
  <2>3. Takes("exited")
    BY <1>22 DEF OnTerminalExited
  <2>4. \A s : ExitComes(s) => ExitComes(s)' \/ Head1.of = s
    BY <1>0, <2>3, ExitsGo
  <2>5. Lives
    BY <1>8, <2>1, <2>3
  <2>6. Hears
    BY <1>2, <2>1, <2>2 DEF Hears
  <2>7. Begun
    <3>1. ASSUME opener.phase = "opened" PROVE opener.of \in alive' \cup missed' \/ ExitComes(opener.of)'
      <4>1. PICK t : t = opener.of
        OBVIOUS
      <4>2. t \in alive' \cup missed' \/ ExitComes(t)'
        BY <1>2, <2>1, <2>4, <3>1, <4>1
      <4> QED
        BY <2>1, <4>1, <4>2 DEF ExitComes
    <3> QED
      BY <2>1, <3>1 DEF Begun
  <2>8. Shown
    <3>1. ASSUME connected, Head1.of # session_id
          PROVE  \/ session_id \in alive' \cup missed' \cup dropped \/ ExitComes(session_id)'
                 \/ \E c \in closers : c.of = session_id
      <4>1. PICK t : t = session_id
        OBVIOUS
      <4>2. t \in alive' \cup missed' \cup dropped \/ ExitComes(t)' \/ \E c \in closers : c.of = t
        BY <1>2, <2>1, <2>4, <3>1, <4>1
      <4> QED
        BY <2>1, <4>1, <4>2 DEF ExitComes
    <3>2. connected' => connected /\ Head1.of # session_id
      BY <1>2, <2>2
    <3> QED
      BY <2>1, <3>1, <3>2 DEF Shown
  <2> QED
    BY <2>5, <2>6, <2>7, <2>8
<1>23. CASE UNCHANGED terminalVars
  <2>1. UNCHANGED <<termOn, connected, session_id, registered, opener, closers, alive, frames, missed, dropped>>
    BY <1>23 DEF terminalVars, paneVars, workVars, farVars
  <2>2. \A s : ExitComes(s) => ExitComes(s)'
    BY <1>6, <2>1
  <2>3. Hears
    BY <1>2, <2>1 DEF Hears
  <2> QED
    BY <1>3, <1>4, <1>5, <2>1, <2>2, <2>3
<1> QED
  BY <1>10, <1>11, <1>12, <1>13, <1>14, <1>15, <1>16, <1>17, <1>18, <1>19, <1>20, <1>21, <1>22, <1>23
     DEF TerminalNext

\* A terminal that shows itself connected is so, or will hear that it is not
\* (terminal_widget.py).
LEMMA SeenInvariant == TerminalSpec => []SeenInv
<1>1. SeenInv /\ [TerminalNext]_terminalVars => SeenInv'
  BY PaneTypesStay, SessionsKnownStay, PaneStays, SessionsStayKept, MountedStays, HeardStays
     DEF SeenInv, PaneSessionInv
<1> QED
  BY <1>1, SeenStarts, PTL DEF TerminalSpec

-----------------------------------------------------------------------------
(* Sequences of numbers.                                                    *)

LEMMA ValuesAppended ==
  ASSUME NEW s \in Seq(Nat), NEW x \in Nat
  PROVE  /\ Values(Append(s, x)) = Values(s) \cup {x}
         /\ Ordered(s) /\ (\A v \in Values(s) : v < x) => Ordered(Append(s, x))
<1> DEFINE t == Append(s, x)
<1>1. t \in Seq(Nat) /\ Len(t) = Len(s) + 1 /\ Len(s) \in Nat /\ t[Len(t)] = x
      /\ \A i \in 1..Len(s) : t[i] = s[i]
  OBVIOUS
<1> HIDE DEF t
<1>2. Values(t) = Values(s) \cup {x}
  <2>1. ASSUME NEW v \in Values(t) PROVE v \in Values(s) \cup {x}
    <3>1. PICK i \in 1..Len(t) : v = t[i]
      BY <2>1 DEF Values
    <3>2. i = Len(t) \/ i \in 1..Len(s)
      BY <1>1
    <3> QED
      BY <1>1, <3>1, <3>2 DEF Values
  <2>2. ASSUME NEW v \in Values(s) PROVE v \in Values(t)
    <3>1. PICK i \in 1..Len(s) : v = s[i]
      BY <2>2 DEF Values
    <3>2. i \in 1..Len(t) /\ t[i] = v
      BY <1>1, <3>1
    <3> QED
      BY <3>2 DEF Values
  <2>3. x \in Values(t)
    <3>1. Len(t) \in 1..Len(t)
      BY <1>1
    <3> QED
      BY <1>1, <3>1 DEF Values
  <2> QED
    BY <2>1, <2>2, <2>3
<1>3. ASSUME Ordered(s), \A v \in Values(s) : v < x PROVE Ordered(t)
  <2>1. ASSUME NEW i \in 1..Len(t), NEW j \in 1..Len(t), i < j PROVE t[i] < t[j]
    <3>1. i \in 1..Len(s) /\ t[i] = s[i] /\ s[i] \in Values(s)
      BY <1>1, <2>1 DEF Values
    <3>2. CASE j = Len(t)
      BY <1>1, <1>3, <3>1, <3>2
    <3>3. CASE j # Len(t)
      <4>1. j \in 1..Len(s) /\ t[j] = s[j]
        BY <1>1, <3>3
      <4> QED
        BY <1>3, <2>1, <3>1, <4>1 DEF Ordered
    <3> QED
      BY <3>2, <3>3
  <2> QED
    BY <2>1 DEF Ordered
<1> QED
  BY <1>2, <1>3 DEF t

LEMMA ValuesOfTail ==
  ASSUME NEW s \in Seq(Nat), s # <<>>
  PROVE  /\ Values(s) = Values(Tail(s)) \cup {Head(s)} /\ Head(s) \in Nat /\ Tail(s) \in Seq(Nat)
         /\ Ordered(s) => Ordered(Tail(s)) /\ \A v \in Values(Tail(s)) : Head(s) < v
<1> DEFINE t == Tail(s)
<1>1. t \in Seq(Nat) /\ Len(s) = Len(t) + 1 /\ Len(t) \in Nat /\ Head(s) = s[1] /\ s[1] \in Nat
      /\ \A i \in 1..Len(t) : t[i] = s[i + 1]
  OBVIOUS
<1> HIDE DEF t
<1>2. Values(s) = Values(t) \cup {Head(s)}
  <2>1. ASSUME NEW v \in Values(s) PROVE v \in Values(t) \cup {Head(s)}
    <3>1. PICK i \in 1..Len(s) : v = s[i]
      BY <2>1 DEF Values
    <3>2. CASE i = 1
      BY <1>1, <3>1, <3>2
    <3>3. CASE i # 1
      <4>1. i - 1 \in 1..Len(t) /\ (i - 1) + 1 = i
        BY <1>1, <3>1, <3>3
      <4>2. t[i - 1] = s[(i - 1) + 1]
        BY <1>1, <4>1
      <4> QED
        BY <3>1, <4>1, <4>2 DEF Values
    <3> QED
      BY <3>2, <3>3
  <2>2. ASSUME NEW v \in Values(t) PROVE v \in Values(s)
    <3>1. PICK i \in 1..Len(t) : v = t[i]
      BY <2>2 DEF Values
    <3>2. i + 1 \in 1..Len(s) /\ s[i + 1] = v
      BY <1>1, <3>1
    <3> QED
      BY <3>2 DEF Values
  <2>3. Head(s) \in Values(s)
    <3>1. 1 \in 1..Len(s)
      BY <1>1
    <3> QED
      BY <1>1, <3>1 DEF Values
  <2> QED
    BY <2>1, <2>2, <2>3
<1>3. ASSUME Ordered(s) PROVE Ordered(t) /\ \A v \in Values(t) : Head(s) < v
  <2>1. ASSUME NEW i \in 1..Len(t), NEW j \in 1..Len(t), i < j PROVE t[i] < t[j]
    <3>1. i + 1 \in 1..Len(s) /\ j + 1 \in 1..Len(s) /\ i + 1 < j + 1 /\ t[i] = s[i + 1] /\ t[j] = s[j + 1]
      BY <1>1, <2>1
    <3> QED
      BY <1>3, <3>1 DEF Ordered
  <2>2. ASSUME NEW v \in Values(t) PROVE Head(s) < v
    <3>1. PICK i \in 1..Len(t) : v = t[i]
      BY <2>2 DEF Values
    <3>2. 1 \in 1..Len(s) /\ i + 1 \in 1..Len(s) /\ 1 < i + 1 /\ v = s[i + 1]
      BY <1>1, <3>1
    <3> QED
      BY <1>1, <1>3, <3>2 DEF Ordered
  <2> QED
    BY <2>1, <2>2 DEF Ordered
<1> QED
  BY <1>1, <1>2, <1>3 DEF t

-----------------------------------------------------------------------------
(* Frames on their way.                                                     *)

Coming(w) == {w[i].of : i \in {j \in 1..Len(w) : w[j].kind = "event"}}
InOrder(w) == \A i, j \in 1..Len(w) : i < j /\ w[i].kind = "event" /\ w[j].kind = "event" => w[i].of < w[j].of
AnswersSaid(w, s) == \A i \in 1..Len(w) : w[i].kind \in Reply => w[i].of \in Request /\ s[w[i].of] = w[i].kind

LEMMA FrameAppended ==
  ASSUME NEW w \in Seq(WireFrame), NEW f \in WireFrame
  PROVE  /\ Append(w, f) \in Seq(WireFrame)
         /\ f.kind = "event" => Coming(Append(w, f)) = Coming(w) \cup {f.of}
         /\ f.kind # "event" => Coming(Append(w, f)) = Coming(w)
         /\ InOrder(w) /\ (f.kind = "event" => \A v \in Coming(w) : v < f.of) => InOrder(Append(w, f))
         /\ \A s : AnswersSaid(w, s) /\ (f.kind \in Reply => f.of \in Request /\ s[f.of] = f.kind)
                      => AnswersSaid(Append(w, f), s)
<1> DEFINE t == Append(w, f)
<1>1. t \in Seq(WireFrame) /\ Len(t) = Len(w) + 1 /\ Len(w) \in Nat /\ t[Len(t)] = f
      /\ \A i \in 1..Len(w) : t[i] = w[i]
  OBVIOUS
<1> HIDE DEF t
<1>2. \A i \in 1..Len(t) : i = Len(t) \/ i \in 1..Len(w)
  BY <1>1
<1>3. \A i \in 1..Len(w) : i \in 1..Len(t) /\ i < Len(t)
  BY <1>1
<1>4. Len(t) \in 1..Len(t)
  BY <1>1
<1>5. \A v : v \in Coming(t) <=> v \in Coming(w) \/ (f.kind = "event" /\ v = f.of)
  <2>1. ASSUME NEW v \in Coming(t) PROVE v \in Coming(w) \/ (f.kind = "event" /\ v = f.of)
    <3>1. PICK i \in 1..Len(t) : t[i].kind = "event" /\ v = t[i].of
      BY <2>1 DEF Coming
    <3> QED
      BY <1>1, <1>2, <3>1 DEF Coming
  <2>2. ASSUME NEW v \in Coming(w) PROVE v \in Coming(t)
    <3>1. PICK i \in 1..Len(w) : w[i].kind = "event" /\ v = w[i].of
      BY <2>2 DEF Coming
    <3> QED
      BY <1>1, <1>3, <3>1 DEF Coming
  <2>3. f.kind = "event" => f.of \in Coming(t)
    BY <1>1, <1>4 DEF Coming
  <2> QED
    BY <2>1, <2>2, <2>3
<1>6. ASSUME InOrder(w), f.kind = "event" => \A v \in Coming(w) : v < f.of PROVE InOrder(t)
  <2>1. ASSUME NEW i \in 1..Len(t), NEW j \in 1..Len(t), i < j, t[i].kind = "event", t[j].kind = "event"
        PROVE  t[i].of < t[j].of
    <3>1. i \in 1..Len(w) /\ t[i] = w[i]
      BY <1>1, <2>1
    <3>2. w[i].of \in Coming(w)
      BY <2>1, <3>1 DEF Coming
    <3>3. CASE j = Len(t)
      BY <1>1, <1>6, <2>1, <3>1, <3>2, <3>3
    <3>4. CASE j \in 1..Len(w)
      BY <1>1, <1>6, <2>1, <3>1, <3>4 DEF InOrder
    <3> QED
      BY <1>2, <3>3, <3>4
  <2> QED
    BY <2>1 DEF InOrder
<1>7. ASSUME NEW s, AnswersSaid(w, s), f.kind \in Reply => f.of \in Request /\ s[f.of] = f.kind
      PROVE  AnswersSaid(t, s)
  BY <1>1, <1>2, <1>7 DEF AnswersSaid
<1>8. f.kind = "event" => Coming(t) = Coming(w) \cup {f.of}
  BY <1>5
<1>9. f.kind # "event" => Coming(t) = Coming(w)
  BY <1>5
<1> QED
  BY <1>1, <1>6, <1>7, <1>8, <1>9 DEF t

LEMMA FrameRead ==
  ASSUME NEW w \in Seq(WireFrame), w # <<>>
  PROVE  /\ Tail(w) \in Seq(WireFrame) /\ Head(w) \in WireFrame
         /\ Head(w).kind = "event" => Coming(w) = Coming(Tail(w)) \cup {Head(w).of}
         /\ Head(w).kind # "event" => Coming(w) = Coming(Tail(w))
         /\ InOrder(w) => InOrder(Tail(w)) /\ (Head(w).kind = "event" => \A v \in Coming(Tail(w)) : Head(w).of < v)
         /\ \A s : AnswersSaid(w, s) => /\ AnswersSaid(Tail(w), s)
                                        /\ Head(w).kind \in Reply => Head(w).of \in Request /\ s[Head(w).of] = Head(w).kind
<1> DEFINE t == Tail(w)
           h == Head(w)
<1>1. t \in Seq(WireFrame) /\ Len(w) = Len(t) + 1 /\ Len(t) \in Nat /\ h = w[1] /\ h \in WireFrame
      /\ \A i \in 1..Len(t) : t[i] = w[i + 1]
  OBVIOUS
<1> HIDE DEF t, h
<1>2. \A i \in 1..Len(w) : i = 1 \/ (i - 1 \in 1..Len(t) /\ t[i - 1] = w[i])
  BY <1>1
<1>3. \A i \in 1..Len(t) : i + 1 \in 1..Len(w) /\ 1 < i + 1 /\ w[i + 1] = t[i]
  BY <1>1
<1>4. 1 \in 1..Len(w)
  BY <1>1
<1>5. \A v : v \in Coming(w) <=> v \in Coming(t) \/ (h.kind = "event" /\ v = h.of)
  <2>1. ASSUME NEW v \in Coming(w) PROVE v \in Coming(t) \/ (h.kind = "event" /\ v = h.of)
    <3>1. PICK i \in 1..Len(w) : w[i].kind = "event" /\ v = w[i].of
      BY <2>1 DEF Coming
    <3> QED
      BY <1>1, <1>2, <3>1 DEF Coming
  <2>2. ASSUME NEW v \in Coming(t) PROVE v \in Coming(w)
    <3>1. PICK i \in 1..Len(t) : t[i].kind = "event" /\ v = t[i].of
      BY <2>2 DEF Coming
    <3> QED
      BY <1>3, <3>1 DEF Coming
  <2>3. h.kind = "event" => h.of \in Coming(w)
    BY <1>1, <1>4 DEF Coming
  <2> QED
    BY <2>1, <2>2, <2>3
<1>6. ASSUME InOrder(w) PROVE InOrder(t) /\ (h.kind = "event" => \A v \in Coming(t) : h.of < v)
  <2>1. ASSUME NEW i \in 1..Len(t), NEW j \in 1..Len(t), i < j, t[i].kind = "event", t[j].kind = "event"
        PROVE  t[i].of < t[j].of
    <3>1. i + 1 \in 1..Len(w) /\ j + 1 \in 1..Len(w) /\ i + 1 < j + 1 /\ t[i] = w[i + 1] /\ t[j] = w[j + 1]
      BY <1>1, <2>1
    <3> QED
      BY <1>6, <2>1, <3>1 DEF InOrder
  <2>2. ASSUME h.kind = "event", NEW v \in Coming(t) PROVE h.of < v
    <3>1. PICK i \in 1..Len(t) : t[i].kind = "event" /\ v = t[i].of
      BY <2>2 DEF Coming
    <3> QED
      BY <1>1, <1>3, <1>4, <1>6, <2>2, <3>1 DEF InOrder
  <2> QED
    BY <2>1, <2>2 DEF InOrder
<1>7. ASSUME NEW s, AnswersSaid(w, s)
      PROVE  AnswersSaid(t, s) /\ (h.kind \in Reply => h.of \in Request /\ s[h.of] = h.kind)
  BY <1>1, <1>3, <1>4, <1>7 DEF AnswersSaid
<1>8. h.kind = "event" => Coming(w) = Coming(t) \cup {h.of}
  BY <1>5
<1>9. h.kind # "event" => Coming(w) = Coming(t)
  BY <1>5
<1> QED
  BY <1>1, <1>6, <1>7, <1>8, <1>9 DEF t, h

-----------------------------------------------------------------------------
(* A connection to the daemon.                                              *)

StreamTypes ==
    /\ open \in BOOLEAN /\ daemonOn \in BOOLEAN /\ astray \in BOOLEAN /\ callback \in BOOLEAN
    /\ loop \in {"reads", "cancelled", "over"} /\ wire \in Seq(WireFrame) /\ faults \in 0..MaxFaults
FateTypes ==
    /\ fate \in [Request -> {"new", "waits", "answered"} \cup Endings] /\ pend \subseteq Request
    /\ said \in [Request -> Reply \cup {"none"}] /\ filled \in [Request -> Reply \cup {"none"}]
FeedTypes ==
    /\ events \in Seq(EventType) /\ Len(events) <= MaxEvents
    /\ event_queue \in Seq(1..MaxEvents) /\ heard \in Seq(1..MaxEvents)
    /\ readers \in [Reader -> SUBSET EventType] /\ taken \in [Reader -> Seq(1..MaxEvents)]
    /\ passed \subseteq 1..MaxEvents /\ lost \subseteq 1..MaxEvents

\* What fills a future, and what is on its way, is what the daemon has said.
AnswersAreSaid ==
    /\ AnswersSaid(wire, said)
    /\ \A r \in Request :
          /\ filled[r] # "none" => filled[r] = said[r]
          /\ fate[r] = "answered" => filled[r] # "none"
          /\ fate[r] \in Reply => fate[r] = said[r]
          /\ r \in pend => fate[r] \in {"waits", "cancelled"}

Below(S, T) == \A v \in S, u \in T : v < u

\* Events are taken before those in the queue, and these were sent before those on their way.
EventsInOrder ==
    LET Q == Values(event_queue)
        C == Coming(wire)
        N == 1..Len(events)
        T(i) == Values(taken[i])
    IN /\ Ordered(event_queue) /\ Ordered(heard) /\ InOrder(wire)
       /\ Q \subseteq N /\ C \subseteq N /\ Values(heard) \subseteq N /\ passed \subseteq N /\ lost \subseteq N
       /\ Below(Q, C) /\ Below(Values(heard), C) /\ Below(passed, Q) /\ Below(passed, C)
       /\ \A i \in Reader : /\ Ordered(taken[i]) /\ T(i) \subseteq N /\ Below(T(i), Q) /\ Below(T(i), C)
                            /\ T(i) \cap passed = {}
                            /\ \A o \in Reader : o # i => T(i) \cap T(o) = {}
       /\ \A v \in N : v \in Q \cup C \cup passed \cup lost \/ \E i \in Reader : v \in T(i)

StreamInv == StreamTypes /\ FateTypes /\ FeedTypes /\ AnswersAreSaid /\ EventsInOrder

LEMMA NoEventsYet ==
  /\ Values(<<>>) = {} /\ Ordered(<<>>) /\ Coming(<<>>) = {} /\ InOrder(<<>>) /\ \A s : AnswersSaid(<<>>, s)
<1>1. Len(<<>>) = 0 /\ 1..0 = {}
  OBVIOUS
<1> QED
  BY <1>1 DEF Values, Ordered, Coming, InOrder, AnswersSaid

LEMMA StreamStarts == ASSUME StreamInit PROVE StreamInv
<1>1. /\ open = TRUE /\ loop = "reads" /\ daemonOn = TRUE /\ wire = <<>> /\ astray = FALSE
      /\ fate = [r \in Request |-> "new"] /\ pend = {}
      /\ said = [r \in Request |-> "none"] /\ filled = [r \in Request |-> "none"]
      /\ events = <<>> /\ faults = 0
      /\ event_queue = <<>> /\ callback = FALSE /\ heard = <<>>
      /\ readers = [i \in Reader |-> {}] /\ taken = [i \in Reader |-> <<>>]
      /\ passed = {} /\ lost = {}
  BY DEF StreamInit
<1>2. StreamTypes
  <2>1. open \in BOOLEAN /\ daemonOn \in BOOLEAN /\ astray \in BOOLEAN /\ callback \in BOOLEAN
    BY <1>1, Zenon
  <2>2. loop \in {"reads", "cancelled", "over"} /\ wire \in Seq(WireFrame)
    BY <1>1
  <2>3. faults \in 0..MaxFaults
    BY <1>1, StreamAssumption
  <2> QED
    BY <2>1, <2>2, <2>3 DEF StreamTypes
<1>3. FateTypes
  BY <1>1 DEF FateTypes
<1>4. FeedTypes
  BY <1>1, StreamAssumption DEF FeedTypes
<1>5. AnswersAreSaid
  BY <1>1, NoEventsYet DEF AnswersAreSaid, Reply
<1>6. EventsInOrder
  <2>1. 1..Len(events) = {} /\ \A i \in Reader : taken[i] = <<>>
    BY <1>1
  <2> QED
    BY <1>1, <2>1, NoEventsYet DEF EventsInOrder, Below
<1> QED
  BY <1>2, <1>3, <1>4, <1>5, <1>6 DEF StreamInv

\* What moves no event.
LEMMA EventsStay ==
  ASSUME EventsInOrder, UNCHANGED <<events, event_queue, heard, taken, passed, lost>>,
         Coming(wire') = Coming(wire), InOrder(wire')
  PROVE  EventsInOrder'
  BY DEF EventsInOrder

LEMMA FeedStays ==
  ASSUME StreamInv, UNCHANGED <<wire, events, feedVars>>
  PROVE  EventsInOrder' /\ FeedTypes'
<1>1. UNCHANGED <<wire, events, event_queue, callback, heard, readers, taken, passed, lost>>
  BY DEF feedVars
<1> QED
  BY <1>1 DEF StreamInv, EventsInOrder, FeedTypes

LEMMA RequestsKeep ==
  ASSUME StreamInv, NEW r \in Request, AskDaemon(r) \/ AnswerSeen(r) \/ RequestTimesOut(r) \/ RequestCancelled(r)
  PROVE  StreamInv'
<1>1. StreamTypes /\ FateTypes /\ FeedTypes /\ AnswersAreSaid /\ EventsInOrder
  BY DEF StreamInv
<1>2. UNCHANGED <<open, loop, daemonOn, wire, astray, events, faults, said, filled, feedVars>>
  BY DEF AskDaemon, AnswerSeen, RequestTimesOut, RequestCancelled
<1>3. callback' = callback
  BY <1>2 DEF feedVars
<1>4. PICK w : fate' = [fate EXCEPT ![r] = w]
  BY DEF AskDaemon, AnswerSeen, RequestTimesOut, RequestCancelled, Turns
<1>5. /\ w \in {"waits", "refused", "timeout", "cancelled"} \/ (fate[r] = "answered" /\ w = filled[r])
      /\ pend' \subseteq pend \cup {r}
      /\ r \in pend' => w = "waits" \/ w = "cancelled" \/ (fate[r] = "answered" /\ r \in pend)
                        \/ (fate[r] = "new" /\ r \in pend)
  <2>1. fate'[r] = w
    BY <1>1, <1>4 DEF FateTypes
  <2>2. CASE AskDaemon(r)
    BY <1>1, <2>1, <2>2 DEF AskDaemon, Turns, FateTypes
  <2>3. CASE AnswerSeen(r)
    BY <1>1, <2>1, <2>3 DEF AnswerSeen, Turns, FateTypes
  <2>4. CASE RequestTimesOut(r)
    BY <1>1, <2>1, <2>4 DEF RequestTimesOut, Turns, FateTypes
  <2>5. CASE RequestCancelled(r)
    BY <1>1, <2>1, <2>5 DEF RequestCancelled, Turns, FateTypes
  <2> QED
    BY <2>2, <2>3, <2>4, <2>5
<1>6. fate[r] = "answered" => filled[r] \in Reply /\ filled[r] = said[r] /\ r \notin pend
  BY <1>1 DEF AnswersAreSaid, FateTypes
<1>7. fate[r] = "new" => r \notin pend
  BY <1>1 DEF AnswersAreSaid
<1>8. FateTypes'
  BY <1>1, <1>2, <1>4, <1>5, <1>6 DEF FateTypes, Endings, Reply
<1>9. AnswersAreSaid'
  <2>1. AnswersSaid(wire', said')
    BY <1>1, <1>2 DEF AnswersAreSaid
  <2>2. ASSUME NEW q \in Request
        PROVE  /\ filled'[q] # "none" => filled'[q] = said'[q]
               /\ fate'[q] = "answered" => filled'[q] # "none"
               /\ fate'[q] \in Reply => fate'[q] = said'[q]
               /\ q \in pend' => fate'[q] \in {"waits", "cancelled"}
    <3>1. fate'[q] = IF q = r THEN w ELSE fate[q]
      BY <1>1, <1>4 DEF FateTypes
    <3>2. filled'[q] = filled[q] /\ said'[q] = said[q]
      BY <1>2
    <3>3. CASE q = r
      BY <1>1, <1>5, <1>6, <1>7, <3>1, <3>2, <3>3 DEF AnswersAreSaid, Reply
    <3>4. CASE q # r
      BY <1>1, <1>5, <3>1, <3>2, <3>4 DEF AnswersAreSaid
    <3> QED
      BY <3>3, <3>4
  <2> QED
    BY <2>1, <2>2 DEF AnswersAreSaid
<1>10. EventsInOrder' /\ FeedTypes'
  BY <1>2, FeedStays
<1>11. StreamTypes'
  BY <1>1, <1>2, <1>3 DEF StreamTypes
<1> QED
  BY <1>8, <1>9, <1>10, <1>11 DEF StreamInv

LEMMA FramesAre ==
  /\ \A k \in Reply \cup {"bad", "large"}, r \in Request : [kind |-> k, of |-> r] \in WireFrame
  /\ \A n \in 1..MaxEvents : [kind |-> "event", of |-> n] \in WireFrame
  /\ \A f \in WireFrame : /\ f.kind \in Reply \cup {"bad", "large", "event"}
                          /\ f.kind = "event" => f.of \in 1..MaxEvents
  BY DEF WireFrame, Reply

LEMMA AnswersKeep == ASSUME StreamInv, NEW r \in Request, DaemonAnswers(r) PROVE StreamInv'
<1>1. StreamTypes /\ FateTypes /\ FeedTypes /\ AnswersAreSaid /\ EventsInOrder
  BY DEF StreamInv
<1>2. PICK a \in Reply : /\ said' = [said EXCEPT ![r] = a]
                         /\ \/ Writes(a, r) /\ UNCHANGED faults
                            \/ /\ faults < MaxFaults /\ faults' = faults + 1
                               /\ \E k \in {"bad", "large"} : Writes(k, r)
  BY DEF DaemonAnswers
<1>3. said[r] = "none" /\ UNCHANGED <<open, loop, daemonOn, astray, events, fate, pend, filled, feedVars>>
  BY DEF DaemonAnswers
<1>4. UNCHANGED <<callback, event_queue, heard, readers, taken, passed, lost>>
  BY <1>3 DEF feedVars
<1>5. PICK k \in {a, "bad", "large"} : wire' = Append(wire, [kind |-> k, of |-> r])
  BY <1>2 DEF Writes
<1> DEFINE f == [kind |-> k, of |-> r]
<1>6. f \in WireFrame /\ f.kind = k /\ f.of = r /\ f.kind # "event" /\ (f.kind \in Reply => k = a)
  <2>1. k \in Reply \cup {"bad", "large"}
    BY <1>5
  <2>2. f \in WireFrame
    BY <2>1, FramesAre
  <2> QED
    BY <1>5, <2>2 DEF Reply
<1>7. wire' = Append(wire, f) /\ wire \in Seq(WireFrame)
  BY <1>1, <1>5 DEF StreamTypes
<1> HIDE DEF f
<1>8. AnswersSaid(wire, said')
  <2>1. ASSUME NEW i \in 1..Len(wire), wire[i].kind \in Reply
        PROVE  wire[i].of \in Request /\ said'[wire[i].of] = wire[i].kind
    <3>1. wire[i].of \in Request /\ said[wire[i].of] = wire[i].kind
      BY <1>1, <2>1 DEF AnswersAreSaid, AnswersSaid
    <3>2. wire[i].of # r
      BY <1>3, <2>1, <3>1 DEF Reply
    <3> QED
      BY <1>1, <1>2, <3>1, <3>2 DEF FateTypes
  <2> QED
    BY <2>1 DEF AnswersSaid
<1>9. said'[r] = a /\ \A q \in Request : q # r => said'[q] = said[q]
  BY <1>1, <1>2 DEF FateTypes
<1>10. /\ wire' \in Seq(WireFrame) /\ Coming(wire') = Coming(wire) /\ InOrder(wire') /\ AnswersSaid(wire', said')
  BY <1>1, <1>6, <1>7, <1>8, <1>9, FrameAppended DEF EventsInOrder
<1>11. FateTypes'
  BY <1>1, <1>2, <1>3 DEF FateTypes
<1>12. AnswersAreSaid'
  <2>1. filled[r] = "none" /\ fate[r] \notin Reply
    BY <1>1, <1>3 DEF AnswersAreSaid, Reply
  <2> QED
    BY <1>1, <1>3, <1>9, <1>10, <2>1 DEF AnswersAreSaid
<1>13. EventsInOrder'
  BY <1>1, <1>3, <1>4, <1>10, EventsStay
<1>14. StreamTypes'
  <2>1. faults' \in 0..MaxFaults
    BY <1>1, <1>2, StreamAssumption DEF StreamTypes
  <2> QED
    BY <1>1, <1>3, <1>4, <1>10, <2>1 DEF StreamTypes
<1>15. FeedTypes'
  BY <1>1, <1>3, <1>4 DEF FeedTypes
<1> QED
  BY <1>11, <1>12, <1>13, <1>14, <1>15 DEF StreamInv

LEMMA SeqParts ==
  ASSUME NEW S, NEW T, S \subseteq T, NEW s \in Seq(S)
  PROVE  /\ s \in Seq(T) /\ \A i \in 1..Len(s) : s[i] \in S
         /\ \A x \in S : Append(s, x) \in Seq(S)
         /\ s # <<>> => Head(s) \in S /\ Tail(s) \in Seq(S)
<1>1. s \in [1..Len(s) -> S] /\ Len(s) \in Nat
  OBVIOUS
<1>2. s \in [1..Len(s) -> T]
  BY <1>1
<1>3. s \in Seq(T)
  BY <1>1, <1>2, SeqDef
<1>4. (\A x \in S : Append(s, x) \in Seq(S)) /\ (s # <<>> => Head(s) \in S /\ Tail(s) \in Seq(S))
  OBVIOUS
<1> QED
  BY <1>1, <1>3, <1>4

LEMMA Numbers ==
  ASSUME NEW s \in Seq(1..MaxEvents)
  PROVE  /\ s \in Seq(Nat) /\ Values(s) \subseteq 1..MaxEvents
         /\ \A x \in 1..MaxEvents : Append(s, x) \in Seq(1..MaxEvents)
         /\ s # <<>> => Head(s) \in 1..MaxEvents /\ Tail(s) \in Seq(1..MaxEvents)
<1> DEFINE S == 1..MaxEvents
<1>1. S \subseteq Nat
  OBVIOUS
<1> HIDE DEF S
<1>2. s \in Seq(S)
  BY DEF S
<1>3. /\ s \in Seq(Nat) /\ \A i \in 1..Len(s) : s[i] \in S
      /\ \A x \in S : Append(s, x) \in Seq(S)
      /\ s # <<>> => Head(s) \in S /\ Tail(s) \in Seq(S)
  BY <1>1, <1>2, SeqParts
<1>4. Values(s) \subseteq S
  BY <1>3 DEF Values
<1> QED
  BY <1>3, <1>4 DEF S

LEMMA PushesKeep == ASSUME StreamInv, NEW t \in EventType, DaemonPushes(t) PROVE StreamInv'
<1>1. StreamTypes /\ FateTypes /\ FeedTypes /\ AnswersAreSaid /\ EventsInOrder
  BY DEF StreamInv
<1> DEFINE n == Len(events)
           f == [kind |-> "event", of |-> n + 1]
<1>2. n < MaxEvents /\ events' = Append(events, t) /\ wire' = Append(wire, [kind |-> "event", of |-> Len(events')])
      /\ UNCHANGED <<open, loop, daemonOn, astray, faults, requestVars, feedVars>>
  BY DEF DaemonPushes, Writes
<1>3. n \in Nat /\ Len(events') = n + 1 /\ events' \in Seq(EventType) /\ Len(events') <= MaxEvents
      /\ n + 1 \in 1..MaxEvents
  BY <1>1, <1>2, StreamAssumption DEF FeedTypes
<1>4. UNCHANGED <<fate, pend, said, filled, event_queue, callback, heard, readers, taken, passed, lost>>
  BY <1>2 DEF requestVars, feedVars
<1>5. wire' = Append(wire, f) /\ f \in WireFrame /\ f.kind = "event" /\ f.of = n + 1 /\ f.kind \notin Reply
      /\ wire \in Seq(WireFrame)
  BY <1>1, <1>2, <1>3, FramesAre DEF StreamTypes, Reply
<1>6. \A v \in Coming(wire) : v < n + 1
  BY <1>1, <1>3 DEF EventsInOrder
<1> HIDE DEF f
<1>7. wire' \in Seq(WireFrame) /\ Coming(wire') = Coming(wire) \cup {n + 1} /\ InOrder(wire') /\ AnswersSaid(wire', said)
  BY <1>1, <1>5, <1>6, FrameAppended DEF EventsInOrder, AnswersAreSaid
<1>8. EventsInOrder'
  <2> DEFINE m == Len(events')
  <2>1. m = n + 1 /\ \A v : v \in 1..m <=> v \in 1..n \/ v = n + 1
    BY <1>3
  <2>2. \A v \in 1..n : v \in 1..m /\ v < n + 1
    BY <1>3
  <2> HIDE DEF m, n
  <2> QED
    BY <1>1, <1>4, <1>7, <2>1, <2>2 DEF EventsInOrder, Below, m, n
<1>9. AnswersAreSaid' /\ FateTypes'
  BY <1>1, <1>4, <1>7 DEF AnswersAreSaid, FateTypes
<1>10. StreamTypes' /\ FeedTypes'
  BY <1>1, <1>2, <1>3, <1>4, <1>7 DEF StreamTypes, FeedTypes
<1> QED
  BY <1>8, <1>9, <1>10 DEF StreamInv

LEMMA ReceivesKeep == ASSUME StreamInv, ReceiveAnswer \/ FrameFails PROVE StreamInv'
<1>1. StreamTypes /\ FateTypes /\ FeedTypes /\ AnswersAreSaid /\ EventsInOrder
  BY DEF StreamInv
<1>2. /\ wire # <<>> /\ wire' = Tail(wire) /\ Head(wire).kind # "event"
      /\ UNCHANGED <<open, loop, daemonOn, events, faults, said, feedVars>>
  BY DEF ReceiveAnswer, FrameFails, ReadFrame, First, Reply, requestVars
<1>3. UNCHANGED <<event_queue, callback, heard, readers, taken, passed, lost>>
  BY <1>2 DEF feedVars
<1>4. /\ wire' \in Seq(WireFrame) /\ Coming(wire') = Coming(wire) /\ InOrder(wire') /\ AnswersSaid(wire', said')
      /\ Head(wire).kind \in Reply => Head(wire).of \in Request /\ said[Head(wire).of] = Head(wire).kind
  <2>1. wire \in Seq(WireFrame) /\ AnswersSaid(wire, said) /\ InOrder(wire)
    BY <1>1 DEF StreamTypes, AnswersAreSaid, EventsInOrder
  <2>2. AnswersSaid(Tail(wire), said)
        /\ (Head(wire).kind \in Reply => Head(wire).of \in Request /\ said[Head(wire).of] = Head(wire).kind)
    BY <1>2, <2>1, FrameRead
  <2>3. Tail(wire) \in Seq(WireFrame) /\ Coming(Tail(wire)) = Coming(wire) /\ InOrder(Tail(wire))
    BY <1>2, <2>1, FrameRead
  <2> QED
    BY <1>2, <2>2, <2>3
<1>5. EventsInOrder'
  BY <1>1, <1>2, <1>3, <1>4, EventsStay
<1>6. FeedTypes'
  BY <1>1, <1>2, <1>3 DEF FeedTypes
<1>7. astray' \in BOOLEAN
  <2>1. CASE ReceiveAnswer
    BY <1>1, <2>1 DEF ReceiveAnswer, StreamTypes
  <2>2. CASE FrameFails
    <3>1. astray' = (First.kind = "large")
      BY <2>2 DEF FrameFails
    <3> QED
      BY <3>1, Zenon
  <2> QED
    BY <2>1, <2>2
<1>8. StreamTypes'
  BY <1>1, <1>2, <1>3, <1>4, <1>7 DEF StreamTypes
<1>9. FateTypes' /\ AnswersAreSaid'
  <2>1. CASE FrameFails
    <3>1. UNCHANGED <<fate, pend, said, filled>>
      BY <2>1 DEF FrameFails, requestVars
    <3> QED
      BY <1>1, <1>4, <3>1 DEF FateTypes, AnswersAreSaid
  <2>2. CASE ReceiveAnswer
    <3> DEFINE r == Head(wire).of
    <3>1. Head(wire).kind \in Reply
      BY <2>2 DEF ReceiveAnswer, First
    <3>2. r \in Request /\ said[r] = Head(wire).kind
      BY <1>4, <3>1
    <3>3. /\ pend' = pend \ {r}
          /\ \/ UNCHANGED <<fate, filled>>
             \/ fate' = [fate EXCEPT ![r] = "answered"] /\ filled' = [filled EXCEPT ![r] = Head(wire).kind]
      BY <2>2 DEF ReceiveAnswer, First, Turns
    <3>4. FateTypes'
      BY <1>1, <1>2, <3>1, <3>2, <3>3 DEF FateTypes
    <3>5. CASE UNCHANGED <<fate, filled>>
      BY <1>1, <1>2, <1>4, <3>3, <3>4, <3>5 DEF AnswersAreSaid
    <3>6. CASE fate' = [fate EXCEPT ![r] = "answered"] /\ filled' = [filled EXCEPT ![r] = Head(wire).kind]
      <4>1. fate'[r] = "answered" /\ filled'[r] = said[r]
            /\ \A q \in Request : q # r => fate'[q] = fate[q] /\ filled'[q] = filled[q]
        BY <1>1, <3>2, <3>6 DEF FateTypes
      <4>2. "answered" \notin Reply /\ "none" \notin Reply
        BY DEF Reply
      <4> QED
        <5>1. ASSUME NEW q \in Request
              PROVE  /\ filled'[q] # "none" => filled'[q] = said[q]
                     /\ fate'[q] = "answered" => filled'[q] # "none"
                     /\ fate'[q] \in Reply => fate'[q] = said[q]
                     /\ q \in pend' => fate'[q] \in {"waits", "cancelled"}
          <6>1. CASE q = r
            BY <3>1, <3>2, <3>3, <4>1, <4>2, <6>1
          <6>2. CASE q # r
            BY <1>1, <3>3, <4>1, <6>2 DEF AnswersAreSaid
          <6> QED
            BY <6>1, <6>2
        <5>2. ASSUME NEW q \in Request
              PROVE  /\ filled'[q] # "none" => filled'[q] = said'[q]
                     /\ fate'[q] = "answered" => filled'[q] # "none"
                     /\ fate'[q] \in Reply => fate'[q] = said'[q]
                     /\ q \in pend' => fate'[q] \in {"waits", "cancelled"}
          <6>1. said' = said
            BY <1>2
          <6> QED
            BY <5>1, <6>1
        <5>3. AnswersSaid(wire', said')
          BY <1>4
        <5> QED
          BY <3>4, <5>2, <5>3 DEF AnswersAreSaid
    <3> QED
      BY <3>3, <3>4, <3>5, <3>6
  <2> QED
    BY <2>1, <2>2
<1> QED
  BY <1>5, <1>6, <1>8, <1>9 DEF StreamInv

LEMMA DispatchesKeep == ASSUME StreamInv, DispatchEvent \/ ReadsAstray PROVE StreamInv'
<1>1. StreamTypes /\ FateTypes /\ FeedTypes /\ AnswersAreSaid /\ EventsInOrder
  BY DEF StreamInv
<1>2. /\ wire # <<>> /\ wire' = Tail(wire)
      /\ UNCHANGED <<open, loop, daemonOn, astray, events, faults, fate, pend, said, filled, callback, readers, taken, passed>>
  BY DEF DispatchEvent, ReadsAstray, ReadFrame, requestVars
<1> DEFINE h == Head(wire).of
           Q == Values(event_queue)
           C == Coming(wire)
           N == 1..Len(events)
<1>3. wire \in Seq(WireFrame) /\ AnswersSaid(wire, said) /\ InOrder(wire) /\ C \subseteq N
  BY <1>1 DEF StreamTypes, AnswersAreSaid, EventsInOrder
<1>4. wire' \in Seq(WireFrame) /\ InOrder(wire') /\ AnswersSaid(wire', said')
  BY <1>2, <1>3, FrameRead
<1>5. /\ Head(wire).kind = "event" =>
              C = Coming(wire') \cup {h} /\ (\A v \in Coming(wire') : h < v)
      /\ Head(wire).kind # "event" => C = Coming(wire')
  BY <1>2, <1>3, FrameRead
<1>6. AnswersAreSaid' /\ FateTypes'
  BY <1>1, <1>2, <1>4 DEF AnswersAreSaid, FateTypes
<1>7. StreamTypes'
  BY <1>1, <1>2, <1>4 DEF StreamTypes
<1>8. Len(events) \in Nat /\ Len(events) <= MaxEvents /\ MaxEvents \in Nat
  BY <1>1, StreamAssumption DEF FeedTypes
<1>9. CASE DispatchEvent
  <2>1. /\ Head(wire).kind = "event" /\ event_queue' = Append(event_queue, h)
        /\ heard' = heard \/ heard' = Append(heard, h)
        /\ UNCHANGED lost
    BY <1>9 DEF DispatchEvent, First
  <2>2. h \in N /\ h \in C /\ h \in Nat /\ h \in 1..MaxEvents
    <3>1. h \in C
      BY <1>5, <2>1
    <3>2. h \in N
      BY <1>3, <3>1
    <3> HIDE DEF h
    <3> QED
      BY <1>8, <3>1, <3>2
  <2>3. event_queue \in Seq(Nat) /\ heard \in Seq(Nat)
    BY <1>1, Numbers DEF FeedTypes
  <2>4. Values(event_queue') = Q \cup {h} /\ Ordered(event_queue')
    BY <1>1, <2>1, <2>2, <2>3, ValuesAppended DEF EventsInOrder, Below
  <2>5. Values(heard') \subseteq Values(heard) \cup {h} /\ Ordered(heard')
    <3>1. Values(Append(heard, h)) = Values(heard) \cup {h} /\ Ordered(Append(heard, h))
      BY <1>1, <2>2, <2>3, ValuesAppended DEF EventsInOrder, Below
    <3>2. Ordered(heard)
      BY <1>1 DEF EventsInOrder
    <3> QED
      BY <2>1, <3>1, <3>2
  <2>6. FeedTypes'
    <3>1. event_queue' \in Seq(1..MaxEvents) /\ heard' \in Seq(1..MaxEvents)
      BY <1>1, <2>1, <2>2, Numbers DEF FeedTypes
    <3> QED
      BY <1>1, <1>2, <2>1, <3>1 DEF FeedTypes
  <2>7. Coming(wire') \subseteq C /\ (\A v \in Coming(wire') : h < v) /\ C = Coming(wire') \cup {h}
    BY <1>5, <2>1
  <2>8. EventsInOrder'
    <3> DEFINE Qn == Values(event_queue')
               Cn == Coming(wire')
               Hn == Values(heard')
    <3>1. /\ \A v \in Q, u \in C : v < u
          /\ \A v \in Values(heard), u \in C : v < u
          /\ \A v \in passed, u \in Q : v < u
          /\ \A v \in passed, u \in C : v < u
          /\ Q \subseteq N /\ C \subseteq N /\ Values(heard) \subseteq N /\ passed \subseteq N /\ lost \subseteq N
          /\ \A v \in N : v \in Q \cup C \cup passed \cup lost \/ \E i \in Reader : v \in Values(taken[i])
      BY <1>1 DEF EventsInOrder, Below
    <3>2. \A i \in Reader : /\ Ordered(taken[i]) /\ Values(taken[i]) \subseteq N
                            /\ \A v \in Values(taken[i]), u \in Q : v < u
                            /\ \A v \in Values(taken[i]), u \in C : v < u
                            /\ Values(taken[i]) \cap passed = {}
                            /\ \A o \in Reader : o # i => Values(taken[i]) \cap Values(taken[o]) = {}
      BY <1>1 DEF EventsInOrder, Below
    <3>3. Qn = Q \cup {h} /\ Hn \subseteq Values(heard) \cup {h} /\ Cn \subseteq C /\ C = Cn \cup {h}
          /\ (\A v \in Cn : h < v) /\ h \in C /\ h \in N
      BY <2>2, <2>4, <2>5, <2>7
    <3> HIDE DEF h, Q, C, Qn, Cn, Hn
    <3>4. /\ \A v \in Qn, u \in Cn : v < u
          /\ \A v \in Hn, u \in Cn : v < u
      BY <3>1, <3>3
    <3>5. /\ \A v \in passed, u \in Qn : v < u
          /\ \A v \in passed, u \in Cn : v < u
      BY <3>1, <3>3
    <3>6. /\ Qn \subseteq N /\ Cn \subseteq N /\ Hn \subseteq N
          /\ \A v \in N : v \in Qn \cup Cn \cup passed \cup lost \/ \E i \in Reader : v \in Values(taken[i])
      BY <3>1, <3>3
    <3>7. \A i \in Reader : /\ \A v \in Values(taken[i]), u \in Qn : v < u
                            /\ \A v \in Values(taken[i]), u \in Cn : v < u
      BY <3>2, <3>3
    <3>8. Ordered(event_queue') /\ Ordered(heard') /\ InOrder(wire') /\ UNCHANGED <<events, passed, lost, taken>>
      BY <1>2, <1>4, <2>1, <2>4, <2>5
    <3> QED
      BY <3>1, <3>2, <3>4, <3>5, <3>6, <3>7, <3>8 DEF EventsInOrder, Below, Qn, Cn, Hn
  <2> QED
    BY <1>6, <1>7, <2>6, <2>8 DEF StreamInv
<1>10. CASE ReadsAstray
  <2>1. /\ lost' = IF Head(wire).kind = "event" THEN lost \cup {h} ELSE lost
        /\ UNCHANGED <<event_queue, heard>>
    BY <1>10 DEF ReadsAstray, First
  <2>2. ASSUME Head(wire).kind = "event" PROVE h \in N /\ h \in 1..MaxEvents
    <3>1. h \in C
      BY <1>5, <2>2
    <3>2. h \in N
      BY <1>3, <3>1
    <3> HIDE DEF h
    <3> QED
      BY <1>8, <3>2
  <2>3. FeedTypes'
    BY <1>1, <1>2, <2>1, <2>2 DEF FeedTypes
  <2>4. Coming(wire') \subseteq C /\ C \subseteq Coming(wire') \cup lost' /\ lost \subseteq lost' /\ lost' \subseteq lost \cup N
    BY <1>5, <2>1, <2>2
  <2>5. EventsInOrder'
    BY <1>1, <1>2, <1>4, <2>1, <2>4 DEF EventsInOrder, Below
  <2> QED
    BY <1>6, <1>7, <2>3, <2>5 DEF StreamInv
<1> QED
  BY <1>9, <1>10

LEMMA EndsKeep == ASSUME StreamInv, DaemonDrops \/ ConnectionClosed \/ DisconnectBegins PROVE StreamInv'
<1>1. StreamTypes /\ FateTypes /\ FeedTypes /\ AnswersAreSaid /\ EventsInOrder
  BY DEF StreamInv
<1>2. UNCHANGED <<wire, astray, events, faults, requestVars, feedVars>>
  BY DEF DaemonDrops, ConnectionClosed, DisconnectBegins
<1>3. UNCHANGED <<fate, pend, said, filled, callback>>
  BY <1>2 DEF requestVars, feedVars
<1>4. open' \in BOOLEAN /\ daemonOn' \in BOOLEAN
  BY <1>1, Zenon DEF DaemonDrops, ConnectionClosed, DisconnectBegins, StreamTypes
<1>5. loop' \in {"reads", "cancelled", "over"}
  BY <1>1 DEF DaemonDrops, ConnectionClosed, DisconnectBegins, StreamTypes
<1>6. StreamTypes'
  BY <1>1, <1>2, <1>3, <1>4, <1>5 DEF StreamTypes
<1>7. FateTypes' /\ AnswersAreSaid'
  BY <1>1, <1>2, <1>3 DEF FateTypes, AnswersAreSaid
<1>8. EventsInOrder' /\ FeedTypes'
  BY <1>2, FeedStays
<1> QED
  BY <1>6, <1>7, <1>8 DEF StreamInv

\* What has not been read of the stream is lost with it.
LEMMA DisconnectKeeps == ASSUME StreamInv, DisconnectEnds PROVE StreamInv'
<1>1. StreamTypes /\ FateTypes /\ FeedTypes /\ AnswersAreSaid /\ EventsInOrder
  BY DEF StreamInv
<1>2. /\ loop' = "over" /\ daemonOn' = FALSE /\ wire' = <<>> /\ pend' = {}
      /\ fate' = [r \in Request |-> IF r \in pend /\ fate[r] = "waits" THEN "cancelled" ELSE fate[r]]
      /\ lost' = lost \cup Coming(wire)
      /\ UNCHANGED <<open, astray, events, faults, said, filled, event_queue, callback, heard, readers, taken, passed>>
  BY DEF DisconnectEnds, Coming
<1>3. Coming(wire') = {} /\ InOrder(wire') /\ AnswersSaid(wire', said') /\ wire' \in Seq(WireFrame)
  BY <1>2, NoEventsYet
<1>4. StreamTypes'
  <2>1. daemonOn' \in BOOLEAN
    BY <1>2, Zenon
  <2> QED
    BY <1>1, <1>2, <1>3, <2>1 DEF StreamTypes
<1>5. FateTypes'
  BY <1>1, <1>2 DEF FateTypes, Endings
<1>6. AnswersAreSaid'
  <2>1. ASSUME NEW q \in Request
        PROVE  /\ filled'[q] # "none" => filled'[q] = said'[q]
               /\ fate'[q] = "answered" => filled'[q] # "none"
               /\ fate'[q] \in Reply => fate'[q] = said'[q]
               /\ q \in pend' => fate'[q] \in {"waits", "cancelled"}
    <3>1. fate'[q] = fate[q] \/ fate'[q] = "cancelled"
      BY <1>2
    <3>2. filled'[q] = filled[q] /\ said'[q] = said[q] /\ q \notin pend'
      BY <1>2
    <3> QED
      BY <1>1, <3>1, <3>2 DEF AnswersAreSaid, Reply
  <2>2. AnswersSaid(wire', said')
    BY <1>3
  <2> QED
    BY <2>1, <2>2 DEF AnswersAreSaid
<1>7. Coming(wire) \subseteq 1..Len(events)
  BY <1>1 DEF EventsInOrder
<1>8. FeedTypes'
  <2>1. Len(events) \in Nat /\ Len(events) <= MaxEvents /\ MaxEvents \in Nat
    BY <1>1, StreamAssumption DEF FeedTypes
  <2>2. 1..Len(events) \subseteq 1..MaxEvents
    BY <2>1
  <2>3. lost' \subseteq 1..MaxEvents
    BY <1>1, <1>2, <1>7, <2>2 DEF FeedTypes
  <2> QED
    BY <1>1, <1>2, <2>3 DEF FeedTypes
<1>9. EventsInOrder'
  BY <1>1, <1>2, <1>3, <1>7 DEF EventsInOrder, Below
<1> QED
  BY <1>4, <1>5, <1>6, <1>8, <1>9 DEF StreamInv

LEMMA ReadersKeep ==
  ASSUME StreamInv, OnEvent \/ \E i \in Reader : IterEvents(i)
  PROVE  StreamInv'
<1>1. StreamTypes /\ FateTypes /\ FeedTypes /\ AnswersAreSaid /\ EventsInOrder
  BY DEF StreamInv
<1>2. /\ UNCHANGED <<open, loop, daemonOn, wire, astray, events, faults, requestVars, event_queue, heard,
                     taken, passed, lost>>
  BY DEF OnEvent, IterEvents
<1>3. UNCHANGED <<fate, pend, said, filled>>
  BY <1>2 DEF requestVars
<1>4. callback' \in BOOLEAN
  BY <1>1, Zenon DEF OnEvent, IterEvents, StreamTypes
<1>5. readers' \in [Reader -> SUBSET EventType]
  <2>1. CASE OnEvent
    BY <1>1, <2>1 DEF OnEvent, FeedTypes
  <2>2. CASE \E i \in Reader : IterEvents(i)
    <3>1. PICK i \in Reader : IterEvents(i)
      BY <2>2
    <3>2. PICK ts \in {EventType, {"message"}, {"activity"}} : readers' = [readers EXCEPT ![i] = ts]
      BY <3>1 DEF IterEvents
    <3>3. ts \in SUBSET EventType
      BY DEF EventType
    <3>4. readers \in [Reader -> SUBSET EventType]
      BY <1>1 DEF FeedTypes
    <3> QED
      BY <3>2, <3>3, <3>4
  <2> QED
    BY <2>1, <2>2
<1>6. StreamTypes' /\ FeedTypes'
  BY <1>1, <1>2, <1>4, <1>5 DEF StreamTypes, FeedTypes
<1>7. FateTypes' /\ AnswersAreSaid'
  BY <1>1, <1>2, <1>3 DEF FateTypes, AnswersAreSaid
<1>8. EventsInOrder'
  <2>1. InOrder(wire) /\ wire' = wire
    BY <1>1, <1>2 DEF EventsInOrder
  <2>2. Coming(wire') = Coming(wire) /\ InOrder(wire')
    BY <2>1
  <2> QED
    BY <1>1, <1>2, <2>2, EventsStay
<1> QED
  BY <1>6, <1>7, <1>8 DEF StreamInv

\* The first of the queue comes after all that was taken from it before.
LEMMA TakesKeep == ASSUME StreamInv, NEW i \in Reader, TakesEvent(i) PROVE StreamInv'
<1>1. StreamTypes /\ FateTypes /\ FeedTypes /\ AnswersAreSaid /\ EventsInOrder
  BY DEF StreamInv
<1> DEFINE h == Head(event_queue)
           N == 1..Len(events)
<1>2. /\ event_queue # <<>> /\ event_queue' = Tail(event_queue)
      /\ \/ taken' = [taken EXCEPT ![i] = Append(taken[i], h)] /\ UNCHANGED passed
         \/ passed' = passed \cup {h} /\ UNCHANGED taken
      /\ UNCHANGED <<open, loop, daemonOn, wire, astray, events, faults, requestVars, callback, heard, readers, lost>>
  BY DEF TakesEvent
<1>3. UNCHANGED <<fate, pend, said, filled>>
  BY <1>2 DEF requestVars
<1>4. event_queue \in Seq(1..MaxEvents) /\ taken[i] \in Seq(1..MaxEvents) /\ taken \in [Reader -> Seq(1..MaxEvents)]
  BY <1>1 DEF FeedTypes
<1>5. event_queue \in Seq(Nat) /\ h \in 1..MaxEvents /\ event_queue' \in Seq(1..MaxEvents)
      /\ taken[i] \in Seq(Nat) /\ Append(taken[i], h) \in Seq(1..MaxEvents)
  BY <1>2, <1>4, Numbers
<1>6. /\ Values(event_queue) = Values(event_queue') \cup {h} /\ h \in Nat
      /\ Ordered(event_queue') /\ \A v \in Values(event_queue') : h < v
  <2>1. Ordered(event_queue)
    BY <1>1 DEF EventsInOrder
  <2> QED
    BY <1>2, <1>5, <2>1, ValuesOfTail
<1>7. /\ Values(Append(taken[i], h)) = Values(taken[i]) \cup {h}
      /\ Ordered(Append(taken[i], h))
  <2>1. Ordered(taken[i]) /\ \A v \in Values(taken[i]) : v < h
    BY <1>1, <1>6 DEF EventsInOrder, Below
  <2> QED
    BY <1>5, <1>6, <2>1, ValuesAppended
<1>8. StreamTypes' /\ FateTypes' /\ AnswersAreSaid'
  BY <1>1, <1>2, <1>3 DEF StreamTypes, FateTypes, AnswersAreSaid
<1>9. FeedTypes'
  <2>1. taken' \in [Reader -> Seq(1..MaxEvents)]
    BY <1>2, <1>4, <1>5
  <2>2. passed' \subseteq 1..MaxEvents
    BY <1>1, <1>2, <1>5 DEF FeedTypes
  <2> QED
    BY <1>1, <1>2, <1>5, <2>1, <2>2 DEF FeedTypes
<1>10. EventsInOrder'
  <2> DEFINE Q == Values(event_queue)
             Qn == Values(event_queue')
             C == Coming(wire)
             H == Values(heard)
             T(o) == Values(taken[o])
             Tn(o) == Values(taken'[o])
  <2>1. /\ Q \subseteq N /\ C \subseteq N /\ H \subseteq N /\ passed \subseteq N /\ lost \subseteq N
        /\ Ordered(heard) /\ InOrder(wire)
        /\ \A v \in Q, u \in C : v < u
        /\ \A v \in H, u \in C : v < u
        /\ \A v \in passed, u \in Q : v < u
        /\ \A v \in passed, u \in C : v < u
        /\ \A v \in N : v \in Q \cup C \cup passed \cup lost \/ \E o \in Reader : v \in T(o)
    BY <1>1 DEF EventsInOrder, Below
  <2>2. \A k \in Reader : /\ Ordered(taken[k]) /\ T(k) \subseteq N
                          /\ \A v \in T(k), u \in Q : v < u
                          /\ \A v \in T(k), u \in C : v < u
                          /\ T(k) \cap passed = {}
                          /\ \A o \in Reader : o # k => T(k) \cap T(o) = {}
    BY <1>1 DEF EventsInOrder, Below
  <2>3. Q = Qn \cup {h} /\ Ordered(event_queue') /\ (\A v \in Qn : h < v) /\ h \in Nat
    BY <1>6
  <2>4. h \notin passed /\ \A k \in Reader : h \notin T(k)
    <3>1. h \in Q /\ ~(h < h)
      BY <2>3
    <3> HIDE DEF h, Q
    <3> QED
      BY <2>1, <2>2, <3>1
  <2>5. UNCHANGED <<events, wire, heard, lost>>
    BY <1>2
  <2>6. CASE taken' = [taken EXCEPT ![i] = Append(taken[i], h)] /\ UNCHANGED passed
    <3>1. /\ Tn(i) = T(i) \cup {h} /\ Ordered(taken'[i])
          /\ \A o \in Reader : o # i => taken'[o] = taken[o] /\ Tn(o) = T(o)
      BY <1>4, <1>7, <2>6
    <3> HIDE DEF h, N, Q, Qn, C, H, T, Tn
    <3>2. Qn \subseteq Q /\ h \in Q
      BY <2>3
    <3>3. \A v \in N : v \in Qn \cup C \cup passed \cup lost \/ \E o \in Reader : v \in Tn(o)
      <4>1. ASSUME NEW v \in N PROVE v \in Qn \cup C \cup passed \cup lost \/ \E o \in Reader : v \in Tn(o)
        <5>1. v \in Q \cup C \cup passed \cup lost \/ \E o \in Reader : v \in T(o)
          BY <2>1
        <5>2. CASE v = h
          BY <3>1, <5>2
        <5>3. CASE v # h
          BY <2>3, <3>1, <5>1, <5>3
        <5> QED
          BY <5>2, <5>3
      <4> QED
        BY <4>1
    <3>4. ASSUME NEW k \in Reader
          PROVE  /\ Ordered(taken'[k]) /\ Tn(k) \subseteq N
                 /\ \A v \in Tn(k), u \in Qn : v < u
                 /\ \A v \in Tn(k), u \in C : v < u
                 /\ Tn(k) \cap passed = {}
                 /\ \A o \in Reader : o # k => Tn(k) \cap Tn(o) = {}
      <4>1. Ordered(taken'[k])
        BY <2>2, <3>1
      <4>2. Tn(k) \subseteq T(k) \cup {h} /\ (k # i => Tn(k) = T(k))
        BY <3>1
      <4>3. T(k) \subseteq N /\ Tn(k) \subseteq N /\ Tn(k) \cap passed = {}
        BY <2>1, <2>2, <2>4, <3>2, <4>2
      <4>4. ASSUME NEW v \in Tn(k), NEW u \in Qn PROVE v < u
        BY <2>2, <2>3, <3>2, <4>2, <4>4
      <4>5. ASSUME NEW v \in Tn(k), NEW u \in C PROVE v < u
        BY <2>1, <2>2, <3>2, <4>2, <4>5
      <4>6. ASSUME NEW o \in Reader, o # k PROVE Tn(k) \cap Tn(o) = {}
        <5>1. T(k) \cap T(o) = {} /\ h \notin T(k) /\ h \notin T(o)
          BY <2>2, <2>4, <4>6
        <5>2. k # i \/ o # i
          BY <4>6
        <5>3. Tn(o) \subseteq T(o) \cup {h} /\ (o # i => Tn(o) = T(o))
          BY <3>1
        <5> QED
          BY <4>2, <5>1, <5>2, <5>3
      <4> QED
        BY <4>1, <4>3, <4>4, <4>5, <4>6
    <3>5. /\ \A v \in Qn, u \in C : v < u
          /\ \A v \in passed, u \in Qn : v < u
          /\ Qn \subseteq N /\ passed' = passed
      BY <2>1, <2>6, <3>2
    <3> QED
      BY <2>1, <2>3, <2>5, <3>3, <3>4, <3>5 DEF EventsInOrder, Below, N, Q, Qn, C, H, T, Tn
  <2>7. CASE passed' = passed \cup {h} /\ UNCHANGED taken
    <3> DEFINE P == passed'
    <3>1. P = passed \cup {h} /\ taken' = taken
      BY <2>7
    <3> HIDE DEF h, N, Q, Qn, C, H, T, P
    <3>2. Qn \subseteq Q /\ h \in Q
      BY <2>3
    <3>3. /\ Qn \subseteq N /\ P \subseteq N
          /\ \A v \in N : v \in Qn \cup C \cup P \cup lost \/ \E o \in Reader : v \in T(o)
      BY <2>1, <2>3, <3>1, <3>2
    <3>4. /\ \A v \in Qn, u \in C : v < u
          /\ \A v \in P, u \in C : v < u
      BY <2>1, <3>1, <3>2
    <3>5. \A v \in P, u \in Qn : v < u
      BY <2>1, <2>3, <3>1, <3>2
    <3>6. \A k \in Reader : T(k) \cap P = {} /\ \A v \in T(k), u \in Qn : v < u
      BY <2>2, <2>4, <3>1, <3>2
    <3> QED
      BY <2>1, <2>2, <2>3, <2>5, <3>1, <3>3, <3>4, <3>5, <3>6 DEF EventsInOrder, Below, N, Q, Qn, C, H, T, P
  <2> QED
    BY <1>2, <2>6, <2>7
<1> QED
  BY <1>8, <1>9, <1>10 DEF StreamInv

LEMMA StreamStays == ASSUME StreamInv, [StreamNext]_streamVars PROVE StreamInv'
<1>1. CASE UNCHANGED streamVars
  <2>1. UNCHANGED <<open, loop, daemonOn, wire, astray, events, faults, fate, pend, said, filled,
                    event_queue, callback, heard, readers, taken, passed, lost>>
    BY <1>1 DEF streamVars, requestVars, feedVars
  <2>2. StreamTypes' /\ FateTypes' /\ FeedTypes' /\ AnswersAreSaid'
    BY <2>1 DEF StreamInv, StreamTypes, FateTypes, FeedTypes, AnswersAreSaid
  <2>3. EventsInOrder'
    BY <2>1 DEF StreamInv, EventsInOrder
  <2> QED
    BY <2>2, <2>3 DEF StreamInv
<1>2. CASE \E r \in Request : AskDaemon(r) \/ AnswerSeen(r) \/ RequestTimesOut(r) \/ RequestCancelled(r)
                              \/ DaemonAnswers(r)
  BY <1>2, RequestsKeep, AnswersKeep
<1>3. CASE \E t \in EventType : DaemonPushes(t)
  BY <1>3, PushesKeep
<1>4. CASE DaemonDrops \/ ReceiveAnswer \/ DispatchEvent \/ FrameFails \/ ReadsAstray
           \/ ConnectionClosed \/ DisconnectBegins \/ DisconnectEnds \/ OnEvent
  BY <1>4, ReceivesKeep, DispatchesKeep, EndsKeep, DisconnectKeeps, ReadersKeep
<1>5. CASE \E i \in Reader : IterEvents(i) \/ TakesEvent(i)
  BY <1>5, ReadersKeep, TakesKeep
<1> QED
  BY <1>1, <1>2, <1>3, <1>4, <1>5 DEF StreamNext

LEMMA StreamShows == ASSUME StreamInv PROVE StreamTypeOK /\ AnswerIsOwn /\ EventsOnce
<1>1. StreamTypes /\ FateTypes /\ FeedTypes /\ AnswersAreSaid /\ EventsInOrder
  BY DEF StreamInv
<1>2. StreamTypeOK
  <2>1. {open, daemonOn, astray, callback} \subseteq BOOLEAN
    BY <1>1, Zenon DEF StreamTypes
  <2>2. loop \in {"reads", "cancelled", "over"} /\ wire \in Seq(WireFrame) /\ faults \in 0..MaxFaults
    BY <1>1 DEF StreamTypes
  <2>3. /\ fate \in [Request -> {"new", "waits", "answered"} \cup Endings] /\ pend \subseteq Request
        /\ {said, filled} \subseteq [Request -> Reply \cup {"none"}]
    BY <1>1 DEF FateTypes
  <2>4. /\ events \in Seq(EventType) /\ Len(events) <= MaxEvents
        /\ event_queue \in Seq(1..MaxEvents) /\ heard \in Seq(1..MaxEvents)
        /\ readers \in [Reader -> SUBSET EventType] /\ taken \in [Reader -> Seq(1..MaxEvents)]
        /\ passed \cup lost \subseteq 1..MaxEvents
    BY <1>1 DEF FeedTypes
  <2> QED
    BY <2>1, <2>2, <2>3, <2>4 DEF StreamTypeOK
<1>3. AnswerIsOwn
  BY <1>1 DEF AnswersAreSaid, AnswerIsOwn
<1>4. EventsOnce
  <2> DEFINE N == 1..Len(events)
             out == {x \in Reader \X N : x[2] \in Values(taken[x[1]])}
             given == {x[2] : x \in out}
             Q == Values(event_queue)
             C == Coming(wire)
             T(i) == Values(taken[i])
  <2>1. \A v : v \in given <=> \E i \in Reader : v \in T(i)
    <3>1. ASSUME NEW i \in Reader, NEW v \in T(i) PROVE v \in given
      <4>1. v \in N
        BY <1>1 DEF EventsInOrder
      <4>2. <<i, v>> \in out
        BY <4>1
      <4> QED
        BY <4>2
    <3> QED
      BY <3>1
  <2>2. \A i \in Reader : Ordered(taken[i])
    BY <1>1 DEF EventsInOrder
  <2>3. Ordered(heard) /\ Ordered(event_queue)
    BY <1>1 DEF EventsInOrder
  <2>4. \A x, y \in out : x[2] = y[2] => x = y
    <3>1. \A i, o \in Reader : o # i => T(i) \cap T(o) = {}
      BY <1>1 DEF EventsInOrder
    <3> QED
      BY <3>1
  <2>5. given \cap (Q \cup passed) = {}
    <3>1. ASSUME NEW i \in Reader, NEW v \in T(i) PROVE v \notin Q /\ v \notin passed
      <4>1. T(i) \cap passed = {} /\ \A u \in Q : v < u
        BY <1>1, <3>1 DEF EventsInOrder, Below
      <4>2. v \in Nat
        <5>1. T(i) \subseteq N
          BY <1>1 DEF EventsInOrder
        <5> QED
          BY <3>1, <5>1
      <4>3. ~(v < v)
        BY <4>2
      <4> QED
        BY <4>1, <4>3, <3>1
    <3> HIDE DEF given, Q, T
    <3> QED
      BY <2>1, <3>1
  <2>6. N = given \cup Q \cup passed \cup C \cup lost
    <3>1. /\ Q \subseteq N /\ C \subseteq N /\ passed \subseteq N /\ lost \subseteq N
          /\ \A i \in Reader : T(i) \subseteq N
          /\ \A v \in N : v \in Q \cup C \cup passed \cup lost \/ \E i \in Reader : v \in T(i)
      BY <1>1 DEF EventsInOrder
    <3> HIDE DEF given, Q, T, N, C
    <3> QED
      BY <2>1, <3>1
  <2> QED
    BY <2>2, <2>3, <2>4, <2>5, <2>6 DEF EventsOnce, Coming
<1> QED
  BY <1>2, <1>3, <1>4

\* Over every connection: a request reports what the daemon answered to it, and
\* each event is handed out once and in order, or is in the queue, on its way,
\* passed over or lost with the stream.
THEOREM AnswersAndEventsAreOwn == StreamSpec => [](StreamTypeOK /\ AnswerIsOwn /\ EventsOnce)
<1>1. StreamInit => StreamInv
  BY StreamStarts
<1>2. StreamInv /\ [StreamNext]_streamVars => StreamInv'
  BY StreamStays
<1>3. StreamInv => StreamTypeOK /\ AnswerIsOwn /\ EventsOnce
  BY StreamShows
<1> QED
  BY <1>1, <1>2, <1>3, PTL DEF StreamSpec

-----------------------------------------------------------------------------
(* What the IPC bridge sends, as a message.                                   *)

LEMMA Together ==
  /\ \A f, g, x : x \in DOMAIN (f ++ g) <=> x \in DOMAIN f \/ x \in DOMAIN g
  /\ \A kinds, fields, x : x \in DOMAIN With(kinds, fields) <=> x \in kinds
  BY DEF ++, With

\* A request that none of whose fields is a time limit waits for one of these times.
LEMMA LimitsAreKnown ==
  \A k \in {"ping", "terminal_open", "datalink_speedtest"} : k \in RequestKind /\ "timeout" \notin Fields[k]
<1>1. "ping" \in DOMAIN QueryRequests /\ QueryRequests["ping"] = {}
  BY DEF QueryRequests, With, ++
<1>2. "datalink_speedtest" \in DOMAIN PeerRequests /\ PeerRequests["datalink_speedtest"] = {"destination_hash"}
  BY DEF PeerRequests, With, ++
<1>3. "terminal_open" \in DOMAIN StreamRequests
      /\ StreamRequests["terminal_open"] = {"destination", "term_type", "rows", "cols", "shell"}
  BY DEF StreamRequests, With, ++
<1>4. "datalink_speedtest" \notin DOMAIN QueryRequests /\ "terminal_open" \notin DOMAIN QueryRequests
  BY DEF QueryRequests, With, ++
<1>5. "datalink_speedtest" \notin DOMAIN ChatRequests /\ "terminal_open" \notin DOMAIN ChatRequests
  BY Together DEF ChatRequests
<1>6. "datalink_speedtest" \notin DOMAIN ContactRequests /\ "terminal_open" \notin DOMAIN ContactRequests
  BY DEF ContactRequests, With, ++
<1>7. "datalink_speedtest" \notin DOMAIN PageRequests /\ "terminal_open" \notin DOMAIN PageRequests
  BY Together DEF PageRequests
<1>8. "terminal_open" \notin DOMAIN PeerRequests
  BY DEF PeerRequests, With, ++
<1>9. "terminal_open" \notin DOMAIN DeviceRequests
  BY DEF DeviceRequests, With, ++
<1>10. Fields["ping"] = {} /\ "ping" \in RequestKind
  BY <1>1 DEF Fields, RequestKind, ++
<1>11. "datalink_speedtest" \in RequestKind /\ Fields["datalink_speedtest"] = {"destination_hash"}
  BY <1>2, <1>4, <1>5, <1>6, <1>7 DEF Fields, RequestKind, ++
<1>12. /\ "terminal_open" \in RequestKind
       /\ Fields["terminal_open"] = {"destination", "term_type", "rows", "cols", "shell"}
  BY <1>3, <1>4, <1>5, <1>6, <1>7, <1>8, <1>9 DEF Fields, RequestKind, ++
<1> QED
  BY <1>10, <1>11, <1>12

\* All that is given travels, but for what describes an attachment that is not there.
LEMMA PayloadHolds ==
  ASSUME NEW k \in RequestKind, NEW own \in SUBSET Fields[k]
  PROVE  /\ ToPayload(k, own) \subseteq Fields[k]
         /\ own \ ToPayload(k, own) \subseteq
               IF "attachment_data" \in own THEN {} ELSE {"attachment_filename", "attachment_mime"}
<1> DEFINE there == (Fields[k] \ IfGiven[k]) \cup (own \cap IfGiven[k])
<1>1. own \subseteq there /\ there \subseteq Fields[k]
  OBVIOUS
<1>2. ToPayload(k, own) = IF "attachment_data" \in there THEN there
                          ELSE there \ {"attachment_filename", "attachment_mime"}
  BY DEF ToPayload
<1> HIDE DEF there
<1> QED
  BY <1>1, <1>2

LEMMA SenderOutwaits ==
  ASSUME NEW k \in RequestKind, NEW t \in Nat
  PROVE  /\ Patience(k, t) \in Nat
         /\ "timeout" \in Fields[k] => Patience(k, t) > t
<1>1. k \in {"ping", "terminal_open", "datalink_speedtest"} => "timeout" \notin Fields[k]
  BY LimitsAreKnown
<1>2. CASE k \in {"ping", "terminal_open", "datalink_speedtest"}
  <2>1. Patience(k, t) \in {5, 45, 120}
    BY <1>1, <1>2 DEF Patience
  <2> QED
    BY <1>1, <1>2, <2>1
<1>3. CASE k = "query_page"
  <2>1. Patience(k, t) = t + 20
    BY <1>3 DEF Patience
  <2> QED
    BY <2>1
<1>4. CASE k \notin {"ping", "terminal_open", "datalink_speedtest", "query_page"}
  <2>1. Patience(k, t) = IF "timeout" \in Fields[k] THEN t + 5 ELSE 30
    BY <1>4 DEF Patience
  <2> QED
    BY <2>1
<1> QED
  BY <1>2, <1>3, <1>4

LetterIsSent ==
    /\ keys = ToPayload(letter.kind, letter.own)
    /\ patience = Patience(letter.kind, letter.timeout)

MessagesInv ==
    /\ letter.kind \in RequestKind /\ letter.own \in SUBSET Fields[letter.kind] /\ letter.timeout \in Nat
    /\ mail \in {"written", "sent", "read", "refused"}
    /\ mail = "written" => keys = {} /\ patience = 0
    /\ mail # "written" => LetterIsSent
    /\ mail # "read" => got = {}
    /\ mail = "read" => got = (letter.own \cap keys) \ Unread(letter.kind)
    /\ mail = "refused" => letter.kind \in Unknown

LEMMA MessagesStart == ASSUME MessagesInit PROVE MessagesInv
<1>1. PICK k \in RequestKind, t \in Timeouts : \E own \in SUBSET Fields[k] :
          letter = [kind |-> k, own |-> own, timeout |-> IF "timeout" \in Fields[k] THEN t ELSE 0]
  BY DEF MessagesInit
<1>2. PICK own \in SUBSET Fields[k] :
          letter = [kind |-> k, own |-> own, timeout |-> IF "timeout" \in Fields[k] THEN t ELSE 0]
  BY <1>1
<1>3. letter.kind \in RequestKind /\ letter.own \in SUBSET Fields[letter.kind] /\ letter.timeout \in Nat
  BY <1>2, MessageAssumption
<1>4. mail = "written" /\ keys = {} /\ got = {} /\ patience = 0
  BY DEF MessagesInit
<1> QED
  BY <1>3, <1>4 DEF MessagesInv

LEMMA MessagesStay == ASSUME MessagesInv, [MessagesNext]_messageVars PROVE MessagesInv'
<1>1. CASE UNCHANGED messageVars
  BY <1>1 DEF messageVars, MessagesInv, LetterIsSent
<1>2. CASE SendLetter
  BY <1>2 DEF SendLetter, MessagesInv, LetterIsSent
<1>3. CASE CreateRequest
  BY <1>3 DEF CreateRequest, MessagesInv, LetterIsSent
<1> QED
  BY <1>1, <1>2, <1>3 DEF MessagesNext

LEMMA MessagesShow == ASSUME MessagesInv PROVE MessagesTypeOK /\ RequestReadsBack
<1> DEFINE k == letter.kind
           own == letter.own
<1>1. k \in RequestKind /\ own \in SUBSET Fields[k] /\ letter.timeout \in Nat
  BY DEF MessagesInv
<1>2. /\ ToPayload(k, own) \subseteq Fields[k]
      /\ own \ ToPayload(k, own) \subseteq
               IF "attachment_data" \in own THEN {} ELSE {"attachment_filename", "attachment_mime"}
  BY <1>1, PayloadHolds
<1>3. Patience(k, letter.timeout) \in Nat /\ ("timeout" \in Fields[k] => Patience(k, letter.timeout) > letter.timeout)
  BY <1>1, SenderOutwaits
<1> HIDE DEF k, own
<1>4. /\ mail \in {"written", "sent", "read", "refused"}
      /\ mail = "written" => keys = {} /\ patience = 0
      /\ mail # "written" => keys = ToPayload(k, own) /\ patience = Patience(k, letter.timeout)
      /\ mail # "read" => got = {}
      /\ mail = "read" => got = (own \cap keys) \ Unread(k)
      /\ mail = "refused" => k \in Unknown
  BY DEF MessagesInv, LetterIsSent, k, own
<1>5. keys \subseteq Fields[k] /\ got \subseteq keys
  BY <1>2, <1>4
<1>6. patience \in Nat
  BY <1>3, <1>4
<1>7. MessagesTypeOK
  BY <1>1, <1>4, <1>5, <1>6 DEF MessagesTypeOK, k, own
<1>8. mail = "read" => own \ got \subseteq
           Unread(k) \cup (IF "attachment_data" \in own THEN {} ELSE {"attachment_filename", "attachment_mime"})
  BY <1>2, <1>4
<1>9. mail # "written" /\ "timeout" \in Fields[k] => patience > letter.timeout
  BY <1>3, <1>4
<1> QED
  BY <1>4, <1>7, <1>8, <1>9 DEF RequestReadsBack, k, own

\* For any time limits: a request is read as it was made, but for the URL of a page and
\* what describes no attachment, and its sender waits longer than it asks for.
THEOREM RequestsReadBack == MessagesSpec => [](MessagesTypeOK /\ RequestReadsBack)
<1>1. MessagesInit => MessagesInv
  BY MessagesStart
<1>2. MessagesInv /\ [MessagesNext]_messageVars => MessagesInv'
  BY MessagesStay
<1>3. MessagesInv => MessagesTypeOK /\ RequestReadsBack
  BY MessagesShow
<1> QED
  BY <1>1, <1>2, <1>3, PTL DEF MessagesSpec

-----------------------------------------------------------------------------
(* A message of the mesh.                                                   *)

LEMMA KindsAre ==
  /\ DOMAIN Questions = {"ping", "status_request", "exec", "reboot", "config_update", "self_update",
                         "inbox_query", "messages_query", "terminal_request"}
  /\ DOMAIN Answers = {"pong", "error", "status_response", "exec_result", "reboot_result", "config_result",
                       "self_update_result", "provision_result", "inbox_response", "messages_response",
                       "terminal_accept", "terminal_reject"}
  /\ DOMAIN AnswerOf = {"status_request", "exec", "reboot", "config_update", "self_update", "inbox_query",
                        "messages_query"}
<1>1. DOMAIN Questions = {"ping", "status_request", "exec", "reboot", "config_update", "self_update",
                          "inbox_query", "messages_query", "terminal_request"}
  BY DEF Questions
<1>2. DOMAIN Answers = {"pong", "error", "status_response", "exec_result", "reboot_result", "config_result",
                        "self_update_result", "provision_result", "inbox_response", "messages_response",
                        "terminal_accept", "terminal_reject"}
  BY DEF Answers
<1>3. DOMAIN AnswerOf = {"status_request", "exec", "reboot", "config_update", "self_update", "inbox_query",
                         "messages_query"}
  BY DEF AnswerOf
<1> QED
  BY <1>1, <1>2, <1>3

LEMMA NoKindIsRefusal == DOMAIN MessageFields \cap (Refusal \cup {"nothing"}) = {}
<1>1. DOMAIN Notices \cap (Refusal \cup {"nothing"}) = {}
  BY DEF Notices, Refusal
<1>2. DOMAIN OnLink \cap (Refusal \cup {"nothing"}) = {}
  BY DEF OnLink, Refusal
<1>3. DOMAIN Questions \cap (Refusal \cup {"nothing"}) = {}
  BY KindsAre DEF Refusal
<1>4. DOMAIN Answers \cap (Refusal \cup {"nothing"}) = {}
  BY KindsAre DEF Refusal
<1>5. DOMAIN MessageFields = DOMAIN Questions \cup DOMAIN Answers \cup DOMAIN Notices \cup DOMAIN OnLink
  BY DEF MessageFields, Envelopes, Either
<1> QED
  BY <1>1, <1>2, <1>3, <1>4, <1>5

LEMMA AnswersKnown ==
  /\ \A k \in DOMAIN AnswerOf : AnswerOf[k] \in DOMAIN Answers /\ AnswerOf[k] # "error"
  /\ \A k \in DOMAIN Answers : k \in DOMAIN Envelopes /\ Envelopes[k] = Answers[k] /\ MessageFields[k] = Answers[k]
  /\ ResponseTypes \subseteq DOMAIN Answers
  /\ DOMAIN Answers \cap {"nothing", "timeout", "invalid", "assertion"} = {}
<1>1. \A k \in DOMAIN AnswerOf : AnswerOf[k] \in DOMAIN Answers /\ AnswerOf[k] # "error"
  BY KindsAre DEF AnswerOf
<1>2. \A k \in DOMAIN Answers : k \in DOMAIN Envelopes /\ Envelopes[k] = Answers[k] /\ MessageFields[k] = Answers[k]
  <2>1. \A k \in DOMAIN Answers : k \notin DOMAIN Questions
    BY KindsAre
  <2>2. \A k \in DOMAIN Answers : k \in DOMAIN Envelopes /\ Envelopes[k] = Answers[k]
    BY <2>1 DEF Envelopes, Either
  <2> QED
    BY <2>2 DEF MessageFields, Either
<1>3. ResponseTypes \subseteq DOMAIN Answers
  BY <1>1, KindsAre DEF ResponseTypes
<1>4. DOMAIN Answers \cap {"nothing", "timeout", "invalid", "assertion"} = {}
  BY KindsAre
<1> QED
  BY <1>1, <1>2, <1>3, <1>4

Packed ==
    [kind |-> note.kind, own |-> Keys(note.form, note.kind, note.own, note.id),
     id |-> IF note.form # "envelope" \/ version = 1 THEN "none" ELSE Identifier(note.kind, note.id)]

Understood ==
    IF Refused(note.form, note.kind) # "no" THEN [Blank EXCEPT !.kind = Refused(note.form, note.kind)]
    ELSE [kind |-> packet.kind, own |-> note.own \cap packet.own, id |-> packet.id]

Returned ==
    IF answer.kind \notin ResponseTypes \/ answer.id # "request's"
    THEN [Blank EXCEPT !.kind = "timeout"]
    ELSE IF answer.kind \in {AnswerOf[note.kind], "error"} THEN DecodeResponse(answer)
    ELSE [Blank EXCEPT !.kind = "assertion"]

NoteIsMade ==
    /\ note.kind \in DOMAIN MessageFields /\ note.form \in Forms(note.kind)
    /\ note.own \in SUBSET MessageFields[note.kind] /\ note.id \in {"none", "given"}
    /\ version \in {1, 2} /\ harm \in Damage

AnswerIsMade ==
    /\ note.kind \in DOMAIN AnswerOf
    /\ answer = [kind |-> answer.kind, own |-> answer.own, id |-> answer.id]
    /\ answer.kind \in DOMAIN Envelopes /\ answer.own \in SUBSET MessageFields[answer.kind]

MeshInv ==
    /\ NoteIsMade /\ stage \in {"made", "sent", "read", "answered", "ended"}
    /\ packet = IF stage = "made" THEN Blank ELSE Packed
    /\ understood = IF stage \in {"made", "sent"} THEN Blank ELSE Understood
    /\ IF stage \in {"answered", "ended"} THEN AnswerIsMade ELSE answer = Blank
    /\ returned = IF stage = "ended" THEN Returned ELSE Blank

LEMMA MeshStarts == ASSUME MeshInit PROVE MeshInv
<1>1. PICK k \in DOMAIN MessageFields : \E own \in SUBSET MessageFields[k], form \in Forms(k) :
          /\ version \in (IF form = "envelope" THEN {1, 2} ELSE {2})
          /\ \E id \in (IF version = 2 /\ form = "envelope" THEN {"none", "given"} ELSE {"none"}) :
                note = [form |-> form, kind |-> k, own |-> own, id |-> id]
  BY DEF MeshInit
<1>2. PICK own \in SUBSET MessageFields[k], form \in Forms(k) :
          /\ version \in (IF form = "envelope" THEN {1, 2} ELSE {2})
          /\ \E id \in (IF version = 2 /\ form = "envelope" THEN {"none", "given"} ELSE {"none"}) :
                note = [form |-> form, kind |-> k, own |-> own, id |-> id]
  BY <1>1
<1>3. PICK id \in {"none", "given"} : note = [form |-> form, kind |-> k, own |-> own, id |-> id]
  BY <1>2
<1>4. version \in {1, 2}
  BY <1>2
<1>5. harm \in Damage
  BY DEF MeshInit, Damage
<1>6. note.form = form /\ note.kind = k /\ note.own = own /\ note.id = id
  BY <1>3
<1>7. NoteIsMade
  BY <1>4, <1>5, <1>6 DEF NoteIsMade
<1>8. packet = Blank /\ stage = "made" /\ understood = Blank /\ answer = Blank /\ returned = Blank
  BY DEF MeshInit
<1> QED
  BY <1>7, <1>8 DEF MeshInv

LEMMA MeshStays == ASSUME MeshInv, [MeshNext]_meshVars PROVE MeshInv'
<1>1. CASE UNCHANGED meshVars
  <2>1. UNCHANGED <<note, version, packet, harm, stage, understood, answer, returned>>
    BY <1>1 DEF meshVars
  <2>2. Packed' = Packed /\ Understood' = Understood /\ Returned' = Returned
        /\ NoteIsMade' = NoteIsMade /\ AnswerIsMade' = AnswerIsMade
    BY <2>1 DEF Packed, Understood, Returned, NoteIsMade, AnswerIsMade, Keys, Refused
  <2> QED
    BY <2>1, <2>2 DEF MeshInv
<1>2. CASE Pack
  <2>1. /\ stage = "made" /\ stage' = "sent" /\ packet' = Packed
        /\ UNCHANGED <<note, version, harm, understood, answer, returned>>
    BY <1>2 DEF Pack, Packed
  <2>2. Packed' = Packed /\ NoteIsMade' = NoteIsMade
    BY <2>1 DEF Packed, NoteIsMade
  <2> QED
    BY <2>1, <2>2 DEF MeshInv
<1>3. CASE Unpack
  <2>1. /\ stage = "sent" /\ stage' = "read" /\ understood' = Understood
        /\ UNCHANGED <<note, version, packet, harm, answer, returned>>
    BY <1>3 DEF Unpack, Understood
  <2>2. Packed' = Packed /\ NoteIsMade' = NoteIsMade /\ Understood' = Understood
    BY <2>1 DEF Packed, NoteIsMade, Understood, Refused
  <2> QED
    BY <2>1, <2>2 DEF MeshInv
<1>4. CASE PeerAnswers
  <2>1. /\ stage = "read" /\ stage' = "answered" /\ note.kind \in DOMAIN AnswerOf
        /\ UNCHANGED <<note, version, packet, harm, understood, returned>>
    BY <1>4 DEF PeerAnswers
  <2>2. PICK k \in DOMAIN Envelopes, id \in {"request's", "fresh", "zeros"} :
          \E own \in (IF k = AnswerOf[note.kind] /\ k # "status_response" THEN SUBSET MessageFields[k]
                      ELSE {{}, MessageFields[k]}) :
             answer' = [kind |-> k, own |-> own, id |-> id]
    BY <1>4 DEF PeerAnswers
  <2>3. PICK own \in SUBSET MessageFields[k] : answer' = [kind |-> k, own |-> own, id |-> id]
    <3>1. \A own \in (IF k = AnswerOf[note.kind] /\ k # "status_response" THEN SUBSET MessageFields[k]
                      ELSE {{}, MessageFields[k]}) : own \in SUBSET MessageFields[k]
      OBVIOUS
    <3> QED
      BY <2>2, <3>1
  <2>4. AnswerIsMade'
    <3>1. answer'.kind = k /\ answer'.own = own /\ answer'.id = id
      BY <2>3
    <3> QED
      BY <2>1, <2>2, <2>3, <3>1 DEF AnswerIsMade
  <2>5. Packed' = Packed /\ NoteIsMade' = NoteIsMade /\ Understood' = Understood
    BY <2>1 DEF Packed, NoteIsMade, Understood, Refused
  <2> QED
    BY <2>1, <2>4, <2>5 DEF MeshInv
<1>5. CASE CallReturns
  <2>1. /\ stage = "answered" /\ stage' = "ended" /\ returned' = Returned
        /\ UNCHANGED <<note, version, packet, harm, understood, answer>>
    BY <1>5 DEF CallReturns, Returned
  <2>2. Packed' = Packed /\ NoteIsMade' = NoteIsMade /\ Understood' = Understood /\ Returned' = Returned
        /\ AnswerIsMade' = AnswerIsMade
    BY <2>1 DEF Packed, NoteIsMade, Understood, Refused, Returned, AnswerIsMade
  <2> QED
    BY <2>1, <2>2 DEF MeshInv
<1> QED
  BY <1>1, <1>2, <1>3, <1>4, <1>5 DEF MeshNext

\* What a receiver refuses is damaged.
LEMMA RefusedIsDamaged ==
  /\ Refused(note.form, note.kind) \in Refusal \cup {"no"}
  /\ harm = "none" => Refused(note.form, note.kind) = "no"
  /\ note.form \in {"envelope", "link"} /\ harm \in {"short", "type"} => Refused(note.form, note.kind) # "no"
<1> DEFINE form == note.form
           k == note.kind
<1>1. Refused(form, k) \in Refusal \cup {"no"}
  BY DEF Refused, Refusal
<1>2. harm = "none" => Refused(form, k) = "no"
  BY DEF Refused
<1>3. form = "link" /\ harm \in {"short", "type"} => Refused(form, k) # "no"
  BY DEF Refused
<1>4. form = "envelope" /\ harm \in {"short", "type"} => Refused(form, k) # "no"
  BY DEF Refused
<1> QED
  BY <1>1, <1>2, <1>3, <1>4

LEMMA FormsAre == ASSUME NoteIsMade PROVE note.form \in {"envelope", "link", "record"}
  BY DEF NoteIsMade, Forms

LEMMA PackedHolds ==
  ASSUME NoteIsMade
  PROVE  /\ Packed.kind = note.kind /\ note.own \subseteq Packed.own
         /\ version = 1 => Packed.id = "none"
         /\ note.form = "envelope" /\ version = 2 =>
               /\ Packed.id # "none"
               /\ note.kind \in DOMAIN Questions => Packed.id # "zeros"
<1>1. note.own \subseteq Keys(note.form, note.kind, note.own, note.id)
  <2>1. note.own \subseteq MessageFields[note.kind]
    BY DEF NoteIsMade
  <2> QED
    BY <2>1 DEF Keys
<1>2. Identifier(note.kind, note.id) # "none"
  BY DEF Identifier
<1>3. note.kind \in DOMAIN Questions => Identifier(note.kind, note.id) # "zeros"
  <2>1. note.id # "zeros"
    BY DEF NoteIsMade
  <2>2. "announce" \notin DOMAIN Questions
    BY KindsAre
  <2> QED
    BY <2>1, <2>2 DEF Identifier
<1>4. /\ Packed.kind = note.kind /\ Packed.own = Keys(note.form, note.kind, note.own, note.id)
      /\ Packed.id = IF note.form # "envelope" \/ version = 1 THEN "none" ELSE Identifier(note.kind, note.id)
  BY DEF Packed
<1> QED
  BY <1>1, <1>2, <1>3, <1>4

LEMMA MessagesAreUnderstood == ASSUME MeshInv PROVE MessageReadsBack
<1> SUFFICES ASSUME stage \in {"read", "answered", "ended"}
             PROVE  /\ harm = "none" => understood.kind = note.kind /\ understood.own = note.own
                    /\ harm = "none" /\ version = 1 => understood.id = "none"
                    /\ note.form = "envelope" /\ version = 2 /\ understood.kind = note.kind => understood.id # "none"
                    /\ note.form = "envelope" /\ note.kind \in DOMAIN Questions /\ version = 2
                          /\ understood.kind = note.kind => understood.id # "zeros"
                    /\ note.form # "record" /\ harm \in {"short", "type"} => understood.kind \in Refusal
  BY DEF MessageReadsBack
<1> DEFINE no == Refused(note.form, note.kind)
<1>1. NoteIsMade /\ packet = Packed /\ understood = Understood
  BY DEF MeshInv
<1>2. /\ packet.kind = note.kind /\ note.own \subseteq packet.own
      /\ version = 1 => packet.id = "none"
      /\ note.form = "envelope" /\ version = 2 =>
               /\ packet.id # "none"
               /\ note.kind \in DOMAIN Questions => packet.id # "zeros"
  BY <1>1, PackedHolds
<1>3. /\ no # "no" => understood.kind = no
      /\ no = "no" => /\ understood.kind = packet.kind /\ understood.own = note.own \cap packet.own
                      /\ understood.id = packet.id
  BY <1>1 DEF Understood, Blank
<1>4. /\ no \in Refusal \cup {"no"} /\ (harm = "none" => no = "no")
      /\ note.form \in {"envelope", "link"} /\ harm \in {"short", "type"} => no # "no"
  BY RefusedIsDamaged
<1>5. note.form \in {"envelope", "link", "record"} /\ note.kind \notin Refusal
  BY <1>1, FormsAre, NoKindIsRefusal DEF NoteIsMade
<1> HIDE DEF no
<1>6. understood.kind = note.kind => no = "no"
  BY <1>3, <1>4, <1>5
<1> QED
  BY <1>2, <1>3, <1>4, <1>5, <1>6

LEMMA CallsReturnTheirs == ASSUME MeshInv PROVE CallReturnsItsAnswer
<1> SUFFICES ASSUME stage = "ended"
             PROVE  /\ returned.kind \in DOMAIN Answers =>
                          /\ answer.id = "request's" /\ returned.kind = AnswerOf[note.kind] /\ returned.own = answer.own
                    /\ answer.kind = AnswerOf[note.kind] /\ answer.id = "request's" => returned.kind = answer.kind
                    /\ returned.kind = "timeout" <=> answer.id # "request's" \/ answer.kind \notin ResponseTypes
  BY DEF CallReturnsItsAnswer
<1>1. returned = Returned /\ AnswerIsMade
  BY DEF MeshInv
<1> DEFINE wanted_ == AnswerOf[note.kind]
<1>2. note.kind \in DOMAIN AnswerOf /\ wanted_ \in DOMAIN Answers /\ wanted_ # "error" /\ wanted_ \in ResponseTypes
  BY <1>1, AnswersKnown DEF AnswerIsMade, ResponseTypes
<1>3. {"nothing", "timeout", "invalid", "assertion"} \cap DOMAIN Answers = {} /\ "error" \in ResponseTypes
  BY AnswersKnown DEF ResponseTypes
<1>4. CASE answer.kind \notin ResponseTypes \/ answer.id # "request's"
  <2>1. returned.kind = "timeout"
    BY <1>1, <1>4 DEF Returned, Blank
  <2> QED
    BY <1>2, <1>3, <1>4, <2>1
<1>5. CASE answer.kind \in ResponseTypes /\ answer.id = "request's" /\ answer.kind = "error"
  <2>1. returned = [Blank EXCEPT !.kind = "invalid"]
    BY <1>1, <1>5 DEF Returned, DecodeResponse
  <2>2. returned.kind = "invalid"
    BY <2>1 DEF Blank
  <2> QED
    BY <1>2, <1>3, <1>5, <2>2
<1>6. CASE answer.kind \in ResponseTypes /\ answer.id = "request's" /\ answer.kind = wanted_
  <2>1. answer.own \subseteq Answers[answer.kind]
    BY <1>1, <1>2, <1>6, AnswersKnown DEF AnswerIsMade
  <2>2. returned = [answer EXCEPT !.own = answer.own \cap Answers[answer.kind]]
    BY <1>1, <1>2, <1>6 DEF Returned, DecodeResponse
  <2> QED
    BY <1>2, <1>3, <1>6, <2>1, <2>2
<1>7. CASE answer.kind \in ResponseTypes /\ answer.id = "request's" /\ answer.kind \notin {wanted_, "error"}
  <2>1. returned.kind = "assertion"
    BY <1>1, <1>7 DEF Returned, Blank
  <2> QED
    BY <1>2, <1>3, <1>7, <2>1
<1> QED
  BY <1>4, <1>5, <1>6, <1>7
LEMMA MeshHasTypes == ASSUME MeshInv PROVE MeshTypeOK
<1>1. NoteIsMade /\ stage \in {"made", "sent", "read", "answered", "ended"}
  BY DEF MeshInv
<1>2. Blank.kind = "nothing" /\ Blank.own = {}
  BY DEF Blank
<1>3. packet.kind \in {"nothing", note.kind}
  BY <1>2 DEF MeshInv, Packed
<1>4. understood.kind \in {"nothing", note.kind} \cup Refusal /\ understood.own \subseteq note.own
  <2>1. CASE stage \in {"made", "sent"}
    BY <1>2, <2>1 DEF MeshInv
  <2>2. CASE stage \notin {"made", "sent"}
    <3>1. understood = Understood
      BY <2>2 DEF MeshInv
    <3>2. CASE Refused(note.form, note.kind) # "no"
      <4>1. understood.kind = Refused(note.form, note.kind) /\ understood.own = {}
        BY <3>1, <3>2 DEF Understood, Blank
      <4> QED
        BY <3>2, <4>1, RefusedIsDamaged
    <3>3. CASE Refused(note.form, note.kind) = "no"
      BY <1>3, <3>1, <3>3 DEF Understood
    <3> QED
      BY <3>2, <3>3
  <2> QED
    BY <2>1, <2>2
<1>5. answer.kind \in {"nothing"} \cup DOMAIN Envelopes
  BY <1>2 DEF MeshInv, AnswerIsMade
<1>6. returned.kind \in {"nothing", "timeout", "invalid", "assertion"} \cup DOMAIN Answers
  <2>1. CASE stage # "ended"
    BY <1>2, <2>1 DEF MeshInv
  <2>2. CASE stage = "ended"
    <3>1. returned = Returned /\ AnswerIsMade
      BY <2>2 DEF MeshInv
    <3>2. CASE answer.kind \notin ResponseTypes \/ answer.id # "request's"
      BY <3>1, <3>2 DEF Returned, Blank
    <3>3. CASE ~(answer.kind \notin ResponseTypes \/ answer.id # "request's")
      <4>1. answer.kind \in DOMAIN Answers
        BY <3>3, AnswersKnown
      <4>2. returned = IF answer.kind \in {AnswerOf[note.kind], "error"} THEN DecodeResponse(answer)
                       ELSE [Blank EXCEPT !.kind = "assertion"]
        BY <3>1, <3>3 DEF Returned
      <4>3. CASE answer.kind \in {AnswerOf[note.kind], "error"} /\ answer.kind # "error"
        <5>1. returned = [answer EXCEPT !.own = answer.own \cap Answers[answer.kind]]
          BY <4>2, <4>3 DEF DecodeResponse
        <5> QED
          BY <3>1, <4>1, <5>1 DEF AnswerIsMade
      <4>4. CASE answer.kind \in {AnswerOf[note.kind], "error"} /\ answer.kind = "error"
        <5>1. returned = [Blank EXCEPT !.kind = "invalid"]
          BY <4>2, <4>4 DEF DecodeResponse
        <5> QED
          BY <5>1 DEF Blank
      <4>5. CASE answer.kind \notin {AnswerOf[note.kind], "error"}
        BY <4>2, <4>5 DEF Blank
      <4> QED
        BY <4>3, <4>4, <4>5
    <3> QED
      BY <3>2, <3>3
  <2> QED
    BY <2>1, <2>2
<1> QED
  BY <1>1, <1>3, <1>4, <1>5, <1>6 DEF MeshTypeOK, NoteIsMade

LEMMA MeshInvariant == MeshSpec => []MeshInv
<1>1. MeshInit => MeshInv
  BY MeshStarts
<1>2. MeshInv /\ [MeshNext]_meshVars => MeshInv'
  BY MeshStays
<1> QED
  BY <1>1, <1>2, PTL DEF MeshSpec

\* A message is read as it was made or refused for its damage, and a call returns the
\* answer that bears its identifier, in full, or raises; for every kind of message.
THEOREM MeshIsUnderstood == MeshSpec => [](MeshTypeOK /\ MessageReadsBack /\ CallReturnsItsAnswer)
<1>1. MeshInv => MeshTypeOK /\ MessageReadsBack /\ CallReturnsItsAnswer
  BY MeshHasTypes, MessagesAreUnderstood, CallsReturnTheirs
<1> QED
  BY <1>1, MeshInvariant, PTL

-----------------------------------------------------------------------------
(* The data of terminal sessions.                                           *)

\* The numbered items in a sequence.
ItemsOf(q, K) == {q[i] : i \in {j \in 1..Len(q) : q[j] \in K}}
RisingIn(q, K) == \A i, j \in 1..Len(q) : i < j /\ q[i] \in K /\ q[j] \in K => q[i][2] < q[j][2]
Ahead(A, B) == \A a \in A, b \in B : a[2] < b[2]

LEMMA ItemAppended ==
  ASSUME NEW D, NEW K, NEW q \in Seq(D), NEW x \in D
  PROVE  /\ x \in K => ItemsOf(Append(q, x), K) = ItemsOf(q, K) \cup {x}
         /\ x \notin K => ItemsOf(Append(q, x), K) = ItemsOf(q, K)
         /\ RisingIn(q, K) /\ (x \in K => \A y \in ItemsOf(q, K) : y[2] < x[2]) => RisingIn(Append(q, x), K)
<1> DEFINE t == Append(q, x)
<1>1. Len(t) = Len(q) + 1 /\ Len(q) \in Nat /\ t[Len(t)] = x /\ \A i \in 1..Len(q) : t[i] = q[i]
  OBVIOUS
<1> HIDE DEF t
<1>2. \A i \in 1..Len(t) : i = Len(t) \/ i \in 1..Len(q)
  BY <1>1
<1>3. (\A i \in 1..Len(q) : i \in 1..Len(t)) /\ Len(t) \in 1..Len(t)
  BY <1>1
<1>4. \A y : y \in ItemsOf(t, K) <=> y \in ItemsOf(q, K) \/ (x \in K /\ y = x)
  <2>1. ASSUME NEW y \in ItemsOf(t, K) PROVE y \in ItemsOf(q, K) \/ (x \in K /\ y = x)
    <3>1. PICK i \in 1..Len(t) : t[i] \in K /\ y = t[i]
      BY <2>1 DEF ItemsOf
    <3> QED
      BY <1>1, <1>2, <3>1 DEF ItemsOf
  <2>2. ASSUME NEW y \in ItemsOf(q, K) PROVE y \in ItemsOf(t, K)
    <3>1. PICK i \in 1..Len(q) : q[i] \in K /\ y = q[i]
      BY <2>2 DEF ItemsOf
    <3> QED
      BY <1>1, <1>3, <3>1 DEF ItemsOf
  <2>3. x \in K => x \in ItemsOf(t, K)
    BY <1>1, <1>3 DEF ItemsOf
  <2> QED
    BY <2>1, <2>2, <2>3
<1>5. ASSUME RisingIn(q, K), x \in K => \A y \in ItemsOf(q, K) : y[2] < x[2] PROVE RisingIn(t, K)
  <2>1. ASSUME NEW i \in 1..Len(t), NEW j \in 1..Len(t), i < j, t[i] \in K, t[j] \in K
        PROVE  t[i][2] < t[j][2]
    <3>1. i \in 1..Len(q) /\ t[i] = q[i]
      BY <1>1, <2>1
    <3>2. q[i] \in ItemsOf(q, K)
      BY <2>1, <3>1 DEF ItemsOf
    <3>3. CASE j = Len(t)
      BY <1>1, <1>5, <2>1, <3>1, <3>2, <3>3
    <3>4. CASE j \in 1..Len(q)
      BY <1>1, <1>5, <2>1, <3>1, <3>4 DEF RisingIn
    <3> QED
      BY <1>2, <3>3, <3>4
  <2> QED
    BY <2>1 DEF RisingIn
<1>6. x \in K => ItemsOf(t, K) = ItemsOf(q, K) \cup {x}
  BY <1>4
<1>7. x \notin K => ItemsOf(t, K) = ItemsOf(q, K)
  BY <1>4
<1> QED
  BY <1>5, <1>6, <1>7 DEF t

LEMMA ItemTaken ==
  ASSUME NEW D, NEW K, NEW q \in Seq(D), q # <<>>
  PROVE  /\ Head(q) \in K => ItemsOf(q, K) = ItemsOf(Tail(q), K) \cup {Head(q)}
         /\ Head(q) \notin K => ItemsOf(q, K) = ItemsOf(Tail(q), K)
         /\ RisingIn(q, K) => /\ RisingIn(Tail(q), K)
                              /\ Head(q) \in K => \A y \in ItemsOf(Tail(q), K) : Head(q)[2] < y[2]
<1> DEFINE t == Tail(q)
           h == Head(q)
<1>1. Len(q) = Len(t) + 1 /\ Len(t) \in Nat /\ h = q[1] /\ \A i \in 1..Len(t) : t[i] = q[i + 1]
  OBVIOUS
<1> HIDE DEF t, h
<1>2. \A i \in 1..Len(q) : i = 1 \/ (i - 1 \in 1..Len(t) /\ t[i - 1] = q[i])
  BY <1>1
<1>3. \A i \in 1..Len(t) : i + 1 \in 1..Len(q) /\ 1 < i + 1 /\ q[i + 1] = t[i]
  BY <1>1
<1>4. 1 \in 1..Len(q)
  BY <1>1
<1>5. \A y : y \in ItemsOf(q, K) <=> y \in ItemsOf(t, K) \/ (h \in K /\ y = h)
  <2>1. ASSUME NEW y \in ItemsOf(q, K) PROVE y \in ItemsOf(t, K) \/ (h \in K /\ y = h)
    <3>1. PICK i \in 1..Len(q) : q[i] \in K /\ y = q[i]
      BY <2>1 DEF ItemsOf
    <3> QED
      BY <1>1, <1>2, <3>1 DEF ItemsOf
  <2>2. ASSUME NEW y \in ItemsOf(t, K) PROVE y \in ItemsOf(q, K)
    <3>1. PICK i \in 1..Len(t) : t[i] \in K /\ y = t[i]
      BY <2>2 DEF ItemsOf
    <3> QED
      BY <1>3, <3>1 DEF ItemsOf
  <2>3. h \in K => h \in ItemsOf(q, K)
    BY <1>1, <1>4 DEF ItemsOf
  <2> QED
    BY <2>1, <2>2, <2>3
<1>6. ASSUME RisingIn(q, K) PROVE RisingIn(t, K) /\ (h \in K => \A y \in ItemsOf(t, K) : h[2] < y[2])
  <2>1. ASSUME NEW i \in 1..Len(t), NEW j \in 1..Len(t), i < j, t[i] \in K, t[j] \in K
        PROVE  t[i][2] < t[j][2]
    <3>1. i + 1 \in 1..Len(q) /\ j + 1 \in 1..Len(q) /\ i + 1 < j + 1 /\ t[i] = q[i + 1] /\ t[j] = q[j + 1]
      BY <1>1, <2>1
    <3> QED
      BY <1>6, <2>1, <3>1 DEF RisingIn
  <2>2. ASSUME h \in K, NEW y \in ItemsOf(t, K) PROVE h[2] < y[2]
    <3>1. PICK i \in 1..Len(t) : t[i] \in K /\ y = t[i]
      BY <2>2 DEF ItemsOf
    <3> QED
      BY <1>1, <1>3, <1>4, <1>6, <2>2, <3>1 DEF RisingIn
  <2> QED
    BY <2>1, <2>2 DEF RisingIn
<1>7. h \in K => ItemsOf(q, K) = ItemsOf(t, K) \cup {h}
  BY <1>5
<1>8. h \notin K => ItemsOf(q, K) = ItemsOf(t, K)
  BY <1>5
<1> QED
  BY <1>6, <1>7, <1>8 DEF t, h

LEMMA NoItems == \A K : ItemsOf(<<>>, K) = {} /\ RisingIn(<<>>, K)
<1>1. Len(<<>>) = 0 /\ 1..0 = {}
  OBVIOUS
<1> QED
  BY <1>1 DEF ItemsOf, RisingIn

-----------------------------------------------------------------------------
(* One session: what its process has written, on its way to the client.     *)

InRead(r) == IF r[1] = "data" THEN {r[2]} ELSE {}

\* Own items only, and none before one that is ahead of it.
Flowing(s, w, b, r, ow, o) ==
    /\ \A x \in ItemsOf(b, Chunk) \cup InRead(r) \cup ItemsOf(ow, Chunk) \cup ItemsOf(o, Chunk) :
          x[1] = s /\ x[2] \in 1..w
    /\ RisingIn(b, Chunk) /\ RisingIn(ow, Chunk) /\ RisingIn(o, Chunk)
    /\ Ahead(ItemsOf(o, Chunk), ItemsOf(ow, Chunk)) /\ Ahead(ItemsOf(o, Chunk), InRead(r))
    /\ Ahead(ItemsOf(o, Chunk), ItemsOf(b, Chunk)) /\ Ahead(ItemsOf(ow, Chunk), InRead(r))
    /\ Ahead(ItemsOf(ow, Chunk), ItemsOf(b, Chunk)) /\ Ahead(InRead(r), ItemsOf(b, Chunk))

ReadState == {NotReading, Asked, Over} \cup {<<"data", c>> : c \in Chunk}

LEMMA ReadsAre ==
  /\ InRead(NotReading) = {} /\ InRead(Asked) = {} /\ InRead(Over) = {}
  /\ NotReading[1] = "none" /\ Asked[1] = "asked" /\ Over[1] = "over"
  /\ \A c : InRead(<<"data", c>>) = {c} /\ <<"data", c>>[1] = "data" /\ <<"data", c>>[2] = c
  /\ \A r \in ReadState : r[1] = "data" => r[2] \in Chunk
  BY DEF InRead, NotReading, Asked, Over, ReadState

LEMMA ChunksAre ==
  /\ \A c \in Chunk : c[1] \in Stream /\ c[2] \in 1..MaxWritten /\ c \notin Exit
  /\ \A e \in Exit : e \notin Chunk
  /\ \A s \in Stream, n \in 1..MaxWritten : <<s, n>> \in Chunk /\ <<s, n>>[1] = s /\ <<s, n>>[2] = n
  BY StreamsAssumption DEF Chunk, Exit

\* The process writes.
LEMMA FlowsIn ==
  ASSUME NEW s \in Stream, NEW w \in Nat, w < MaxWritten, NEW b \in Seq(Chunk), NEW r, NEW ow, NEW o,
         Flowing(s, w, b, r, ow, o)
  PROVE  Flowing(s, w + 1, Append(b, <<s, w + 1>>), r, ow, o)
<1> DEFINE x == <<s, w + 1>>
           bn == Append(b, x)
<1>1. x \in Chunk /\ x[1] = s /\ x[2] = w + 1
  <2>1. w + 1 \in 1..MaxWritten
    BY StreamsAssumption
  <2> QED
    BY <2>1, ChunksAre
<1> HIDE DEF x
<1>2. \A y \in ItemsOf(b, Chunk) \cup InRead(r) \cup ItemsOf(ow, Chunk) \cup ItemsOf(o, Chunk) :
          y[1] = s /\ y[2] \in 1..w
  BY DEF Flowing
<1>3. \A n : n \in 1..w => n \in 1..(w + 1) /\ n < w + 1
  OBVIOUS
<1>4. w + 1 \in 1..(w + 1)
  OBVIOUS
<1>5. RisingIn(b, Chunk)
  BY DEF Flowing
<1>6. ItemsOf(bn, Chunk) = ItemsOf(b, Chunk) \cup {x} /\ RisingIn(bn, Chunk)
  BY <1>1, <1>2, <1>3, <1>5, ItemAppended
<1> HIDE DEF bn
<1>7. Flowing(s, w + 1, bn, r, ow, o)
  BY <1>1, <1>2, <1>3, <1>4, <1>6 DEF Flowing, Ahead
<1> QED
  BY <1>7 DEF bn, x

\* What is lost, and a code of an exit, change no order.
LEMMA FlowsLess ==
  ASSUME NEW s, NEW w, NEW b, NEW r, NEW ow, NEW o, NEW b2, NEW r2, NEW ow2,
         Flowing(s, w, b, r, ow, o),
         ItemsOf(b2, Chunk) \subseteq ItemsOf(b, Chunk), RisingIn(b2, Chunk), InRead(r2) \subseteq InRead(r),
         ItemsOf(ow2, Chunk) \subseteq ItemsOf(ow, Chunk), RisingIn(ow2, Chunk)
  PROVE  Flowing(s, w, b2, r2, ow2, o)
  BY DEF Flowing, Ahead

\* A chunk is read from the PTY.
LEMMA FlowsToRead ==
  ASSUME NEW s, NEW w \in Nat, NEW b \in Seq(Chunk), b # <<>>, NEW r, NEW ow, NEW o, InRead(r) = {},
         Flowing(s, w, b, r, ow, o)
  PROVE  /\ Flowing(s, w, Tail(b), <<"data", Head(b)>>, ow, o)
         /\ \A r2 : InRead(r2) = {} => Flowing(s, w, Tail(b), r2, ow, o)
<1> DEFINE x == Head(b)
           t == Tail(b)
           rn == <<"data", x>>
<1>1. x \in Chunk /\ InRead(rn) = {x}
  BY ReadsAre
<1>2. RisingIn(b, Chunk)
  BY DEF Flowing
<1>3. /\ ItemsOf(b, Chunk) = ItemsOf(t, Chunk) \cup {x} /\ RisingIn(t, Chunk)
      /\ \A y \in ItemsOf(t, Chunk) : x[2] < y[2]
  BY <1>1, <1>2, ItemTaken
<1> HIDE DEF x, t, rn
<1>4. Flowing(s, w, t, rn, ow, o)
  BY <1>1, <1>3 DEF Flowing, Ahead
<1>5. ASSUME NEW r2, InRead(r2) = {} PROVE Flowing(s, w, t, r2, ow, o)
  BY <1>3, <1>5 DEF Flowing, Ahead
<1> QED
  BY <1>4, <1>5 DEF x, t, rn

\* It is sent.
LEMMA FlowsToLink ==
  ASSUME NEW s, NEW w \in Nat, NEW b, NEW r \in ReadState, r[1] = "data", NEW ow \in Seq(Chunk \cup Exit), NEW o,
         Flowing(s, w, b, r, ow, o)
  PROVE  Flowing(s, w, b, NotReading, Append(ow, r[2]), o)
<1> DEFINE x == r[2]
           t == Append(ow, x)
<1>1. x \in Chunk /\ InRead(r) = {x} /\ InRead(NotReading) = {}
  BY ReadsAre DEF InRead
<1>2. RisingIn(ow, Chunk) /\ \A y \in ItemsOf(ow, Chunk) : y[2] < x[2]
  BY <1>1 DEF Flowing, Ahead
<1>3. ItemsOf(t, Chunk) = ItemsOf(ow, Chunk) \cup {x} /\ RisingIn(t, Chunk)
  <2>1. x \in Chunk \cup Exit
    BY <1>1
  <2> HIDE DEF x
  <2> QED
    BY <1>1, <1>2, <2>1, ItemAppended
<1> HIDE DEF x, t
<1>4. Flowing(s, w, b, NotReading, t, o)
  BY <1>1, <1>3 DEF Flowing, Ahead
<1> QED
  BY <1>4 DEF x, t

\* The client shows it.
LEMMA FlowsOut ==
  ASSUME NEW s, NEW w \in Nat, NEW b, NEW r, NEW ow \in Seq(Chunk \cup Exit), ow # <<>>, NEW o \in Seq(Chunk),
         Flowing(s, w, b, r, ow, o)
  PROVE  /\ Head(ow) \in Exit => Flowing(s, w, b, r, Tail(ow), o)
         /\ Head(ow) \notin Exit => Flowing(s, w, b, r, Tail(ow), Append(o, Head(ow))) /\ Head(ow) \in Chunk
         /\ Flowing(s, w, b, r, Tail(ow), o)
<1> DEFINE x == Head(ow)
           t == Tail(ow)
           on == Append(o, x)
<1>1. x \in Chunk \cup Exit
  OBVIOUS
<1>2. RisingIn(ow, Chunk) /\ RisingIn(o, Chunk)
  BY DEF Flowing
<1>3. /\ x \in Chunk => ItemsOf(ow, Chunk) = ItemsOf(t, Chunk) \cup {x}
      /\ x \notin Chunk => ItemsOf(ow, Chunk) = ItemsOf(t, Chunk)
      /\ RisingIn(t, Chunk) /\ (x \in Chunk => \A y \in ItemsOf(t, Chunk) : x[2] < y[2])
  BY <1>2, ItemTaken
<1>4. ASSUME x \in Chunk PROVE ItemsOf(on, Chunk) = ItemsOf(o, Chunk) \cup {x} /\ RisingIn(on, Chunk)
  <2>1. \A y \in ItemsOf(o, Chunk) : y[2] < x[2]
    BY <1>3, <1>4 DEF Flowing, Ahead
  <2> HIDE DEF x
  <2> QED
    BY <1>2, <1>4, <2>1, ItemAppended
<1> HIDE DEF x, t, on
<1>5. Flowing(s, w, b, r, t, o)
  BY <1>3 DEF Flowing, Ahead
<1>6. ASSUME x \in Chunk PROVE Flowing(s, w, b, r, t, on)
  <2>1. ItemsOf(on, Chunk) = ItemsOf(o, Chunk) \cup {x} /\ RisingIn(on, Chunk)
    BY <1>4, <1>6
  <2>2. /\ ItemsOf(ow, Chunk) = ItemsOf(t, Chunk) \cup {x} /\ RisingIn(t, Chunk)
        /\ \A y \in ItemsOf(t, Chunk) : x[2] < y[2]
    BY <1>3, <1>6
  <2> QED
    BY <2>1, <2>2 DEF Flowing, Ahead
<1> QED
  BY <1>1, <1>5, <1>6 DEF x, t, on

\* On a channel that nothing was read from at the wrong time, nothing is missing.
Held(r) == IF r[1] = "data" THEN 1 ELSE 0
WholeOut(s, ow, o) ==
    /\ \A i \in 1..Len(o) : o[i] = <<s, i>>
    /\ \A i \in 1..Len(ow) : ow[i] \in Chunk => ow[i] = <<s, Len(o) + i>>
WholeIn(s, w, b, r, n) ==
    /\ r[1] = "data" => r[2] = <<s, n + 1>>
    /\ \A i \in 1..Len(b) : b[i] = <<s, n + Held(r) + i>>
    /\ w = n + Held(r) + Len(b)

LEMMA WholeIsWritten ==
  ASSUME NEW s, NEW w \in Nat, NEW b \in Seq(Chunk), NEW r, NEW n \in Nat, WholeIn(s, w, b, r, n)
  PROVE  WholeIn(s, w + 1, Append(b, <<s, w + 1>>), r, n)
<1> DEFINE x == <<s, w + 1>>
           t == Append(b, x)
           h == Held(r)
<1>1. Len(t) = Len(b) + 1 /\ Len(b) \in Nat /\ t[Len(t)] = x /\ \A i \in 1..Len(b) : t[i] = b[i]
  OBVIOUS
<1>2. h \in {0, 1}
  BY DEF Held
<1>3. /\ r[1] = "data" => r[2] = <<s, n + 1>>
      /\ \A i \in 1..Len(b) : b[i] = <<s, n + h + i>>
      /\ w = n + h + Len(b)
  BY DEF WholeIn
<1> HIDE DEF t, h
<1>4. ASSUME NEW i \in 1..Len(t) PROVE t[i] = <<s, n + h + i>>
  <2>1. CASE i = Len(t)
    <3>1. n + h + i = w + 1
      BY <1>1, <1>2, <1>3, <2>1
    <3> QED
      BY <1>1, <2>1, <3>1
  <2>2. CASE i \in 1..Len(b)
    BY <1>1, <1>3, <2>2
  <2> QED
    BY <1>1, <2>1, <2>2
<1>5. w + 1 = n + h + Len(t)
  BY <1>1, <1>2, <1>3
<1> QED
  BY <1>3, <1>4, <1>5 DEF WholeIn, t, h

LEMMA WholeIsRead ==
  ASSUME NEW s, NEW w \in Nat, NEW b \in Seq(Chunk), b # <<>>, NEW r, r[1] # "data", NEW n \in Nat,
         WholeIn(s, w, b, r, n)
  PROVE  WholeIn(s, w, Tail(b), <<"data", Head(b)>>, n)
<1> DEFINE t == Tail(b)
           q == <<"data", Head(b)>>
<1>1. Len(b) = Len(t) + 1 /\ Len(t) \in Nat /\ Head(b) = b[1] /\ \A i \in 1..Len(t) : t[i] = b[i + 1]
  OBVIOUS
<1>2. Held(r) = 0 /\ Held(q) = 1 /\ q[1] = "data" /\ q[2] = Head(b)
  BY DEF Held
<1>3. (\A i \in 1..Len(b) : b[i] = <<s, n + 0 + i>>) /\ w = n + 0 + Len(b)
  BY <1>2 DEF WholeIn
<1> HIDE DEF t, q
<1>4. Head(b) = <<s, n + 1>>
  <2>1. 1 \in 1..Len(b) /\ n + 0 + 1 = n + 1
    BY <1>1
  <2> QED
    BY <1>1, <1>3, <2>1
<1>5. ASSUME NEW i \in 1..Len(t) PROVE t[i] = <<s, n + 1 + i>>
  <2>1. i + 1 \in 1..Len(b) /\ n + 0 + (i + 1) = n + 1 + i
    BY <1>1
  <2> QED
    BY <1>1, <1>3, <2>1
<1>6. w = n + 1 + Len(t)
  BY <1>1, <1>3
<1> QED
  BY <1>2, <1>4, <1>5, <1>6 DEF WholeIn, t, q

\* What has been read goes out.
LEMMA WholeIsSent ==
  ASSUME NEW s, NEW w \in Nat, NEW b \in Seq(Chunk), NEW r \in ReadState, r[1] = "data",
         NEW ow \in Seq(Chunk \cup Exit), NEW o \in Seq(Chunk),
         WholeOut(s, ow, o), WholeIn(s, w, b, r, Len(o) + Len(ow))
  PROVE  /\ WholeOut(s, Append(ow, r[2]), o)
         /\ WholeIn(s, w, b, NotReading, Len(o) + Len(Append(ow, r[2])))
<1> DEFINE x == r[2]
           t == Append(ow, x)
           n == Len(o) + Len(ow)
<1>1. x \in Chunk
  BY ReadsAre
<1>2. /\ Len(t) = Len(ow) + 1 /\ Len(ow) \in Nat /\ t[Len(t)] = x /\ \A i \in 1..Len(ow) : t[i] = ow[i]
  <2>1. x \in Chunk \cup Exit
    BY <1>1
  <2> HIDE DEF x
  <2> QED
    BY <2>1
<1>3. Len(o) \in Nat /\ Len(b) \in Nat /\ n \in Nat
  BY <1>2
<1>4. Held(r) = 1 /\ Held(NotReading) = 0 /\ NotReading[1] # "data"
  BY ReadsAre DEF Held
<1>5. x = <<s, n + 1>> /\ (\A i \in 1..Len(b) : b[i] = <<s, n + 1 + i>>) /\ w = n + 1 + Len(b)
  BY <1>4 DEF WholeIn
<1>6. /\ \A i \in 1..Len(o) : o[i] = <<s, i>>
      /\ \A i \in 1..Len(ow) : ow[i] \in Chunk => ow[i] = <<s, Len(o) + i>>
  BY DEF WholeOut
<1>7. Len(o) + Len(t) = n + 1
  BY <1>2, <1>3
<1> HIDE DEF x, t
<1>8. ASSUME NEW i \in 1..Len(t), t[i] \in Chunk PROVE t[i] = <<s, Len(o) + i>>
  <2>1. CASE i = Len(t)
    BY <1>2, <1>5, <1>7, <2>1
  <2>2. CASE i \in 1..Len(ow)
    BY <1>2, <1>6, <1>8, <2>2
  <2> QED
    BY <1>2, <2>1, <2>2
<1>9. WholeOut(s, t, o)
  BY <1>6, <1>8 DEF WholeOut
<1>10. WholeIn(s, w, b, NotReading, n + 1)
  <2>1. \A i \in 1..Len(b) : n + 1 + 0 + i = n + 1 + i
    BY <1>3
  <2>2. w = n + 1 + 0 + Len(b)
    BY <1>3, <1>5
  <2> HIDE DEF n
  <2> QED
    BY <1>4, <1>5, <2>1, <2>2 DEF WholeIn
<1> QED
  BY <1>7, <1>9, <1>10 DEF x, t

\* And arrives.
LEMMA WholeArrives ==
  ASSUME NEW s, NEW ow \in Seq(Chunk \cup Exit), ow # <<>>, NEW o \in Seq(Chunk), WholeOut(s, ow, o), Head(ow) \in Chunk
  PROVE  /\ WholeOut(s, Tail(ow), Append(o, Head(ow)))
         /\ Len(Append(o, Head(ow))) + Len(Tail(ow)) = Len(o) + Len(ow)
<1> DEFINE x == Head(ow)
           t == Tail(ow)
           p == Append(o, x)
<1>1. Len(ow) = Len(t) + 1 /\ Len(t) \in Nat /\ x = ow[1] /\ \A i \in 1..Len(t) : t[i] = ow[i + 1]
  OBVIOUS
<1>2. Len(p) = Len(o) + 1 /\ Len(o) \in Nat /\ p[Len(p)] = x /\ \A i \in 1..Len(o) : p[i] = o[i]
  <2> HIDE DEF x
  <2> QED
    BY DEF x
<1>3. /\ \A i \in 1..Len(o) : o[i] = <<s, i>>
      /\ \A i \in 1..Len(ow) : ow[i] \in Chunk => ow[i] = <<s, Len(o) + i>>
  BY DEF WholeOut
<1>4. x \in Chunk
  OBVIOUS
<1> HIDE DEF x, t, p
<1>5. x = <<s, Len(o) + 1>>
  <2>1. 1 \in 1..Len(ow)
    BY <1>1
  <2> QED
    BY <1>1, <1>3, <1>4, <2>1
<1>6. ASSUME NEW i \in 1..Len(p) PROVE p[i] = <<s, i>>
  BY <1>2, <1>3, <1>5
<1>7. ASSUME NEW i \in 1..Len(t), t[i] \in Chunk PROVE t[i] = <<s, Len(p) + i>>
  <2>1. i + 1 \in 1..Len(ow) /\ Len(o) + (i + 1) = Len(p) + i
    BY <1>1, <1>2
  <2> QED
    BY <1>1, <1>3, <1>7, <2>1
<1>8. Len(p) + Len(t) = Len(o) + Len(ow)
  BY <1>1, <1>2
<1> QED
  BY <1>6, <1>7, <1>8 DEF WholeOut, x, t, p

\* An exit comes last.
LEMMA WholeEnds ==
  ASSUME NEW s, NEW ow \in Seq(Chunk \cup Exit), NEW o, WholeOut(s, ow, o), NEW e \in Exit
  PROVE  WholeOut(s, Append(ow, e), o)
<1> DEFINE t == Append(ow, e)
<1>1. Len(t) = Len(ow) + 1 /\ Len(ow) \in Nat /\ t[Len(t)] = e /\ \A i \in 1..Len(ow) : t[i] = ow[i]
  OBVIOUS
<1> HIDE DEF t
<1>2. e \notin Chunk
  BY ChunksAre
<1>3. ASSUME NEW i \in 1..Len(t), t[i] \in Chunk PROVE t[i] = <<s, Len(o) + i>>
  <2>1. i \in 1..Len(ow)
    BY <1>1, <1>2, <1>3
  <2> QED
    BY <1>1, <1>3, <2>1 DEF WholeOut
<1> QED
  BY <1>3 DEF WholeOut, t

-----------------------------------------------------------------------------
(* All sessions.                                                            *)

FlowTypes ==
    /\ session \in [Stream -> {"new", "open", "gone"}] /\ pty \in [Stream -> File \cup {Unused}]
    /\ ptyOf \in [File -> Stream \cup {Unused}] /\ channel \in [Stream -> BOOLEAN]
    /\ process \in [Stream -> {"runs", "exited"}] /\ written \in [Stream -> 0..MaxWritten]
    /\ buffer \in [Stream -> Seq(Chunk)] /\ read \in [Stream -> ReadState]
    /\ outward \in [Stream -> Seq(Chunk \cup Exit)] /\ output \in [Stream -> Seq(Chunk)]
    /\ exited \in [Stream -> {"none", Ended, Lost}] /\ linkUp \in [Stream -> BOOLEAN]
    /\ typed \in [Stream -> 0..MaxTyped] /\ inward \in [Stream -> Seq(Typed)]
    /\ input \in [Stream -> Seq(Typed)]
    /\ handled \in {NoInput} \cup {<<k>> : k \in Typed} /\ stale \in BOOLEAN

\* An open session has its PTY, and only then a link; a read or a handler under way has
\* its session, unless that was closed meanwhile.
Places ==
    /\ \A s \in Stream :
          /\ session[s] # "new" => pty[s] \in File
          /\ session[s] = "open" => ptyOf[pty[s]] = s
          /\ linkUp[s] => session[s] = "open"
          /\ ~stale /\ read[s] = Asked => session[s] = "open"
          /\ session[s] = "new" =>
                written[s] = 0 /\ buffer[s] = <<>> /\ read[s] = NotReading /\ outward[s] = <<>> /\ output[s] = <<>>
    /\ handled # NoInput => /\ session[handled[1][1]] # "new"
                            /\ ~stale => session[handled[1][1]] = "open"

Closing(se, pr, ow, ex) ==
    /\ \A i \in 1..Len(ow) : ow[i] \in Exit =>
          i = Len(ow) /\ se = "gone" /\ (ow[i][2] = Ended => pr = "exited")
    /\ ex = Ended => se = "gone" /\ pr = "exited" /\ ow = <<>>

HandlerOf(s, h) == IF h # NoInput /\ h[1][1] = s THEN {h[1]} ELSE {}

Typing(s, n, iw, h, ip) ==
    /\ \A x \in ItemsOf(iw, Typed) \cup HandlerOf(s, h) \cup ItemsOf(ip, Typed) : x[1] = s /\ x[2] \in 1..n
    /\ RisingIn(iw, Typed) /\ RisingIn(ip, Typed)
    /\ Ahead(ItemsOf(ip, Typed), HandlerOf(s, h)) /\ Ahead(ItemsOf(ip, Typed), ItemsOf(iw, Typed))
    /\ Ahead(HandlerOf(s, h), ItemsOf(iw, Typed))

Closings == \A s \in Stream : Closing(session[s], process[s], outward[s], exited[s])
Flows == \A s \in Stream : Flowing(s, written[s], buffer[s], read[s], outward[s], output[s])
Wholes ==
    \A s \in Stream : channel[s] /\ ~stale =>
        /\ WholeOut(s, outward[s], output[s])
        /\ linkUp[s] => WholeIn(s, written[s], buffer[s], read[s], Len(output[s]) + Len(outward[s]))
Inputs ==
    /\ \A s \in Stream : \A x \in ItemsOf(inward[s], Typed) : x[1] = s
    /\ ~stale => \A s \in Stream : Typing(s, typed[s], inward[s], handled, input[s])

FlowInv == FlowTypes /\ Places /\ Closings /\ Flows /\ Wholes /\ Inputs

LEMMA FlowStarts == ASSUME FlowInit PROVE FlowInv
<1>1. /\ session = [s \in Stream |-> "new"] /\ pty = [s \in Stream |-> Unused] /\ ptyOf = [f \in File |-> Unused]
      /\ channel \in [Stream -> BOOLEAN] /\ process = [s \in Stream |-> "runs"] /\ written = [s \in Stream |-> 0]
      /\ buffer = [s \in Stream |-> <<>>] /\ read = [s \in Stream |-> NotReading]
      /\ outward = [s \in Stream |-> <<>>] /\ output = [s \in Stream |-> <<>>]
      /\ exited = [s \in Stream |-> "none"] /\ linkUp = [s \in Stream |-> FALSE] /\ typed = [s \in Stream |-> 0]
      /\ inward = [s \in Stream |-> <<>>] /\ handled = NoInput /\ input = [s \in Stream |-> <<>>] /\ stale = FALSE
  BY DEF FlowInit
<1>2. FlowTypes
  <2>1. NotReading \in ReadState
    BY DEF ReadState
  <2>2. stale \in BOOLEAN
    BY <1>1, Zenon
  <2>3. 0 \in 0..MaxWritten /\ 0 \in 0..MaxTyped
    BY StreamsAssumption
  <2>4. linkUp \in [Stream -> BOOLEAN]
    BY <1>1
  <2> QED
    BY <1>1, <2>1, <2>2, <2>3, <2>4 DEF FlowTypes
<1>3. Places
  BY <1>1, ReadsAre DEF Places
<1>4. Closings
  <2>1. Ended # "none" /\ 1..Len(<<>>) = {}
    BY DEF Ended
  <2> QED
    BY <1>1, <2>1 DEF Closings, Closing
<1>5. Flows
  <2>1. ASSUME NEW s PROVE Flowing(s, 0, <<>>, NotReading, <<>>, <<>>)
    BY NoItems, ReadsAre DEF Flowing, Ahead
  <2> QED
    BY <1>1, <2>1 DEF Flows
<1>6. Wholes
  <2>1. 1..Len(<<>>) = {}
    OBVIOUS
  <2> QED
    BY <1>1, <2>1 DEF Wholes, WholeOut
<1>7. Inputs
  <2>1. ASSUME NEW s PROVE Typing(s, 0, <<>>, NoInput, <<>>)
    BY NoItems DEF Typing, Ahead, HandlerOf
  <2> QED
    BY <1>1, <2>1, NoItems DEF Inputs
<1> QED
  BY <1>2, <1>3, <1>4, <1>5, <1>6, <1>7 DEF FlowInv

\* What opens, exits and closes but for a session's own end.
LEMMA OpensKeep == ASSUME FlowInv, NEW s \in Stream, OpenPty(s) PROVE FlowInv'
<1>1. FlowTypes /\ Places /\ Closings /\ Flows /\ Wholes /\ Inputs
  BY DEF FlowInv
<1>2. PICK f \in File : ptyOf[f] = Unused /\ pty' = [pty EXCEPT ![s] = f] /\ ptyOf' = [ptyOf EXCEPT ![f] = s]
  BY DEF OpenPty, Is
<1>3. /\ session[s] = "new" /\ session' = [session EXCEPT ![s] = "open"] /\ linkUp' = [linkUp EXCEPT ![s] = TRUE]
      /\ UNCHANGED <<channel, process, written, buffer, read, outward, output, exited, typed, inward, handled, input, stale>>
  BY DEF OpenPty, Is
<1>4. /\ session'[s] = "open" /\ pty'[s] = f /\ linkUp'[s] = TRUE /\ ptyOf'[f] = s
      /\ \A q \in Stream : q # s => session'[q] = session[q] /\ pty'[q] = pty[q] /\ linkUp'[q] = linkUp[q]
      /\ \A g \in File : g # f => ptyOf'[g] = ptyOf[g]
  BY <1>1, <1>2, <1>3 DEF FlowTypes
<1>5. FlowTypes'
  BY <1>1, <1>2, <1>3 DEF FlowTypes
<1>6. Places'
  <2>1. ASSUME NEW q \in Stream, q # s, session[q] = "open" PROVE pty[q] # f
    <3>1. ptyOf[pty[q]] = q
      BY <1>1, <2>1 DEF Places
    <3>2. q # Unused
      BY StreamsAssumption DEF Unused
    <3> QED
      BY <1>2, <3>1, <3>2
  <2>2. ASSUME NEW q \in Stream
        PROVE  /\ session'[q] # "new" => pty'[q] \in File
               /\ session'[q] = "open" => ptyOf'[pty'[q]] = q
               /\ linkUp'[q] => session'[q] = "open"
               /\ ~stale' /\ read'[q] = Asked => session'[q] = "open"
               /\ session'[q] = "new" =>
                     written'[q] = 0 /\ buffer'[q] = <<>> /\ read'[q] = NotReading /\ outward'[q] = <<>> /\ output'[q] = <<>>
    <3>1. CASE q = s
      BY <1>2, <1>4, <3>1
    <3>2. CASE q # s
      <4>1. session'[q] = session[q] /\ pty'[q] = pty[q] /\ linkUp'[q] = linkUp[q]
        BY <1>4, <3>2
      <4> QED
        BY <1>1, <1>3, <1>4, <2>1, <3>2, <4>1 DEF Places
    <3> QED
      BY <3>1, <3>2
  <2>3. ASSUME handled # NoInput
        PROVE  session'[handled[1][1]] # "new" /\ (~stale => session'[handled[1][1]] = "open")
    <3>1. handled[1][1] \in Stream
      <4>1. PICK k \in Typed : handled = <<k>>
        BY <1>1, <2>3 DEF FlowTypes
      <4> QED
        BY <4>1 DEF Typed
    <3>2. session[handled[1][1]] # "new" /\ (~stale => session[handled[1][1]] = "open")
      BY <1>1, <2>3 DEF Places
    <3> QED
      BY <1>3, <1>4, <3>1, <3>2
  <2> QED
    BY <1>3, <2>2, <2>3 DEF Places
<1>7. Closings'
  <2>1. outward[s] = <<>>
    BY <1>1, <1>3 DEF Places
  <2>2. exited[s] # Ended /\ 1..Len(<<>>) = {}
    BY <1>1, <1>3 DEF Closings, Closing
  <2>3. ASSUME NEW q \in Stream PROVE Closing(session'[q], process[q], outward[q], exited[q])
    BY <1>1, <1>4, <2>1, <2>2 DEF Closings, Closing
  <2> QED
    BY <1>3, <2>3 DEF Closings
<1>8. Flows' /\ Inputs'
  BY <1>1, <1>3 DEF Flows, Inputs
<1>9. Wholes'
  <2>1. written[s] = 0 /\ buffer[s] = <<>> /\ read[s] = NotReading /\ outward[s] = <<>> /\ output[s] = <<>>
    BY <1>1, <1>3 DEF Places
  <2>2. WholeIn(s, 0, <<>>, NotReading, 0 + 0)
    <3>1. Len(<<>>) = 0 /\ 1..0 = {} /\ NotReading[1] # "data"
      BY ReadsAre
    <3> QED
      BY <3>1 DEF WholeIn, Held
  <2>3. Len(output[s]) + Len(outward[s]) = 0 + 0
    BY <2>1
  <2>4. WholeIn(s, written[s], buffer[s], read[s], Len(output[s]) + Len(outward[s]))
    BY <2>1, <2>2, <2>3
  <2>5. ASSUME NEW q \in Stream, channel[q], ~stale
        PROVE  /\ WholeOut(q, outward[q], output[q])
               /\ linkUp'[q] => WholeIn(q, written[q], buffer[q], read[q], Len(output[q]) + Len(outward[q]))
    <3>1. CASE q = s
      BY <1>1, <2>4, <2>5, <3>1 DEF Wholes
    <3>2. CASE q # s
      BY <1>1, <1>4, <2>5, <3>2 DEF Wholes
    <3> QED
      BY <3>1, <3>2
  <2> QED
    BY <1>3, <2>5 DEF Wholes
<1> QED
  BY <1>5, <1>6, <1>7, <1>8, <1>9 DEF FlowInv


LEMMA WritesKeep == ASSUME FlowInv, NEW s \in Stream, ProcessWrites(s) PROVE FlowInv'
<1>1. FlowTypes /\ Places /\ Closings /\ Flows /\ Wholes /\ Inputs
  BY DEF FlowInv
<1>2. /\ session[s] = "open" /\ written[s] < MaxWritten
      /\ written' = [written EXCEPT ![s] = written[s] + 1]
      /\ buffer' = [buffer EXCEPT ![s] = Append(buffer[s], <<s, written'[s]>>)]
      /\ UNCHANGED <<session, pty, ptyOf, channel, process, read, outward, output, exited, linkUp, typed, inward, handled, input, stale>>
  BY DEF ProcessWrites, Put
<1>3. written[s] \in 0..MaxWritten /\ written[s] \in Nat /\ buffer[s] \in Seq(Chunk)
  BY <1>1 DEF FlowTypes
<1>4. written'[s] = written[s] + 1
  BY <1>1, <1>2 DEF FlowTypes
<1>5. /\ buffer'[s] = Append(buffer[s], <<s, written[s] + 1>>)
      /\ \A q \in Stream : q # s => written'[q] = written[q] /\ buffer'[q] = buffer[q]
  BY <1>1, <1>2, <1>4 DEF FlowTypes
<1>6. FlowTypes'
  <2>1. written[s] + 1 \in 0..MaxWritten /\ written[s] + 1 \in 1..MaxWritten
    BY <1>2, <1>3, StreamsAssumption
  <2>2. written' \in [Stream -> 0..MaxWritten]
    BY <1>1, <1>2, <2>1 DEF FlowTypes
  <2>3. <<s, written[s] + 1>> \in Chunk
    BY <2>1, ChunksAre
  <2>4. buffer' \in [Stream -> Seq(Chunk)]
    <3>1. Append(buffer[s], <<s, written'[s]>>) \in Seq(Chunk)
      BY <1>3, <1>4, <2>3
    <3> QED
      BY <1>1, <1>2, <3>1 DEF FlowTypes
  <2> QED
    BY <1>1, <1>2, <2>2, <2>4 DEF FlowTypes
<1>7. Places'
  <2>1. ASSUME NEW q \in Stream, session[q] = "new" PROVE written'[q] = written[q] /\ buffer'[q] = buffer[q]
    BY <1>2, <1>5, <2>1
  <2> QED
    BY <1>1, <1>2, <2>1 DEF Places
<1>8. Closings' /\ Inputs'
  BY <1>1, <1>2 DEF Closings, Inputs
<1>9. Flows'
  <2>1. Flowing(s, written[s] + 1, Append(buffer[s], <<s, written[s] + 1>>), read[s], outward[s], output[s])
    BY <1>1, <1>2, <1>3, FlowsIn DEF Flows
  <2>2. ASSUME NEW q \in Stream PROVE Flowing(q, written'[q], buffer'[q], read[q], outward[q], output[q])
    BY <1>1, <1>4, <1>5, <2>1 DEF Flows
  <2> QED
    BY <1>2, <2>2 DEF Flows
<1>10. Wholes'
  <2>1. ASSUME NEW q \in Stream, channel[q], ~stale
        PROVE  /\ WholeOut(q, outward[q], output[q])
               /\ linkUp[q] => WholeIn(q, written'[q], buffer'[q], read[q], Len(output[q]) + Len(outward[q]))
    <3>1. Len(output[q]) + Len(outward[q]) \in Nat
      BY <1>1 DEF FlowTypes
    <3>2. /\ WholeOut(q, outward[q], output[q])
          /\ linkUp[q] => WholeIn(q, written[q], buffer[q], read[q], Len(output[q]) + Len(outward[q]))
      BY <1>1, <2>1 DEF Wholes
    <3>3. CASE q = s
      BY <1>3, <1>4, <1>5, <3>1, <3>2, <3>3, WholeIsWritten
    <3>4. CASE q # s
      BY <1>5, <3>2, <3>4
    <3> QED
      BY <3>3, <3>4
  <2> QED
    BY <1>2, <2>1 DEF Wholes
<1> QED
  BY <1>6, <1>7, <1>8, <1>9, <1>10 DEF FlowInv

LEMMA ExitsKeep == ASSUME FlowInv, NEW s \in Stream, ProcessExits(s) PROVE FlowInv'
<1>1. FlowTypes /\ Places /\ Closings /\ Flows /\ Wholes /\ Inputs
  BY DEF FlowInv
<1>2. /\ process' = [process EXCEPT ![s] = "exited"]
      /\ UNCHANGED <<session, pty, ptyOf, channel, written, buffer, read, outward, output, exited, linkUp, typed, inward, handled, input, stale>>
  BY DEF ProcessExits, Is
<1>3. FlowTypes'
  BY <1>1, <1>2 DEF FlowTypes
<1>4. Places' /\ Flows' /\ Wholes' /\ Inputs'
  BY <1>1, <1>2 DEF Places, Flows, Wholes, Inputs
<1>5. Closings'
  <2>1. ASSUME NEW q \in Stream PROVE process'[q] = process[q] \/ process'[q] = "exited"
    BY <1>1, <1>2 DEF FlowTypes
  <2>2. ASSUME NEW q \in Stream PROVE Closing(session[q], process'[q], outward[q], exited[q])
    <3>1. Closing(session[q], process[q], outward[q], exited[q])
      BY <1>1 DEF Closings
    <3> QED
      BY <2>1, <3>1 DEF Closing
  <2> QED
    BY <1>2, <2>2 DEF Closings
<1> QED
  BY <1>3, <1>4, <1>5 DEF FlowInv

LEMMA AsksKeep == ASSUME FlowInv, NEW s \in Stream, ReadLoopAsks(s) PROVE FlowInv'
<1>1. FlowTypes /\ Places /\ Closings /\ Flows /\ Wholes /\ Inputs
  BY DEF FlowInv
<1>2. /\ session[s] = "open" /\ read[s] = NotReading /\ read' = [read EXCEPT ![s] = Asked]
      /\ UNCHANGED <<session, pty, ptyOf, channel, process, written, buffer, outward, output, exited, linkUp, typed, inward, handled, input, stale>>
  BY DEF ReadLoopAsks, Is
<1>3. read'[s] = Asked /\ \A q \in Stream : q # s => read'[q] = read[q]
  BY <1>1, <1>2 DEF FlowTypes
<1>4. FlowTypes'
  <2>1. Asked \in ReadState
    BY DEF ReadState
  <2> QED
    BY <1>1, <1>2, <2>1 DEF FlowTypes
<1>5. Places'
  <2>1. ASSUME NEW q \in Stream PROVE session[q] = "open" \/ read'[q] = read[q]
    BY <1>2, <1>3
  <2>2. session[s] # "new"
    BY <1>2
  <2>3. ASSUME NEW q \in Stream
        PROVE  /\ ~stale /\ read'[q] = Asked => session[q] = "open"
               /\ session[q] = "new" => read'[q] = NotReading
    BY <1>1, <1>2, <1>3, <2>2 DEF Places
  <2> QED
    BY <1>1, <1>2, <2>3 DEF Places
<1>6. Closings' /\ Inputs'
  BY <1>1, <1>2 DEF Closings, Inputs
<1>7. Flows'
  <2>1. ASSUME NEW q \in Stream PROVE InRead(read'[q]) = InRead(read[q])
    BY <1>2, <1>3, ReadsAre
  <2>2. ASSUME NEW q \in Stream PROVE Flowing(q, written[q], buffer[q], read'[q], outward[q], output[q])
    BY <1>1, <2>1 DEF Flows, Flowing
  <2> QED
    BY <1>2, <2>2 DEF Flows
<1>8. Wholes'
  <2>1. ASSUME NEW q \in Stream, NEW n, WholeIn(q, written[q], buffer[q], read[q], n)
        PROVE  WholeIn(q, written[q], buffer[q], read'[q], n)
    BY <1>2, <1>3, <2>1, ReadsAre DEF WholeIn, Held
  <2>2. ASSUME NEW q \in Stream, channel[q], ~stale
        PROVE  /\ WholeOut(q, outward[q], output[q])
               /\ linkUp[q] => WholeIn(q, written[q], buffer[q], read'[q], Len(output[q]) + Len(outward[q]))
    BY <1>1, <2>1, <2>2 DEF Wholes
  <2> QED
    BY <1>2, <2>2 DEF Wholes
<1> QED
  BY <1>4, <1>5, <1>6, <1>7, <1>8 DEF FlowInv

LEMMA ReadsKeep == ASSUME FlowInv, NEW s \in Stream, OsRead(s) PROVE FlowInv'
<1> DEFINE p == ptyOf[pty[s]]
<1>1. FlowTypes /\ Places /\ Closings /\ Flows /\ Wholes /\ Inputs
  BY DEF FlowInv
<1>2. /\ read[s] = Asked
      /\ UNCHANGED <<session, pty, ptyOf, channel, process, written, outward, output, exited, linkUp, typed, inward, handled, input, stale>>
  BY DEF OsRead
<1>3. session[s] # "new" /\ pty[s] \in File
  <2>1. session[s] # "new"
    BY <1>1, <1>2, ReadsAre DEF Places
  <2> QED
    BY <1>1, <2>1 DEF Places
<1>4. p \in Stream \cup {Unused} /\ (session[s] = "open" => p = s) /\ s # Unused
  BY <1>1, <1>3, StreamsAssumption DEF FlowTypes, Places, Unused
\* A chunk for the loop, or at most a loss.
<1>5. \/ /\ session[s] = "open" /\ buffer[s] # <<>> /\ buffer' = [buffer EXCEPT ![s] = Tail(buffer[s])]
         /\ read' = [read EXCEPT ![s] = <<"data", Head(buffer[s])>>]
      \/ /\ \E r \in {NotReading, Over} : read' = [read EXCEPT ![s] = r]
         /\ \/ buffer' = buffer
            \/ session[s] # "open" /\ p \in Stream /\ buffer[p] # <<>> /\ buffer' = [buffer EXCEPT ![p] = Tail(buffer[p])]
  BY <1>4 DEF OsRead, Is, Drop
<1> HIDE DEF p
<1>6. NotReading \in ReadState /\ Over \in ReadState /\ \A c \in Chunk : <<"data", c>> \in ReadState
  BY DEF ReadState
<1>7. Closings' /\ Inputs'
  BY <1>1, <1>2 DEF Closings, Inputs
<1>8. CASE session[s] = "open" /\ buffer[s] # <<>> /\ buffer' = [buffer EXCEPT ![s] = Tail(buffer[s])]
           /\ read' = [read EXCEPT ![s] = <<"data", Head(buffer[s])>>]
  <2>1. buffer[s] \in Seq(Chunk) /\ Head(buffer[s]) \in Chunk /\ Tail(buffer[s]) \in Seq(Chunk) /\ written[s] \in Nat
    BY <1>1, <1>8 DEF FlowTypes
  <2>2. FlowTypes'
    BY <1>1, <1>2, <1>6, <1>8, <2>1 DEF FlowTypes
  <2>3. /\ buffer'[s] = Tail(buffer[s]) /\ read'[s] = <<"data", Head(buffer[s])>>
        /\ \A q \in Stream : q # s => buffer'[q] = buffer[q] /\ read'[q] = read[q]
    BY <1>1, <1>8 DEF FlowTypes
  <2>4. Places'
    <3>1. read'[s] # Asked /\ session[s] # "new"
      BY <1>8, <2>3, ReadsAre
    <3>2. ASSUME NEW q \in Stream
          PROVE  /\ ~stale /\ read'[q] = Asked => session[q] = "open"
                 /\ session[q] = "new" => read'[q] = NotReading /\ buffer'[q] = <<>>
      BY <1>1, <2>3, <3>1 DEF Places
    <3> QED
      BY <1>1, <1>2, <3>2 DEF Places
  <2>5. Flows'
    <3>1. Flowing(s, written[s], Tail(buffer[s]), <<"data", Head(buffer[s])>>, outward[s], output[s])
      <4>1. InRead(read[s]) = {} /\ Flowing(s, written[s], buffer[s], read[s], outward[s], output[s])
        BY <1>1, <1>2, ReadsAre DEF Flows
      <4> QED
        BY <1>8, <2>1, <4>1, FlowsToRead
    <3>2. ASSUME NEW q \in Stream PROVE Flowing(q, written[q], buffer'[q], read'[q], outward[q], output[q])
      BY <1>1, <2>3, <3>1 DEF Flows
    <3> QED
      BY <1>2, <3>2 DEF Flows
  <2>6. Wholes'
    <3>1. ASSUME NEW q \in Stream, channel[q], ~stale
          PROVE  /\ WholeOut(q, outward[q], output[q])
                 /\ linkUp[q] => WholeIn(q, written[q], buffer'[q], read'[q], Len(output[q]) + Len(outward[q]))
      <4>1. Len(output[q]) + Len(outward[q]) \in Nat
        BY <1>1 DEF FlowTypes
      <4>2. /\ WholeOut(q, outward[q], output[q])
            /\ linkUp[q] => WholeIn(q, written[q], buffer[q], read[q], Len(output[q]) + Len(outward[q]))
        BY <1>1, <3>1 DEF Wholes
      <4>3. CASE q = s
        <5>1. read[s][1] # "data"
          BY <1>2, ReadsAre
        <5>2. ASSUME NEW n \in Nat, WholeIn(s, written[s], buffer[s], read[s], n)
              PROVE  WholeIn(s, written[s], Tail(buffer[s]), <<"data", Head(buffer[s])>>, n)
          BY <1>8, <2>1, <5>1, <5>2, WholeIsRead
        <5> QED
          BY <2>3, <4>1, <4>2, <4>3, <5>2
      <4>4. CASE q # s
        BY <2>3, <4>2, <4>4
      <4> QED
        BY <4>3, <4>4
    <3> QED
      BY <1>2, <3>1 DEF Wholes
  <2> QED
    BY <1>7, <2>2, <2>4, <2>5, <2>6 DEF FlowInv
<1>9. ASSUME NEW r \in {NotReading, Over}, read' = [read EXCEPT ![s] = r],
             \/ buffer' = buffer
             \/ session[s] # "open" /\ p \in Stream /\ buffer[p] # <<>> /\ buffer' = [buffer EXCEPT ![p] = Tail(buffer[p])]
      PROVE  FlowInv'
  <2>1. /\ read'[s] = r /\ \A q \in Stream : q # s => read'[q] = read[q]
    BY <1>1, <1>9 DEF FlowTypes
  <2>2. ASSUME NEW q \in Stream
        PROVE  \/ buffer'[q] = buffer[q]
               \/ session[s] # "open" /\ buffer[q] # <<>> /\ buffer'[q] = Tail(buffer[q])
    BY <1>1, <1>9 DEF FlowTypes
  <2>3. FlowTypes'
    <3>1. read' \in [Stream -> ReadState]
      BY <1>1, <1>6, <1>9 DEF FlowTypes
    <3>2. buffer' \in [Stream -> Seq(Chunk)]
      <4>1. CASE buffer' = buffer
        BY <1>1, <4>1 DEF FlowTypes
      <4>2. CASE p \in Stream /\ buffer[p] # <<>> /\ buffer' = [buffer EXCEPT ![p] = Tail(buffer[p])]
        <5>1. Tail(buffer[p]) \in Seq(Chunk)
          BY <1>1, <4>2 DEF FlowTypes
        <5> QED
          BY <1>1, <4>2, <5>1 DEF FlowTypes
      <4> QED
        BY <1>9, <4>1, <4>2
    <3> QED
      BY <1>1, <1>2, <3>1, <3>2 DEF FlowTypes
  <2>4. r # Asked /\ InRead(r) = {} /\ r[1] # "data"
    BY ReadsAre, <1>9
  <2>5. Places'
    <3>1. ASSUME NEW q \in Stream
          PROVE  /\ ~stale /\ read'[q] = Asked => session[q] = "open"
                 /\ session[q] = "new" => read'[q] = NotReading /\ buffer'[q] = <<>>
      BY <1>1, <1>3, <2>1, <2>2, <2>4 DEF Places
    <3> QED
      BY <1>1, <1>2, <3>1 DEF Places
  <2>6. Flows'
    <3>1. ASSUME NEW q \in Stream PROVE Flowing(q, written[q], buffer'[q], read'[q], outward[q], output[q])
      <4>1. Flowing(q, written[q], buffer[q], read[q], outward[q], output[q])
        BY <1>1 DEF Flows
      <4>2. InRead(read'[q]) \subseteq InRead(read[q])
        BY <2>1, <2>4
      <4>3. RisingIn(buffer[q], Chunk) /\ RisingIn(outward[q], Chunk)
        BY <4>1 DEF Flowing
      <4>4. ItemsOf(buffer'[q], Chunk) \subseteq ItemsOf(buffer[q], Chunk) /\ RisingIn(buffer'[q], Chunk)
        <5>1. buffer[q] \in Seq(Chunk)
          BY <1>1 DEF FlowTypes
        <5>2. CASE buffer'[q] = buffer[q]
          BY <4>3, <5>2
        <5>3. CASE buffer[q] # <<>> /\ buffer'[q] = Tail(buffer[q])
          <6>1. /\ Head(buffer[q]) \in Chunk => ItemsOf(buffer[q], Chunk) = ItemsOf(Tail(buffer[q]), Chunk) \cup {Head(buffer[q])}
                /\ Head(buffer[q]) \notin Chunk => ItemsOf(buffer[q], Chunk) = ItemsOf(Tail(buffer[q]), Chunk)
                /\ RisingIn(Tail(buffer[q]), Chunk)
            BY <4>3, <5>1, <5>3, ItemTaken
          <6> QED
            BY <5>3, <6>1, Zenon
        <5> QED
          BY <2>2, <5>2, <5>3
      <4> QED
        BY <4>1, <4>2, <4>3, <4>4, FlowsLess
    <3> QED
      BY <1>2, <3>1 DEF Flows
  <2>7. Wholes'
    <3>1. ASSUME NEW q \in Stream, channel[q], ~stale
          PROVE  /\ WholeOut(q, outward[q], output[q])
                 /\ linkUp[q] => WholeIn(q, written[q], buffer'[q], read'[q], Len(output[q]) + Len(outward[q]))
      <4>1. session[s] = "open"
        BY <1>1, <1>2, <3>1 DEF Places
      <4>2. buffer'[q] = buffer[q]
        BY <2>2, <4>1
      <4>3. read'[q] = read[q] \/ (read'[q][1] # "data" /\ read[q][1] # "data")
        BY <1>2, <2>1, <2>4, ReadsAre
      <4>4. /\ WholeOut(q, outward[q], output[q])
            /\ linkUp[q] => WholeIn(q, written[q], buffer[q], read[q], Len(output[q]) + Len(outward[q]))
        BY <1>1, <3>1 DEF Wholes
      <4> QED
        BY <4>2, <4>3, <4>4 DEF WholeIn, Held
    <3> QED
      BY <1>2, <3>1 DEF Wholes
  <2> QED
    BY <1>7, <2>3, <2>5, <2>6, <2>7 DEF FlowInv
<1> QED
  BY <1>5, <1>8, <1>9


\* What is sent before the end, the end itself, and what arrives.
LEMMA ClosingSent ==
  ASSUME NEW se, se # "gone", NEW pr, NEW ow \in Seq(Chunk \cup Exit), NEW ex, Closing(se, pr, ow, ex), NEW x \in Chunk
  PROVE  Closing(se, pr, Append(ow, x), ex)
<1> DEFINE t == Append(ow, x)
<1>1. Len(t) = Len(ow) + 1 /\ Len(ow) \in Nat /\ t[Len(t)] = x /\ \A i \in 1..Len(ow) : t[i] = ow[i]
  OBVIOUS
<1>2. x \notin Exit /\ ex # Ended /\ \A i \in 1..Len(ow) : ow[i] \notin Exit
  BY ChunksAre DEF Closing
<1> HIDE DEF t
<1>3. ASSUME NEW i \in 1..Len(t) PROVE t[i] \notin Exit
  <2>1. i \in 1..Len(ow) \/ i = Len(t)
    BY <1>1
  <2> QED
    BY <1>1, <1>2, <2>1
<1>4. Closing(se, pr, t, ex)
  BY <1>2, <1>3 DEF Closing
<1> QED
  BY <1>4 DEF t

LEMMA ClosingEnds ==
  ASSUME NEW pr, NEW ow \in Seq(Chunk \cup Exit), NEW ex, Closing("open", pr, ow, ex),
         NEW e \in Exit, e[2] = Ended => pr = "exited"
  PROVE  Closing("gone", pr, Append(ow, e), ex) /\ Closing("gone", pr, ow, ex)
<1> DEFINE t == Append(ow, e)
<1>1. Len(t) = Len(ow) + 1 /\ Len(ow) \in Nat /\ t[Len(t)] = e /\ \A i \in 1..Len(ow) : t[i] = ow[i]
  OBVIOUS
<1>2. ex # Ended /\ \A i \in 1..Len(ow) : ow[i] \notin Exit
  BY DEF Closing
<1> HIDE DEF t
<1>3. ASSUME NEW i \in 1..Len(t), t[i] \in Exit PROVE i = Len(t) /\ (t[i][2] = Ended => pr = "exited")
  <2>1. i \in 1..Len(ow) \/ i = Len(t)
    BY <1>1
  <2> QED
    BY <1>1, <1>2, <1>3, <2>1
<1>4. Closing("gone", pr, t, ex)
  BY <1>2, <1>3 DEF Closing
<1>5. Closing("gone", pr, ow, ex)
  BY <1>2 DEF Closing
<1> QED
  BY <1>4, <1>5 DEF t

LEMMA ClosingTaken ==
  ASSUME NEW se, NEW pr, NEW ow \in Seq(Chunk \cup Exit), ow # <<>>, NEW ex, Closing(se, pr, ow, ex)
  PROVE  /\ Closing(se, pr, Tail(ow), ex)
         /\ Head(ow) \in Exit => Closing(se, pr, Tail(ow), Head(ow)[2])
<1> DEFINE t == Tail(ow)
           h == Head(ow)
<1>1. Len(ow) = Len(t) + 1 /\ Len(t) \in Nat /\ h = ow[1] /\ \A i \in 1..Len(t) : t[i] = ow[i + 1]
  OBVIOUS
<1>2. /\ \A i \in 1..Len(ow) : ow[i] \in Exit => i = Len(ow) /\ se = "gone" /\ (ow[i][2] = Ended => pr = "exited")
      /\ ex # Ended
  BY DEF Closing
<1>0. t \in Seq(Chunk \cup Exit)
  OBVIOUS
<1> HIDE DEF t, h
<1>4. 1 \in 1..Len(ow) /\ (1 = Len(ow) => Len(t) = 0)
  BY <1>1
<1>3. h \in Exit => t = <<>>
  <2>1. h \in Exit => 1 = Len(ow)
    BY <1>1, <1>2, <1>4, Zenon
  <2> QED
    BY <1>0, <1>4, <2>1, EmptySeq
<1>5. ASSUME NEW i \in 1..Len(t), t[i] \in Exit PROVE i = Len(t) /\ se = "gone" /\ (t[i][2] = Ended => pr = "exited")
  <2>1. i + 1 \in 1..Len(ow) /\ (i + 1 = Len(ow) => i = Len(t))
    BY <1>1
  <2> QED
    BY <1>1, <1>2, <1>5, <2>1
<1>6. Closing(se, pr, t, ex)
  BY <1>2, <1>5 DEF Closing
<1>7. ASSUME h \in Exit PROVE Closing(se, pr, t, h[2])
  BY <1>1, <1>2, <1>3, <1>4, <1>5, <1>7 DEF Closing
<1> QED
  BY <1>6, <1>7 DEF t, h

LEMMA SendsKeep == ASSUME FlowInv, NEW s \in Stream, SendChunk(s) PROVE FlowInv'
<1>1. FlowTypes /\ Places /\ Closings /\ Flows /\ Wholes /\ Inputs
  BY DEF FlowInv
<1>2. /\ session[s] = "open" /\ read[s][1] = "data"
      /\ UNCHANGED <<session, pty, ptyOf, channel, process, written, buffer, output, exited, linkUp, typed, inward, handled, input, stale>>
  BY DEF SendChunk
<1>3. read[s] \in ReadState /\ outward[s] \in Seq(Chunk \cup Exit) /\ written[s] \in Nat
      /\ output[s] \in Seq(Chunk) /\ buffer[s] \in Seq(Chunk)
  BY <1>1 DEF FlowTypes
<1>4. read[s][2] \in Chunk
  BY <1>2, <1>3, ReadsAre
<1>5. NotReading \in ReadState /\ Over \in ReadState /\ NotReading # Asked /\ Over # Asked
  BY ReadsAre DEF ReadState
<1>6. Inputs'
  BY <1>1, <1>2 DEF Inputs
<1>7. CASE linkUp[s]
  <2>1. outward' = [outward EXCEPT ![s] = Append(outward[s], read[s][2])] /\ read' = [read EXCEPT ![s] = NotReading]
    BY <1>7 DEF SendChunk, Put, Is
  <2>2. /\ outward'[s] = Append(outward[s], read[s][2]) /\ read'[s] = NotReading
        /\ \A q \in Stream : q # s => outward'[q] = outward[q] /\ read'[q] = read[q]
    BY <1>1, <2>1 DEF FlowTypes
  <2>3. FlowTypes'
    <3>1. Append(outward[s], read[s][2]) \in Seq(Chunk \cup Exit)
      BY <1>3, <1>4
    <3> QED
      BY <1>1, <1>2, <1>5, <2>1, <3>1 DEF FlowTypes
  <2>4. Places'
    <3>1. ASSUME NEW q \in Stream
          PROVE  /\ ~stale /\ read'[q] = Asked => session[q] = "open"
                 /\ session[q] = "new" => read'[q] = NotReading /\ outward'[q] = <<>>
      BY <1>1, <1>2, <1>5, <2>2 DEF Places
    <3> QED
      BY <1>1, <1>2, <3>1 DEF Places
  <2>5. Closings'
    <3>1. Closing(session[s], process[s], outward'[s], exited[s])
      BY <1>1, <1>2, <1>3, <1>4, <2>2, ClosingSent DEF Closings
    <3>2. ASSUME NEW q \in Stream PROVE Closing(session[q], process[q], outward'[q], exited[q])
      BY <1>1, <2>2, <3>1 DEF Closings
    <3> QED
      BY <1>2, <3>2 DEF Closings
  <2>6. Flows'
    <3>1. Flowing(s, written[s], buffer[s], NotReading, Append(outward[s], read[s][2]), output[s])
      BY <1>1, <1>2, <1>3, FlowsToLink DEF Flows
    <3>2. ASSUME NEW q \in Stream PROVE Flowing(q, written[q], buffer[q], read'[q], outward'[q], output[q])
      BY <1>1, <2>2, <3>1 DEF Flows
    <3> QED
      BY <1>2, <3>2 DEF Flows
  <2>7. Wholes'
    <3>1. ASSUME NEW q \in Stream, channel[q], ~stale
          PROVE  /\ WholeOut(q, outward'[q], output[q])
                 /\ linkUp[q] => WholeIn(q, written[q], buffer[q], read'[q], Len(output[q]) + Len(outward'[q]))
      <4>1. /\ WholeOut(q, outward[q], output[q])
            /\ linkUp[q] => WholeIn(q, written[q], buffer[q], read[q], Len(output[q]) + Len(outward[q]))
        BY <1>1, <3>1 DEF Wholes
      <4>2. CASE q = s
        <5>1. WholeOut(s, outward[s], output[s])
              /\ WholeIn(s, written[s], buffer[s], read[s], Len(output[s]) + Len(outward[s]))
          BY <1>7, <4>1, <4>2
        <5>2. /\ WholeOut(s, Append(outward[s], read[s][2]), output[s])
              /\ WholeIn(s, written[s], buffer[s], NotReading, Len(output[s]) + Len(Append(outward[s], read[s][2])))
          BY <1>2, <1>3, <5>1, WholeIsSent
        <5> QED
          BY <2>2, <4>2, <5>2
      <4>3. CASE q # s
        BY <2>2, <4>1, <4>3
      <4> QED
        BY <4>2, <4>3
    <3> QED
      BY <1>2, <3>1 DEF Wholes
  <2> QED
    BY <1>6, <2>3, <2>4, <2>5, <2>6, <2>7 DEF FlowInv
<1>8. CASE ~linkUp[s]
  <2>1. outward' = outward /\ read' = [read EXCEPT ![s] = Over]
    BY <1>8 DEF SendChunk, Is
  <2>2. read'[s] = Over /\ \A q \in Stream : q # s => read'[q] = read[q]
    BY <1>1, <2>1 DEF FlowTypes
  <2>3. FlowTypes'
    BY <1>1, <1>2, <1>5, <2>1 DEF FlowTypes
  <2>4. Places'
    <3>1. ASSUME NEW q \in Stream
          PROVE  /\ ~stale /\ read'[q] = Asked => session[q] = "open"
                 /\ session[q] = "new" => read'[q] = NotReading
      BY <1>1, <1>2, <1>5, <2>2 DEF Places
    <3> QED
      BY <1>1, <1>2, <2>1, <3>1 DEF Places
  <2>5. Closings'
    BY <1>1, <1>2, <2>1 DEF Closings
  <2>6. Flows'
    <3>1. ASSUME NEW q \in Stream PROVE Flowing(q, written[q], buffer[q], read'[q], outward[q], output[q])
      <4>1. Flowing(q, written[q], buffer[q], read[q], outward[q], output[q])
        BY <1>1 DEF Flows
      <4>2. InRead(read'[q]) \subseteq InRead(read[q])
        BY <2>2, ReadsAre
      <4>3. RisingIn(buffer[q], Chunk) /\ RisingIn(outward[q], Chunk)
        BY <4>1 DEF Flowing
      <4> QED
        BY <4>1, <4>2, <4>3, FlowsLess
    <3> QED
      BY <1>2, <2>1, <3>1 DEF Flows
  <2>7. Wholes'
    <3>1. ASSUME NEW q \in Stream, linkUp[q] PROVE read'[q] = read[q]
      BY <1>8, <2>2, <3>1
    <3> QED
      BY <1>1, <1>2, <2>1, <3>1 DEF Wholes
  <2> QED
    BY <1>6, <2>3, <2>4, <2>5, <2>6, <2>7 DEF FlowInv
<1> QED
  BY <1>7, <1>8


LEMMA SessionEndKeeps == ASSUME FlowInv, NEW s \in Stream, CloseSession(s) PROVE FlowInv'
<1>1. FlowTypes /\ Places /\ Closings /\ Flows /\ Wholes /\ Inputs
  BY DEF FlowInv
<1>2. /\ session[s] = "open" /\ session' = [session EXCEPT ![s] = "gone"] /\ linkUp' = [linkUp EXCEPT ![s] = FALSE]
      /\ ptyOf' = [ptyOf EXCEPT ![pty[s]] = Unused]
      /\ stale' = (stale \/ read[s] = Asked \/ (handled # NoInput /\ handled[1][1] = s))
      /\ UNCHANGED <<pty, channel, process, written, buffer, output, exited, typed, inward, handled, input>>
  BY DEF CloseSession, Is
<1>3. PICK e \in Exit : /\ e[2] = Ended => process[s] = "exited"
                        /\ outward' = outward \/ outward' = [outward EXCEPT ![s] = Append(outward[s], e)]
  <2> DEFINE e == <<"exit", IF process[s] = "exited" THEN Ended ELSE Lost>>
  <2>1. e \in Exit /\ (e[2] = Ended => process[s] = "exited")
    BY DEF Exit, Ended, Lost
  <2>2. outward' = outward \/ outward' = [outward EXCEPT ![s] = Append(outward[s], e)]
    BY DEF CloseSession, Put
  <2> HIDE DEF e
  <2> QED
    BY <2>1, <2>2
<1>4. \/ read' = read /\ read[s] = Asked
      \/ read' = [read EXCEPT ![s] = Over]
  BY DEF CloseSession, Is
<1>5. outward[s] \in Seq(Chunk \cup Exit) /\ Append(outward[s], e) \in Seq(Chunk \cup Exit)
  BY <1>1 DEF FlowTypes
<1>6. /\ session'[s] = "gone" /\ linkUp'[s] = FALSE /\ read'[s] \in {Asked, Over}
      /\ outward'[s] = outward[s] \/ outward'[s] = Append(outward[s], e)
      /\ \A q \in Stream : q # s =>
            session'[q] = session[q] /\ linkUp'[q] = linkUp[q] /\ outward'[q] = outward[q] /\ read'[q] = read[q]
  BY <1>1, <1>2, <1>3, <1>4 DEF FlowTypes
<1>7. ~stale' => ~stale
  BY <1>2
<1>8. pty[s] \in File
  BY <1>1, <1>2 DEF Places
<1>9. FlowTypes'
  <2>1. outward' \in [Stream -> Seq(Chunk \cup Exit)]
    BY <1>1, <1>3, <1>5 DEF FlowTypes
  <2>2. read' \in [Stream -> ReadState]
    <3>1. Over \in ReadState
      BY DEF ReadState
    <3> QED
      BY <1>1, <1>4, <3>1 DEF FlowTypes
  <2>3. stale' \in BOOLEAN
    BY <1>2, Zenon
  <2>4. session' \in [Stream -> {"new", "open", "gone"}] /\ linkUp' \in [Stream -> BOOLEAN]
        /\ ptyOf' \in [File -> Stream \cup {Unused}]
    BY <1>1, <1>2, <1>8 DEF FlowTypes
  <2> QED
    BY <1>1, <1>2, <2>1, <2>2, <2>3, <2>4 DEF FlowTypes
<1>10. Places'
  <2>1. ASSUME NEW q \in Stream, session'[q] = "open" PROVE ptyOf'[pty'[q]] = q
    <3>1. q # s /\ session[q] = "open"
      BY <1>6, <2>1
    <3>2. ptyOf[pty[q]] = q /\ ptyOf[pty[s]] = s
      BY <1>1, <1>2, <3>1 DEF Places
    <3> QED
      BY <1>1, <1>2, <3>1, <3>2 DEF FlowTypes, Places
  <2>2. ASSUME NEW q \in Stream, ~stale', read'[q] = Asked PROVE session'[q] = "open"
    <3>1. q # s
      <4>1. ASSUME q = s PROVE FALSE
        <5>1. read[s] # Asked
          BY <1>2, <2>2
        <5>2. read'[s] = Over
          BY <1>1, <1>4, <5>1 DEF FlowTypes
        <5> QED
          BY <2>2, <4>1, <5>2, ReadsAre
      <4> QED
        BY <4>1
    <3> QED
      BY <1>1, <1>6, <1>7, <2>2, <3>1 DEF Places
  <2>3. ASSUME NEW q \in Stream
        PROVE  /\ session'[q] # "new" => pty'[q] \in File
               /\ linkUp'[q] => session'[q] = "open"
               /\ session'[q] = "new" =>
                     written'[q] = 0 /\ buffer'[q] = <<>> /\ read'[q] = NotReading /\ outward'[q] = <<>> /\ output'[q] = <<>>
    BY <1>1, <1>2, <1>6, <1>8 DEF Places
  <2>4. ASSUME handled # NoInput
        PROVE  session'[handled[1][1]] # "new" /\ (~stale' => session'[handled[1][1]] = "open")
    <3>1. handled[1][1] \in Stream
      <4>1. PICK k \in Typed : handled = <<k>>
        BY <1>1, <2>4 DEF FlowTypes
      <4> QED
        BY <4>1 DEF Typed
    <3>2. session[handled[1][1]] # "new" /\ (~stale => session[handled[1][1]] = "open")
      BY <1>1, <2>4 DEF Places
    <3>3. ~stale' => handled[1][1] # s
      BY <1>2, <2>4
    <3> QED
      BY <1>6, <1>7, <3>1, <3>2, <3>3
  <2> QED
    BY <1>2, <2>1, <2>2, <2>3, <2>4 DEF Places
<1>11. Closings'
  <2>1. Closing("gone", process[s], outward'[s], exited[s])
    <3>1. Closing("open", process[s], outward[s], exited[s])
      BY <1>1, <1>2 DEF Closings
    <3>2. Closing("gone", process[s], Append(outward[s], e), exited[s]) /\ Closing("gone", process[s], outward[s], exited[s])
      BY <1>3, <1>5, <3>1, ClosingEnds
    <3> QED
      BY <1>6, <3>2
  <2>2. ASSUME NEW q \in Stream PROVE Closing(session'[q], process[q], outward'[q], exited[q])
    BY <1>1, <1>6, <2>1 DEF Closings
  <2> QED
    BY <1>2, <2>2 DEF Closings
<1>12. Flows'
  <2>1. ASSUME NEW q \in Stream PROVE Flowing(q, written[q], buffer[q], read'[q], outward'[q], output[q])
    <3>1. Flowing(q, written[q], buffer[q], read[q], outward[q], output[q])
      BY <1>1 DEF Flows
    <3>2. RisingIn(buffer[q], Chunk) /\ RisingIn(outward[q], Chunk)
      BY <3>1 DEF Flowing
    <3>3. InRead(read'[q]) \subseteq InRead(read[q])
      BY <1>6, ReadsAre
    <3>4. ItemsOf(outward'[q], Chunk) = ItemsOf(outward[q], Chunk) /\ RisingIn(outward'[q], Chunk)
      <4>1. e \notin Chunk /\ e \in Chunk \cup Exit
        BY ChunksAre
      <4>2. ItemsOf(Append(outward[s], e), Chunk) = ItemsOf(outward[s], Chunk)
            /\ (RisingIn(outward[s], Chunk) => RisingIn(Append(outward[s], e), Chunk))
        BY <1>5, <4>1, ItemAppended
      <4> QED
        BY <1>6, <3>2, <4>2
    <3> QED
      BY <3>1, <3>2, <3>3, <3>4, FlowsLess
  <2> QED
    BY <1>2, <2>1 DEF Flows
<1>13. Wholes'
  <2>1. ASSUME NEW q \in Stream, channel[q], ~stale'
        PROVE  /\ WholeOut(q, outward'[q], output[q])
               /\ linkUp'[q] => WholeIn(q, written[q], buffer[q], read'[q], Len(output[q]) + Len(outward'[q]))
    <3>1. /\ WholeOut(q, outward[q], output[q])
          /\ linkUp[q] => WholeIn(q, written[q], buffer[q], read[q], Len(output[q]) + Len(outward[q]))
      BY <1>1, <1>7, <2>1 DEF Wholes
    <3>2. CASE q = s
      <4>1. WholeOut(s, Append(outward[s], e), output[s])
        BY <1>5, <3>1, <3>2, WholeEnds
      <4> QED
        BY <1>6, <3>1, <3>2, <4>1
    <3>3. CASE q # s
      BY <1>6, <3>1, <3>3
    <3> QED
      BY <3>2, <3>3
  <2> QED
    BY <1>2, <2>1 DEF Wholes
<1>14. Inputs'
  BY <1>1, <1>2, <1>7 DEF Inputs
<1> QED
  BY <1>9, <1>10, <1>11, <1>12, <1>13, <1>14 DEF FlowInv

LEMMA LossesKeep == ASSUME FlowInv, NEW s \in Stream, PacketLost(s) PROVE FlowInv'
<1>1. FlowTypes /\ Places /\ Closings /\ Flows /\ Wholes /\ Inputs
  BY DEF FlowInv
<1>2. /\ outward[s] # <<>> /\ (~channel[s] \/ ~linkUp[s])
      /\ UNCHANGED <<session, pty, ptyOf, channel, process, written, buffer, read, output, exited, linkUp, typed, inward, handled, input, stale>>
  BY DEF PacketLost
<1>3. outward[s] \in Seq(Chunk \cup Exit)
  BY <1>1 DEF FlowTypes
<1>4. PICK t \in Seq(Chunk \cup Exit) : /\ outward' = [outward EXCEPT ![s] = t]
                                        /\ channel[s] => t = <<>>
                                        /\ t = <<>> \/ t = Tail(outward[s])
  <2>1. <<>> \in Seq(Chunk \cup Exit) /\ Tail(outward[s]) \in Seq(Chunk \cup Exit)
    BY <1>2, <1>3
  <2>2. CASE channel[s]
    <3>1. outward' = [outward EXCEPT ![s] = <<>>]
      BY <2>2 DEF PacketLost, Is
    <3> QED
      BY <2>1, <3>1
  <2>3. CASE ~channel[s]
    <3>1. outward' = [outward EXCEPT ![s] = Tail(outward[s])]
      BY <2>3 DEF PacketLost, Drop
    <3> QED
      BY <2>1, <2>3, <3>1
  <2> QED
    BY <2>2, <2>3
<1>5. outward'[s] = t /\ \A q \in Stream : q # s => outward'[q] = outward[q]
  BY <1>1, <1>4 DEF FlowTypes
<1>6. FlowTypes'
  BY <1>1, <1>2, <1>4 DEF FlowTypes
<1>7. Places'
  <2>1. ASSUME NEW q \in Stream, session[q] = "new" PROVE outward'[q] = <<>>
    <3>1. outward[q] = <<>>
      BY <1>1, <2>1 DEF Places
    <3> QED
      BY <1>2, <1>5, <3>1
  <2> QED
    BY <1>1, <1>2, <2>1 DEF Places
<1>8. Closings'
  <2>1. Closing(session[s], process[s], t, exited[s])
    <3>1. Closing(session[s], process[s], outward[s], exited[s])
      BY <1>1 DEF Closings
    <3>2. CASE t = <<>>
      <4>1. 1..Len(<<>>) = {}
        OBVIOUS
      <4> QED
        BY <3>1, <3>2, <4>1 DEF Closing
    <3>3. CASE t = Tail(outward[s])
      BY <1>2, <1>3, <3>1, <3>3, ClosingTaken
    <3> QED
      BY <1>4, <3>2, <3>3
  <2>2. ASSUME NEW q \in Stream PROVE Closing(session[q], process[q], outward'[q], exited[q])
    BY <1>1, <1>5, <2>1 DEF Closings
  <2> QED
    BY <1>2, <2>2 DEF Closings
<1>9. Flows'
  <2>1. Flowing(s, written[s], buffer[s], read[s], t, output[s])
    <3>1. Flowing(s, written[s], buffer[s], read[s], outward[s], output[s])
      BY <1>1 DEF Flows
    <3>2. CASE t = <<>>
      <4>1. RisingIn(buffer[s], Chunk)
        BY <3>1 DEF Flowing
      <4> QED
        BY <3>1, <3>2, <4>1, NoItems, FlowsLess
    <3>3. CASE t = Tail(outward[s])
      <4>1. written[s] \in Nat /\ output[s] \in Seq(Chunk)
        BY <1>1 DEF FlowTypes
      <4> QED
        BY <1>2, <1>3, <3>1, <3>3, <4>1, FlowsOut
    <3> QED
      BY <1>4, <3>2, <3>3
  <2>2. ASSUME NEW q \in Stream PROVE Flowing(q, written[q], buffer[q], read[q], outward'[q], output[q])
    BY <1>1, <1>5, <2>1 DEF Flows
  <2> QED
    BY <1>2, <2>2 DEF Flows
<1>10. Wholes'
  <2>1. ASSUME NEW q \in Stream, channel[q], ~stale
        PROVE  /\ WholeOut(q, outward'[q], output[q])
               /\ linkUp[q] => WholeIn(q, written[q], buffer[q], read[q], Len(output[q]) + Len(outward'[q]))
    <3>1. /\ WholeOut(q, outward[q], output[q])
          /\ linkUp[q] => WholeIn(q, written[q], buffer[q], read[q], Len(output[q]) + Len(outward[q]))
      BY <1>1, <2>1 DEF Wholes
    <3>2. CASE q = s
      <4>1. t = <<>> /\ ~linkUp[s] /\ 1..Len(<<>>) = {}
        BY <1>2, <1>4, <2>1, <3>2
      <4> QED
        BY <1>5, <3>1, <3>2, <4>1 DEF WholeOut
    <3>3. CASE q # s
      BY <1>5, <3>1, <3>3
    <3> QED
      BY <3>2, <3>3
  <2> QED
    BY <1>2, <2>1 DEF Wholes
<1>11. Inputs'
  BY <1>1, <1>2 DEF Inputs
<1> QED
  BY <1>6, <1>7, <1>8, <1>9, <1>10, <1>11 DEF FlowInv


LEMMA ArrivalsKeep == ASSUME FlowInv, NEW s \in Stream, ClientReceives(s) PROVE FlowInv'
<1>1. FlowTypes /\ Places /\ Closings /\ Flows /\ Wholes /\ Inputs
  BY DEF FlowInv
<1>2. /\ outward[s] # <<>> /\ outward' = [outward EXCEPT ![s] = Tail(outward[s])]
      /\ \/ /\ Head(outward[s]) \in Exit /\ exited' = [exited EXCEPT ![s] = Head(outward[s])[2]] /\ output' = output
         \/ /\ Head(outward[s]) \notin Exit /\ output' = [output EXCEPT ![s] = Append(output[s], Head(outward[s]))]
            /\ exited' = exited
      /\ UNCHANGED <<session, pty, ptyOf, channel, process, written, buffer, read, linkUp, typed, inward, handled, input, stale>>
  BY DEF ClientReceives, Drop, Put, Is
<1>3. outward[s] \in Seq(Chunk \cup Exit) /\ output[s] \in Seq(Chunk) /\ written[s] \in Nat
  BY <1>1 DEF FlowTypes
<1>4. Tail(outward[s]) \in Seq(Chunk \cup Exit) /\ Head(outward[s]) \in Chunk \cup Exit
  BY <1>2, <1>3
<1>5. outward'[s] = Tail(outward[s]) /\ \A q \in Stream : q # s => outward'[q] = outward[q]
  BY <1>1, <1>2 DEF FlowTypes
<1>6. session[s] # "new"
  BY <1>1, <1>2 DEF Places
<1>7. Inputs'
  BY <1>1, <1>2 DEF Inputs
<1>8. CASE Head(outward[s]) \in Exit /\ exited' = [exited EXCEPT ![s] = Head(outward[s])[2]] /\ output' = output
  <2>1. exited'[s] = Head(outward[s])[2] /\ \A q \in Stream : q # s => exited'[q] = exited[q]
    BY <1>1, <1>8 DEF FlowTypes
  <2>2. FlowTypes'
    <3>1. Head(outward[s])[2] \in {"none", Ended, Lost}
      BY <1>8 DEF Exit
    <3> QED
      BY <1>1, <1>2, <1>4, <1>8, <3>1 DEF FlowTypes
  <2>3. Places'
    <3>1. ASSUME NEW q \in Stream, session[q] = "new" PROVE outward'[q] = <<>>
      BY <1>1, <1>5, <1>6, <3>1 DEF Places
    <3> QED
      BY <1>1, <1>2, <1>8, <3>1 DEF Places
  <2>4. Closings'
    <3>1. Closing(session[s], process[s], outward[s], exited[s])
      BY <1>1 DEF Closings
    <3>2. Closing(session[s], process[s], Tail(outward[s]), Head(outward[s])[2])
      BY <1>2, <1>3, <1>8, <3>1, ClosingTaken
    <3>3. ASSUME NEW q \in Stream PROVE Closing(session[q], process[q], outward'[q], exited'[q])
      BY <1>1, <1>5, <2>1, <3>2 DEF Closings
    <3> QED
      BY <1>2, <3>3 DEF Closings
  <2>5. Flows'
    <3>1. Flowing(s, written[s], buffer[s], read[s], outward[s], output[s])
      BY <1>1 DEF Flows
    <3>2. Flowing(s, written[s], buffer[s], read[s], Tail(outward[s]), output[s])
      BY <1>2, <1>3, <3>1, FlowsOut
    <3>3. ASSUME NEW q \in Stream PROVE Flowing(q, written[q], buffer[q], read[q], outward'[q], output[q])
      BY <1>1, <1>5, <3>2 DEF Flows
    <3> QED
      BY <1>2, <1>8, <3>3 DEF Flows
  <2>6. Wholes'
    \* The code of an exit comes when the link is closed.
    <3>1. ~linkUp[s] /\ Tail(outward[s]) = <<>>
      <4>1. Closing(session[s], process[s], outward[s], exited[s])
        BY <1>1 DEF Closings
      <4>2. 1 \in 1..Len(outward[s]) /\ outward[s][1] = Head(outward[s])
        BY <1>2, <1>3
      <4>3. 1 = Len(outward[s]) /\ session[s] = "gone"
        BY <1>8, <4>1, <4>2 DEF Closing
      <4>4. Len(Tail(outward[s])) = 0
        BY <1>2, <1>3, <4>3
      <4> QED
        BY <1>1, <1>4, <4>3, <4>4, EmptySeq DEF Places
    <3>2. ASSUME NEW q \in Stream, channel[q], ~stale
          PROVE  /\ WholeOut(q, outward'[q], output[q])
                 /\ linkUp[q] => WholeIn(q, written[q], buffer[q], read[q], Len(output[q]) + Len(outward'[q]))
      <4>1. /\ WholeOut(q, outward[q], output[q])
            /\ linkUp[q] => WholeIn(q, written[q], buffer[q], read[q], Len(output[q]) + Len(outward[q]))
        BY <1>1, <3>2 DEF Wholes
      <4>2. CASE q = s
        <5>1. 1..Len(<<>>) = {}
          OBVIOUS
        <5> QED
          BY <1>5, <3>1, <4>1, <4>2, <5>1 DEF WholeOut
      <4>3. CASE q # s
        BY <1>5, <4>1, <4>3
      <4> QED
        BY <4>2, <4>3
    <3> QED
      BY <1>2, <1>8, <3>2 DEF Wholes
  <2> QED
    BY <1>7, <2>2, <2>3, <2>4, <2>5, <2>6 DEF FlowInv
<1>9. CASE /\ Head(outward[s]) \notin Exit /\ output' = [output EXCEPT ![s] = Append(output[s], Head(outward[s]))]
           /\ exited' = exited
  <2>1. output'[s] = Append(output[s], Head(outward[s])) /\ \A q \in Stream : q # s => output'[q] = output[q]
    BY <1>1, <1>9 DEF FlowTypes
  <2>2. Head(outward[s]) \in Chunk
    BY <1>4, <1>9
  <2>3. FlowTypes'
    <3>1. Append(output[s], Head(outward[s])) \in Seq(Chunk)
      BY <1>3, <2>2
    <3> QED
      BY <1>1, <1>2, <1>4, <1>9, <3>1 DEF FlowTypes
  <2>4. Places'
    <3>1. ASSUME NEW q \in Stream, session[q] = "new" PROVE outward'[q] = <<>> /\ output'[q] = <<>>
      BY <1>1, <1>5, <1>6, <2>1, <3>1 DEF Places
    <3> QED
      BY <1>1, <1>2, <3>1 DEF Places
  <2>5. Closings'
    <3>1. Closing(session[s], process[s], outward[s], exited[s])
      BY <1>1 DEF Closings
    <3>2. Closing(session[s], process[s], Tail(outward[s]), exited[s])
      BY <1>2, <1>3, <3>1, ClosingTaken
    <3>3. ASSUME NEW q \in Stream PROVE Closing(session[q], process[q], outward'[q], exited[q])
      BY <1>1, <1>5, <3>2 DEF Closings
    <3> QED
      BY <1>2, <1>9, <3>3 DEF Closings
  <2>6. Flows'
    <3>1. Flowing(s, written[s], buffer[s], read[s], outward[s], output[s])
      BY <1>1 DEF Flows
    <3>2. Flowing(s, written[s], buffer[s], read[s], Tail(outward[s]), Append(output[s], Head(outward[s])))
      BY <1>2, <1>3, <1>9, <3>1, FlowsOut
    <3>3. ASSUME NEW q \in Stream PROVE Flowing(q, written[q], buffer[q], read[q], outward'[q], output'[q])
      BY <1>1, <1>5, <2>1, <3>2 DEF Flows
    <3> QED
      BY <1>2, <3>3 DEF Flows
  <2>7. Wholes'
    <3>1. ASSUME NEW q \in Stream, channel[q], ~stale
          PROVE  /\ WholeOut(q, outward'[q], output'[q])
                 /\ linkUp[q] => WholeIn(q, written[q], buffer[q], read[q], Len(output'[q]) + Len(outward'[q]))
      <4>1. /\ WholeOut(q, outward[q], output[q])
            /\ linkUp[q] => WholeIn(q, written[q], buffer[q], read[q], Len(output[q]) + Len(outward[q]))
        BY <1>1, <3>1 DEF Wholes
      <4>2. CASE q = s
        <5>1. WholeOut(s, outward[s], output[s])
          BY <4>1, <4>2
        <5>2. /\ WholeOut(s, Tail(outward[s]), Append(output[s], Head(outward[s])))
              /\ Len(Append(output[s], Head(outward[s]))) + Len(Tail(outward[s])) = Len(output[s]) + Len(outward[s])
          BY <1>2, <1>3, <2>2, <5>1, WholeArrives
        <5>3. /\ WholeOut(s, outward'[s], output'[s])
              /\ Len(output'[s]) + Len(outward'[s]) = Len(output[s]) + Len(outward[s])
          BY <1>5, <2>1, <5>2
        <5>4. linkUp[s] => WholeIn(s, written[s], buffer[s], read[s], Len(output'[s]) + Len(outward'[s]))
          BY <4>1, <4>2, <5>3
        <5> QED
          BY <4>2, <5>3, <5>4
      <4>3. CASE q # s
        BY <1>5, <2>1, <4>1, <4>3
      <4> QED
        BY <4>2, <4>3
    <3> QED
      BY <1>2, <3>1 DEF Wholes
  <2> QED
    BY <1>7, <2>3, <2>4, <2>5, <2>6, <2>7 DEF FlowInv
<1> QED
  BY <1>2, <1>8, <1>9

LEMMA ClosedKeeps == ASSUME FlowInv, NEW s \in Stream, ClientLinkClosed(s) PROVE FlowInv'
<1>1. FlowTypes /\ Places /\ Closings /\ Flows /\ Wholes /\ Inputs
  BY DEF FlowInv
<1>2. /\ exited' = [exited EXCEPT ![s] = Lost]
      /\ UNCHANGED <<session, pty, ptyOf, channel, process, written, buffer, read, outward, output, linkUp, typed, inward, handled, input, stale>>
  BY DEF ClientLinkClosed, Is
<1>3. FlowTypes'
  BY <1>1, <1>2 DEF FlowTypes
<1>4. Places' /\ Flows' /\ Wholes' /\ Inputs'
  BY <1>1, <1>2 DEF Places, Flows, Wholes, Inputs
<1>5. Closings'
  <2>1. ASSUME NEW q \in Stream PROVE exited'[q] = exited[q] \/ exited'[q] # Ended
    BY <1>1, <1>2 DEF FlowTypes, Lost, Ended
  <2>2. ASSUME NEW q \in Stream PROVE Closing(session[q], process[q], outward[q], exited'[q])
    BY <1>1, <2>1 DEF Closings, Closing
  <2> QED
    BY <1>2, <2>2 DEF Closings
<1> QED
  BY <1>3, <1>4, <1>5 DEF FlowInv

LEMMA LinksKeep == ASSUME FlowInv, NEW s \in Stream, LinkCloses(s) PROVE FlowInv'
<1>1. FlowTypes /\ Places /\ Closings /\ Flows /\ Wholes /\ Inputs
  BY DEF FlowInv
<1>2. /\ linkUp' = [linkUp EXCEPT ![s] = FALSE]
      /\ UNCHANGED <<session, pty, ptyOf, channel, process, written, buffer, read, outward, output, exited, typed, inward, handled, input, stale>>
  BY DEF LinkCloses, Is
<1>3. FlowTypes'
  BY <1>1, <1>2 DEF FlowTypes
<1>4. Closings' /\ Flows' /\ Inputs'
  BY <1>1, <1>2 DEF Closings, Flows, Inputs
<1>5. \A q \in Stream : linkUp'[q] => linkUp[q]
  BY <1>1, <1>2 DEF FlowTypes
<1>6. Places'
  <2>1. \A q \in Stream : linkUp'[q] => session[q] = "open"
    BY <1>1, <1>5 DEF Places
  <2> QED
    BY <1>1, <1>2, <2>1 DEF Places
<1>7. Wholes'
  BY <1>1, <1>2, <1>5 DEF Wholes
<1> QED
  BY <1>3, <1>4, <1>6, <1>7 DEF FlowInv


\* What is typed, taken and written.
LEMMA HandlersAre ==
  /\ \A s : HandlerOf(s, NoInput) = {}
  /\ \A k \in Typed : k[1] \in Stream /\ k[2] \in 1..MaxTyped /\ <<k>> # NoInput /\ <<k>>[1] = k
  /\ \A s : \A k \in Typed : HandlerOf(s, <<k>>) = IF k[1] = s THEN {k} ELSE {}
<1>1. ASSUME NEW k \in Typed PROVE k[1] \in Stream /\ k[2] \in 1..MaxTyped /\ <<k>> # NoInput /\ <<k>>[1] = k
  BY DEF Typed, NoInput
<1>2. ASSUME NEW s, NEW k \in Typed PROVE HandlerOf(s, <<k>>) = IF k[1] = s THEN {k} ELSE {}
  BY <1>1 DEF HandlerOf
<1> QED
  BY <1>1, <1>2 DEF HandlerOf

LEMMA TypingMore ==
  ASSUME NEW s \in Stream, NEW n \in Nat, n < MaxTyped, NEW iw \in Seq(Typed), NEW h, NEW ip, Typing(s, n, iw, h, ip)
  PROVE  Typing(s, n + 1, iw, h, ip) /\ Typing(s, n + 1, Append(iw, <<s, n + 1>>), h, ip)
<1> DEFINE x == <<s, n + 1>>
           t == Append(iw, x)
<1>1. x \in Typed /\ x[1] = s /\ x[2] = n + 1
  <2>1. n + 1 \in 1..MaxTyped
    BY StreamsAssumption
  <2> QED
    BY <2>1 DEF Typed
<1> HIDE DEF x
<1>2. \A y \in ItemsOf(iw, Typed) \cup HandlerOf(s, h) \cup ItemsOf(ip, Typed) : y[1] = s /\ y[2] \in 1..n
  BY DEF Typing
<1>3. \A m : m \in 1..n => m \in 1..(n + 1) /\ m < n + 1
  OBVIOUS
<1>4. n + 1 \in 1..(n + 1)
  OBVIOUS
<1>5. RisingIn(iw, Typed)
  BY DEF Typing
<1>6. ItemsOf(t, Typed) = ItemsOf(iw, Typed) \cup {x} /\ RisingIn(t, Typed)
  BY <1>1, <1>2, <1>3, <1>5, ItemAppended
<1> HIDE DEF t
<1>7. Typing(s, n + 1, t, h, ip)
  BY <1>1, <1>2, <1>3, <1>4, <1>6 DEF Typing, Ahead
<1>8. Typing(s, n + 1, iw, h, ip)
  BY <1>2, <1>3 DEF Typing
<1> QED
  BY <1>7, <1>8 DEF t, x

LEMMA TypingTaken ==
  ASSUME NEW s, NEW n \in Nat, NEW iw \in Seq(Typed), iw # <<>>, NEW ip, Typing(s, n, iw, NoInput, ip)
  PROVE  Typing(s, n, Tail(iw), <<Head(iw)>>, ip)
<1> DEFINE x == Head(iw)
           t == Tail(iw)
<1>1. x \in Typed
  OBVIOUS
<1>2. RisingIn(iw, Typed)
  BY DEF Typing
<1>3. /\ ItemsOf(iw, Typed) = ItemsOf(t, Typed) \cup {x} /\ RisingIn(t, Typed)
      /\ \A y \in ItemsOf(t, Typed) : x[2] < y[2]
  BY <1>1, <1>2, ItemTaken
<1> HIDE DEF x, t
<1>4. x[1] = s
  BY <1>3 DEF Typing
<1>5. HandlerOf(s, <<x>>) = {x}
  BY <1>1, <1>4, HandlersAre
<1>6. Typing(s, n, t, <<x>>, ip)
  BY <1>3, <1>5 DEF Typing, Ahead
<1> QED
  BY <1>6 DEF x, t

LEMMA TypingWritten ==
  ASSUME NEW s, NEW n \in Nat, NEW iw, NEW k \in Typed, k[1] = s, NEW ip \in Seq(Typed), Typing(s, n, iw, <<k>>, ip)
  PROVE  Typing(s, n, iw, NoInput, ip) /\ Typing(s, n, iw, NoInput, Append(ip, k))
<1> DEFINE t == Append(ip, k)
<1>1. HandlerOf(s, <<k>>) = {k} /\ HandlerOf(s, NoInput) = {}
  BY HandlersAre
<1>2. RisingIn(ip, Typed) /\ \A y \in ItemsOf(ip, Typed) : y[2] < k[2]
  BY <1>1 DEF Typing, Ahead
<1>3. ItemsOf(t, Typed) = ItemsOf(ip, Typed) \cup {k} /\ RisingIn(t, Typed)
  BY <1>2, ItemAppended
<1> HIDE DEF t
<1>4. Typing(s, n, iw, NoInput, t)
  BY <1>1, <1>3 DEF Typing, Ahead
<1>5. Typing(s, n, iw, NoInput, ip)
  BY <1>1 DEF Typing, Ahead
<1> QED
  BY <1>4, <1>5 DEF t

LEMMA InputsKeep == ASSUME FlowInv, NEW s \in Stream, SendInput(s) PROVE FlowInv'
<1>1. FlowTypes /\ Places /\ Closings /\ Flows /\ Wholes /\ Inputs
  BY DEF FlowInv
<1>2. /\ typed[s] < MaxTyped /\ typed' = [typed EXCEPT ![s] = typed[s] + 1]
      /\ inward' = inward \/ inward' = [inward EXCEPT ![s] = Append(inward[s], <<s, typed'[s]>>)]
      /\ UNCHANGED <<session, pty, ptyOf, channel, process, written, buffer, read, outward, output, exited, linkUp, handled, input, stale>>
  BY DEF SendInput, Put
<1>3. typed[s] \in Nat /\ inward[s] \in Seq(Typed) /\ typed[s] + 1 \in 0..MaxTyped /\ typed[s] + 1 \in 1..MaxTyped
  <2>1. typed[s] \in 0..MaxTyped /\ inward[s] \in Seq(Typed)
    BY <1>1 DEF FlowTypes
  <2> QED
    BY <1>2, <2>1, StreamsAssumption
<1>4. typed'[s] = typed[s] + 1 /\ \A q \in Stream : q # s => typed'[q] = typed[q]
  BY <1>1, <1>2 DEF FlowTypes
<1>5. /\ inward'[s] = inward[s] \/ inward'[s] = Append(inward[s], <<s, typed[s] + 1>>)
      /\ \A q \in Stream : q # s => inward'[q] = inward[q]
  BY <1>1, <1>2, <1>4 DEF FlowTypes
<1>6. <<s, typed[s] + 1>> \in Typed /\ <<s, typed[s] + 1>>[1] = s
  BY <1>3 DEF Typed
<1>7. FlowTypes'
  <2>1. inward' \in [Stream -> Seq(Typed)]
    <3>1. Append(inward[s], <<s, typed'[s]>>) \in Seq(Typed)
      BY <1>3, <1>4, <1>6
    <3> QED
      BY <1>1, <1>2, <3>1 DEF FlowTypes
  <2>2. typed' \in [Stream -> 0..MaxTyped]
    BY <1>1, <1>2, <1>3 DEF FlowTypes
  <2> QED
    BY <1>1, <1>2, <2>1, <2>2 DEF FlowTypes
<1>8. Places' /\ Closings' /\ Flows' /\ Wholes'
  BY <1>1, <1>2 DEF Places, Closings, Flows, Wholes
<1>9. Inputs'
  <2>1. ASSUME NEW q \in Stream, NEW x \in ItemsOf(inward'[q], Typed) PROVE x[1] = q
    <3>1. \A y \in ItemsOf(inward[q], Typed) : y[1] = q
      BY <1>1 DEF Inputs
    <3>2. ItemsOf(Append(inward[s], <<s, typed[s] + 1>>), Typed) = ItemsOf(inward[s], Typed) \cup {<<s, typed[s] + 1>>}
      <4> DEFINE new == <<s, typed[s] + 1>>
      <4>1. inward[s] \in Seq(Typed) /\ new \in Typed
        BY <1>3, <1>6
      <4> HIDE DEF new
      <4>2. ItemsOf(Append(inward[s], new), Typed) = ItemsOf(inward[s], Typed) \cup {new}
        BY <4>1, ItemAppended
      <4> QED
        BY <4>2 DEF new
    <3>3. CASE q # s \/ inward'[s] = inward[s]
      BY <1>5, <2>1, <3>1, <3>3
    <3>4. CASE q = s /\ inward'[s] = Append(inward[s], <<s, typed[s] + 1>>)
      BY <1>6, <2>1, <3>1, <3>2, <3>4
    <3> QED
      BY <1>5, <3>3, <3>4
  <2>2. ASSUME ~stale, NEW q \in Stream PROVE Typing(q, typed'[q], inward'[q], handled, input[q])
    <3>1. Typing(q, typed[q], inward[q], handled, input[q])
      BY <1>1, <2>2 DEF Inputs
    <3>2. CASE q = s
      <4>1. Typing(s, typed[s], inward[s], handled, input[s])
        BY <3>1, <3>2
      <4>2. /\ Typing(s, typed[s] + 1, inward[s], handled, input[s])
            /\ Typing(s, typed[s] + 1, Append(inward[s], <<s, typed[s] + 1>>), handled, input[s])
        BY <1>2, <1>3, <4>1, TypingMore
      <4> QED
        BY <1>4, <1>5, <3>2, <4>2
    <3>3. CASE q # s
      BY <1>4, <1>5, <3>1, <3>3
    <3> QED
      BY <3>2, <3>3
  <2> QED
    BY <1>2, <2>1, <2>2 DEF Inputs
<1> QED
  BY <1>7, <1>8, <1>9 DEF FlowInv

LEMMA HandlerKeeps == ASSUME FlowInv, NEW s \in Stream, HandlerTakes(s) PROVE FlowInv'
<1> DEFINE k == Head(inward[s])
<1>1. FlowTypes /\ Places /\ Closings /\ Flows /\ Wholes /\ Inputs
  BY DEF FlowInv
<1>2. /\ inward[s] # <<>> /\ handled = NoInput /\ linkUp[s] /\ inward' = [inward EXCEPT ![s] = Tail(inward[s])]
      /\ handled' = <<k>>
      /\ UNCHANGED <<session, pty, ptyOf, channel, process, written, buffer, read, outward, output, exited, linkUp, typed, input, stale>>
  BY DEF HandlerTakes, Drop
<1>3. inward[s] \in Seq(Typed) /\ Tail(inward[s]) \in Seq(Typed) /\ k \in Typed /\ session[s] = "open" /\ typed[s] \in Nat
  <2>1. inward[s] \in Seq(Typed) /\ typed[s] \in Nat
    BY <1>1 DEF FlowTypes
  <2>2. session[s] = "open"
    BY <1>1, <1>2 DEF Places
  <2> QED
    BY <1>2, <2>1, <2>2
<1>4. inward'[s] = Tail(inward[s]) /\ \A q \in Stream : q # s => inward'[q] = inward[q]
  BY <1>1, <1>2 DEF FlowTypes
<1>5. ItemsOf(inward[s], Typed) = ItemsOf(Tail(inward[s]), Typed) \cup {k}
  <2>1. \A q \in Seq(Typed) : q # <<>> /\ Head(q) \in Typed => ItemsOf(q, Typed) = ItemsOf(Tail(q), Typed) \cup {Head(q)}
    BY ItemTaken
  <2> QED
    BY <1>2, <1>3, <2>1
<1>6. k[1] = s
  BY <1>1, <1>5 DEF Inputs
<1> HIDE DEF k
<1>7. FlowTypes'
  BY <1>1, <1>2, <1>3 DEF FlowTypes
<1>8. Places'
  <2>1. handled'[1][1] = s
    BY <1>2, <1>6
  <2> QED
    BY <1>1, <1>2, <1>3, <2>1 DEF Places
<1>9. Closings' /\ Flows' /\ Wholes'
  BY <1>1, <1>2 DEF Closings, Flows, Wholes
<1>10. Inputs'
  <2>1. \A q \in Stream : \A x \in ItemsOf(inward'[q], Typed) : x[1] = q
    BY <1>1, <1>4, <1>5 DEF Inputs
  <2>2. ASSUME ~stale, NEW q \in Stream PROVE Typing(q, typed[q], inward'[q], handled', input[q])
    <3>1. Typing(q, typed[q], inward[q], NoInput, input[q])
      BY <1>1, <1>2, <2>2 DEF Inputs
    <3>2. CASE q = s
      <4>1. Typing(s, typed[s], inward[s], NoInput, input[s])
        BY <3>1, <3>2
      <4>2. Typing(s, typed[s], Tail(inward[s]), <<k>>, input[s])
        BY <1>2, <1>3, <4>1, TypingTaken DEF k
      <4> QED
        BY <1>2, <1>4, <3>2, <4>2
    <3>3. CASE q # s
      <4>1. HandlerOf(q, <<k>>) = {} /\ HandlerOf(q, NoInput) = {}
        BY <1>3, <1>6, <3>3, HandlersAre
      <4> QED
        BY <1>2, <1>4, <3>1, <3>3, <4>1 DEF Typing
    <3> QED
      BY <3>2, <3>3
  <2> QED
    BY <1>2, <2>1, <2>2 DEF Inputs
<1> QED
  BY <1>7, <1>8, <1>9, <1>10 DEF FlowInv

LEMMA HandlersKeep == ASSUME FlowInv, HandlerWrites PROVE FlowInv'
<1>1. FlowTypes /\ Places /\ Closings /\ Flows /\ Wholes /\ Inputs
  BY DEF FlowInv
<1>2. /\ handled # NoInput /\ handled' = NoInput
      /\ UNCHANGED <<session, pty, ptyOf, channel, process, written, buffer, read, outward, output, exited, linkUp, typed, inward, stale>>
  BY DEF HandlerWrites
<1>3. PICK k \in Typed : handled = <<k>>
  BY <1>1, <1>2 DEF FlowTypes
<1>4. k[1] \in Stream /\ handled[1] = k
  BY <1>3, HandlersAre
<1> DEFINE p == ptyOf[pty[k[1]]]
<1>5. \/ input' = input
      \/ p # Unused /\ input' = [input EXCEPT ![p] = Append(input[p], k)]
  BY <1>4 DEF HandlerWrites, Put
<1>6. p \in Stream \cup {Unused} /\ (~stale => p = k[1])
  <2>1. session[k[1]] # "new" /\ (~stale => session[k[1]] = "open")
    BY <1>1, <1>2, <1>4 DEF Places
  <2>2. pty[k[1]] \in File
    BY <1>1, <1>4, <2>1 DEF Places
  <2> QED
    BY <1>1, <1>4, <2>1, <2>2 DEF FlowTypes, Places
<1> HIDE DEF p
<1>7. FlowTypes'
  <2>1. CASE input' = input
    BY <1>1, <1>2, <2>1 DEF FlowTypes
  <2>2. CASE p # Unused /\ input' = [input EXCEPT ![p] = Append(input[p], k)]
    <3>1. Append(input[p], k) \in Seq(Typed)
      BY <1>1, <1>6, <2>2 DEF FlowTypes
    <3> QED
      BY <1>1, <1>2, <1>6, <2>2, <3>1 DEF FlowTypes
  <2> QED
    BY <1>5, <2>1, <2>2
<1>8. Places' /\ Closings' /\ Flows' /\ Wholes'
  BY <1>1, <1>2 DEF Places, Closings, Flows, Wholes
<1>9. Inputs'
  <2>1. \A q \in Stream : \A x \in ItemsOf(inward[q], Typed) : x[1] = q
    BY <1>1 DEF Inputs
  <2>2. ASSUME ~stale, NEW q \in Stream PROVE Typing(q, typed[q], inward[q], NoInput, input'[q])
    <3>1. Typing(q, typed[q], inward[q], <<k>>, input[q])
      BY <1>1, <1>3, <2>2 DEF Inputs
    <3>2. typed[q] \in Nat /\ input[q] \in Seq(Typed)
      BY <1>1 DEF FlowTypes
    <3>3. p = k[1] /\ p \in Stream
      BY <1>4, <1>6, <2>2
    <3>4. CASE q = k[1]
      <4>1. Typing(q, typed[q], inward[q], NoInput, input[q]) /\ Typing(q, typed[q], inward[q], NoInput, Append(input[q], k))
        BY <3>1, <3>2, <3>4, TypingWritten
      <4>2. input'[q] = input[q] \/ input'[q] = Append(input[q], k)
        BY <1>1, <1>5, <3>3, <3>4 DEF FlowTypes
      <4> QED
        BY <4>1, <4>2
    <3>5. CASE q # k[1]
      <4>1. HandlerOf(q, <<k>>) = {} /\ HandlerOf(q, NoInput) = {}
        BY <3>5, HandlersAre
      <4>2. input'[q] = input[q]
        BY <1>1, <1>5, <3>3, <3>5 DEF FlowTypes
      <4> QED
        BY <3>1, <4>1, <4>2 DEF Typing
    <3> QED
      BY <3>4, <3>5
  <2> QED
    BY <1>2, <2>1, <2>2 DEF Inputs
<1> QED
  BY <1>7, <1>8, <1>9 DEF FlowInv

LEMMA FlowStays == FlowInv /\ [FlowNext]_flowVars => FlowInv'
<1> SUFFICES ASSUME FlowInv, [FlowNext]_flowVars PROVE FlowInv'
  OBVIOUS
<1>1. CASE HandlerWrites
  BY <1>1, HandlersKeep
<1>2. ASSUME NEW s \in Stream,
             \/ OpenPty(s) \/ ProcessWrites(s) \/ ProcessExits(s) \/ ReadLoopAsks(s) \/ OsRead(s) \/ SendChunk(s)
             \/ CloseSession(s) \/ PacketLost(s) \/ ClientReceives(s) \/ ClientLinkClosed(s) \/ LinkCloses(s)
             \/ SendInput(s) \/ HandlerTakes(s)
      PROVE  FlowInv'
  BY <1>2, OpensKeep, WritesKeep, ExitsKeep, AsksKeep, ReadsKeep, SendsKeep, SessionEndKeeps, LossesKeep, ArrivalsKeep,
     ClosedKeeps, LinksKeep, InputsKeep, HandlerKeeps, Zenon
<1>3. CASE UNCHANGED flowVars
  BY <1>3 DEF flowVars, FlowInv, FlowTypes, Places, Closings, Flows, Wholes, Inputs
<1> QED
  BY <1>1, <1>2, <1>3 DEF FlowNext

LEMMA FlowShows == FlowInv => FlowTypeOK /\ OutputIsOwn /\ InputIsOwn /\ ExitIsLast
<1> SUFFICES ASSUME FlowInv PROVE FlowTypeOK /\ OutputIsOwn /\ InputIsOwn /\ ExitIsLast
  OBVIOUS
<1>1. FlowTypes /\ Places /\ Closings /\ Flows /\ Wholes /\ Inputs
  BY DEF FlowInv
<1>2. FlowTypeOK
  BY <1>1 DEF FlowTypes, FlowTypeOK, ReadState
<1>3. OutputIsOwn
  <2>1. ASSUME NEW s \in Stream PROVE Rising(output[s]) /\ \A i \in 1..Len(output[s]) : output[s][i][1] = s
    <3>1. RisingIn(output[s], Chunk) /\ \A x \in ItemsOf(output[s], Chunk) : x[1] = s
      BY <1>1 DEF Flows, Flowing
    <3>2. output[s] \in Seq(Chunk) /\ \A i \in 1..Len(output[s]) : output[s][i] \in Chunk
      BY <1>1 DEF FlowTypes
    <3> QED
      BY <3>1, <3>2 DEF Rising, RisingIn, ItemsOf
  <2>2. ASSUME NEW s \in Stream, channel[s], ~stale PROVE IsPrefix(output[s], All(s, written[s]))
    <3>1. \A i \in 1..Len(output[s]) : output[s][i] = <<s, i>>
      BY <1>1, <2>2 DEF Wholes, WholeOut
    <3>2. written[s] \in Nat /\ output[s] \in Seq(Chunk) /\ \A i \in 1..Len(output[s]) : output[s][i] \in Chunk
      BY <1>1 DEF FlowTypes
    <3>3. \A i \in 1..Len(output[s]) : output[s][i][2] \in 1..written[s]
      BY <1>1, <3>2 DEF Flows, Flowing, ItemsOf
    <3>4. Len(output[s]) <= written[s]
      <4>1. CASE Len(output[s]) = 0
        BY <3>2, <4>1
      <4>2. CASE Len(output[s]) # 0
        <5>1. Len(output[s]) \in 1..Len(output[s])
          BY <3>2, <4>2
        <5>2. output[s][Len(output[s])][2] = Len(output[s])
          BY <3>1, <5>1
        <5> QED
          BY <3>2, <3>3, <5>1, <5>2
      <4> QED
        BY <4>1, <4>2
    <3>5. Len(All(s, written[s])) = written[s] /\ \A i \in 1..written[s] : All(s, written[s])[i] = <<s, i>>
      BY <3>2 DEF All
    <3>6. Len(output[s]) <= Len(All(s, written[s])) /\ \A i \in 1..Len(output[s]) : output[s][i] = All(s, written[s])[i]
      BY <3>1, <3>2, <3>4, <3>5
    <3> QED
      BY <3>2, <3>6 DEF IsPrefix
  <2> QED
    BY <2>1, <2>2 DEF OutputIsOwn
<1>4. InputIsOwn
  <2>1. ASSUME ~stale, NEW s \in Stream PROVE Rising(input[s]) /\ \A i \in 1..Len(input[s]) : input[s][i][1] = s
    <3>1. RisingIn(input[s], Typed) /\ \A x \in ItemsOf(input[s], Typed) : x[1] = s
      BY <1>1, <2>1 DEF Inputs, Typing
    <3>2. \A i \in 1..Len(input[s]) : input[s][i] \in Typed
      BY <1>1 DEF FlowTypes
    <3> QED
      BY <3>1, <3>2 DEF Rising, RisingIn, ItemsOf
  <2> QED
    BY <2>1 DEF InputIsOwn
<1>5. ExitIsLast
  <2>1. ASSUME NEW s \in Stream, exited[s] = Ended
        PROVE  process[s] = "exited" /\ session[s] = "gone" /\ \A i \in 1..Len(outward[s]) : outward[s][i] \notin Chunk
    <3>1. session[s] = "gone" /\ process[s] = "exited" /\ outward[s] = <<>>
      BY <1>1, <2>1 DEF Closings, Closing
    <3>2. 1..Len(<<>>) = {}
      OBVIOUS
    <3> QED
      BY <3>1, <3>2
  <2> QED
    BY <2>1 DEF ExitIsLast
<1> QED
  BY <1>2, <1>3, <1>4, <1>5

LEMMA FlowInvariant == FlowSpec => []FlowInv
  BY FlowStarts, FlowStays, PTL DEF FlowSpec

\* What a client shows is its own process's, in order and on a channel without a gap; a
\* process is given what its own user typed; the code of an exit comes after the output.
THEOREM TerminalsKeepTheirOwn == FlowSpec => [](FlowTypeOK /\ OutputIsOwn /\ InputIsOwn /\ ExitIsLast)
  BY FlowInvariant, FlowShows, PTL

-----------------------------------------------------------------------------
(* The page browser.                                                         *)

PageSites == [site : Site, path : Path]
BrowserTypes ==
    /\ pane \in {"new", "open", "gone"} /\ site \in Site /\ home \in Site /\ path \in Path
    /\ history \in Seq([site : Site, path : Page \cup Url]) /\ loads \in [Group -> Load]
    /\ lane \in {"none", "open", "closing"} /\ outcome \in {"none", "ok", "failed"}
    /\ shown \in PageSites /\ asked \in PageSites
    /\ transport \in 0..Len(Offers) /\ raced \in BOOLEAN /\ mixed \in BOOLEAN

\* A browser that is not open has nothing under way.
Panes ==
    /\ pane = "new" => history = <<>> /\ outcome = "none"
    /\ pane # "open" => lane # "open" /\ \A g \in Group : loads[g].phase = "idle"

\* A load is for what was asked for last, unless a load of the other group was under way.
LoadFor(l, s, a) ==
    l.phase # "idle" =>
        /\ a.site = s /\ (l.path = a.path \/ s = NoSite)
        /\ l.phase \in {"fetch", "cache"} => l.site = s
LoadsAreAsked == ~raced => \A g \in Group : LoadFor(loads[g], site, asked)

ShownIsAsked ==
    /\ outcome = "ok" => path = shown.path
    /\ outcome = "ok" /\ ~raced => shown = asked /\ asked.site = site /\ asked.path = path

Homes == ~mixed => \A i \in 1..Len(history) : history[i].site = site

BrowserInv == BrowserTypes /\ Panes /\ LoadsAreAsked /\ ShownIsAsked /\ Homes

Starting(p, form) == [Idle EXCEPT !.phase = "start", !.path = p, !.form = form]

LEMMA LoadsAre ==
  /\ Idle \in Load /\ Idle.phase = "idle"
  /\ \A p \in Path, form \in BOOLEAN :
        /\ Starting(p, form) \in Load /\ Starting(p, form).phase = "start" /\ Starting(p, form).path = p
        /\ \A s \in Site : \A a : a.site = s /\ a.path = p => LoadFor(Starting(p, form), s, a)
  /\ \A s, a : LoadFor(Idle, s, a)
<1>1. Idle \in Load /\ Idle.phase = "idle"
  BY DEF Idle, Load, Site, NoSite, Path
<1>2. ASSUME NEW p \in Path, NEW form \in BOOLEAN
      PROVE  Starting(p, form) \in Load /\ Starting(p, form).phase = "start" /\ Starting(p, form).path = p
  BY <1>2 DEF Idle, Load, Site, NoSite, Path, Starting
<1>3. \A s, a : LoadFor(Idle, s, a)
  BY <1>1 DEF LoadFor
<1>4. ASSUME NEW p \in Path, NEW form \in BOOLEAN, NEW s \in Site, NEW a, a.site = s, a.path = p
      PROVE  LoadFor(Starting(p, form), s, a)
  BY <1>2, <1>4 DEF LoadFor
<1> QED
  BY <1>1, <1>2, <1>3, <1>4

LEMMA SitesAre ==
  /\ NoSite \in Site /\ NoSite \in Path /\ Web \in Site /\ NoSite # Web /\ "index" \in Path
  /\ Node \subseteq Site /\ Page \subseteq Path /\ Url \subseteq Path
  /\ Path \ {NoSite} \subseteq Page \cup Url
  /\ Group = {"default", "page-load"}
  BY BrowserAssumption DEF Site, Path, NoSite, Web, Group

LEMMA PagesAre == \A s \in Site, p \in Path : PageAt(s, p) \in PageSites /\ PageAt(s, p).site = s /\ PageAt(s, p).path = p
  BY DEF PageAt, PageSites

LEMMA OffersAre == Offers \in Seq(Node \cup Url) /\ Len(Offers) \in Nat /\ \A i \in 1..Len(Offers) : Offers[i] \in Node \cup Url
<1>1. Offers \in Seq(Node \cup Url)
  BY BrowserAssumption, Zenon
<1> QED
  BY <1>1

LEMMA FrontIs ==
  ASSUME NEW D, NEW q \in Seq(D), q # <<>>
  PROVE  /\ Len(q) \in 1..Len(q) /\ q[Len(q)] \in D /\ Len(q) \in Nat
         /\ SubSeq(q, 1, Len(q) - 1) \in Seq(D) /\ Len(SubSeq(q, 1, Len(q) - 1)) = Len(q) - 1
         /\ \A i \in 1..(Len(q) - 1) : i \in 1..Len(q) /\ SubSeq(q, 1, Len(q) - 1)[i] = q[i]
<1>1. Len(q) \in Nat /\ Len(q) # 0
  BY EmptySeq
<1> QED
  BY <1>1

LEMMA BrowserStarts == ASSUME BrowserInit PROVE BrowserInv
<1>1. /\ pane = "new" /\ site = NoSite /\ path = "index" /\ home = NoSite /\ history = <<>>
      /\ loads = [g \in Group |-> Idle] /\ lane = "none"
      /\ shown = PageAt(NoSite, NoSite) /\ outcome = "none" /\ asked = PageAt(NoSite, NoSite)
      /\ transport = 0 /\ raced = FALSE /\ mixed = FALSE
  BY DEF BrowserInit
<1>2. transport \in 0..Len(Offers)
  <2>1. Len(Offers) \in Nat /\ transport = 0
    BY <1>1, OffersAre
  <2> QED
    BY <2>1
<1>3. loads \in [Group -> Load]
  BY <1>1, LoadsAre
<1>4. BrowserTypes
  <2>1. history \in Seq([site : Site, path : Page \cup Url])
    BY <1>1
  <2>2. PageAt(NoSite, NoSite) \in PageSites
    BY SitesAre, PagesAre
  <2>3. raced \in BOOLEAN /\ mixed \in BOOLEAN
    BY <1>1, Zenon
  <2> QED
    BY <1>1, <1>2, <1>3, <2>1, <2>2, <2>3, SitesAre DEF BrowserTypes
<1>5. Panes /\ LoadsAreAsked /\ ShownIsAsked
  BY <1>1, LoadsAre DEF Panes, LoadsAreAsked, ShownIsAsked
<1>6. Homes
  <2>1. 1..Len(<<>>) = {}
    OBVIOUS
  <2> QED
    BY <1>1, <2>1 DEF Homes
<1> QED
  BY <1>4, <1>5, <1>6 DEF BrowserInv

\* A load that replaces the one of its group, for what is asked for now.
LEMMA BeginsFor ==
  ASSUME BrowserInv, NEW g \in Group, NEW s \in Site, NEW p \in Path, NEW form \in BOOLEAN, NEW a,
         a.site = s, a.path = p, loads' = [loads EXCEPT ![g] = Starting(p, form)], Raced(g)
  PROVE  /\ loads' \in [Group -> Load] /\ raced' \in BOOLEAN
         /\ ~raced' => \A h \in Group : LoadFor(loads'[h], s, a)
<1>1. loads \in [Group -> Load]
  BY DEF BrowserInv, BrowserTypes
<1>2. loads' \in [Group -> Load]
  BY <1>1, LoadsAre
<1>3. raced' \in BOOLEAN
  BY Zenon DEF Raced
<1>4. ASSUME ~raced', NEW h \in Group PROVE LoadFor(loads'[h], s, a)
  <2>1. CASE h = g
    <3>1. loads'[h] = Starting(p, form)
      BY <1>1, <2>1
    <3> QED
      BY <3>1, LoadsAre
  <2>2. CASE h # g
    <3>1. loads'[h] = loads[h]
      BY <1>1, <2>2
    <3>2. loads[h].phase = "idle"
      BY <1>4, <2>2 DEF Raced, Runs
    <3> QED
      BY <3>1, <3>2 DEF LoadFor
  <2> QED
    BY <2>1, <2>2
<1> QED
  BY <1>2, <1>3, <1>4

\* What every request does.
LEMMA AsksAre ==
  ASSUME NEW s \in Site, NEW p \in Path, Asks(s, p)
  PROVE  pane = "open" /\ asked' = PageAt(s, p) /\ outcome' = "none" /\ asked' \in PageSites
         /\ asked'.site = s /\ asked'.path = p
<1>1. pane = "open" /\ asked' = PageAt(s, p) /\ outcome' = "none"
  BY DEF Asks
<1> QED
  BY <1>1, PagesAre

LEMMA MountKeeps == ASSUME BrowserInv, NEW s \in Node \cup {NoSite}, BrowserMount(s) PROVE BrowserInv'
<1>1. BrowserTypes /\ Panes /\ LoadsAreAsked /\ ShownIsAsked /\ Homes
  BY DEF BrowserInv
<1>2. /\ pane = "new" /\ pane' = "open" /\ site' = s /\ home' = s
      /\ \/ loads' = loads /\ asked' = asked
         \/ loads' = [loads EXCEPT !["default"] = Starting("index", FALSE)] /\ asked' = PageAt(s, "index")
      /\ UNCHANGED <<path, history, lane, shown, outcome, transport, raced, mixed, asks>>
  BY DEF BrowserMount, Begin, Starting
<1>3. s \in Site /\ "index" \in Path /\ "default" \in Group
  BY SitesAre
<1>4. PageAt(s, "index") \in PageSites /\ PageAt(s, "index").site = s /\ PageAt(s, "index").path = "index"
  BY <1>3, PagesAre
<1>5. \A g \in Group : loads[g].phase = "idle"
  BY <1>1, <1>2 DEF Panes
<1>6. history = <<>> /\ lane # "open"
  BY <1>1, <1>2 DEF Panes
<1>7. outcome' = "none"
  BY <1>1, <1>2 DEF Panes
<1>8. loads' \in [Group -> Load] /\ asked' \in PageSites
  BY <1>1, <1>2, <1>3, <1>4, LoadsAre DEF BrowserTypes
<1>9. BrowserTypes'
  BY <1>1, <1>2, <1>3, <1>8 DEF BrowserTypes
<1>10. Panes'
  BY <1>2 DEF Panes
<1>11. LoadsAreAsked'
  <2>1. ASSUME NEW g \in Group PROVE LoadFor(loads'[g], s, asked')
    <3>1. CASE loads' = loads
      BY <1>5, <3>1 DEF LoadFor
    <3>2. CASE loads' = [loads EXCEPT !["default"] = Starting("index", FALSE)] /\ asked' = PageAt(s, "index")
      <4>1. loads'[g] = Starting("index", FALSE) \/ loads'[g] = loads[g]
        BY <1>1, <3>2 DEF BrowserTypes
      <4>2. LoadFor(Starting("index", FALSE), s, asked')
        BY <1>3, <1>4, <3>2, LoadsAre
      <4> QED
        BY <1>5, <4>1, <4>2 DEF LoadFor
    <3> QED
      BY <1>2, <3>1, <3>2
  <2> QED
    BY <1>2, <2>1 DEF LoadsAreAsked
<1>12. ShownIsAsked'
  BY <1>7 DEF ShownIsAsked
<1>13. Homes'
  <2>1. 1..Len(<<>>) = {}
    OBVIOUS
  <2> QED
    BY <1>2, <1>6, <2>1 DEF Homes
<1> QED
  BY <1>9, <1>10, <1>11, <1>12, <1>13 DEF BrowserInv

\* A request that loads in one group.
LEMMA RequestKeeps ==
  ASSUME BrowserInv, NEW g \in Group, NEW s \in Site, NEW p \in Path, NEW form \in BOOLEAN, Asks(s, p), site' = s,
         loads' = [loads EXCEPT ![g] = Starting(p, form)], Raced(g), pane' = pane, lane' = lane, shown' = shown,
         home' \in Site, path' \in Path, history' \in Seq([site : Site, path : Page \cup Url]),
         transport' \in 0..Len(Offers), mixed' \in BOOLEAN, Homes'
  PROVE  BrowserInv'
<1>1. BrowserTypes /\ Panes
  BY DEF BrowserInv
<1>2. pane = "open" /\ outcome' = "none" /\ asked' \in PageSites /\ asked'.site = s /\ asked'.path = p
  BY AsksAre
<1>3. /\ loads' \in [Group -> Load] /\ raced' \in BOOLEAN
      /\ ~raced' => \A h \in Group : LoadFor(loads'[h], s, asked')
  BY <1>2, BeginsFor
<1>4. BrowserTypes'
  BY <1>1, <1>2, <1>3 DEF BrowserTypes
<1>5. Panes'
  BY <1>2 DEF Panes
<1>6. LoadsAreAsked' /\ ShownIsAsked'
  BY <1>2, <1>3 DEF LoadsAreAsked, ShownIsAsked
<1> QED
  BY <1>4, <1>5, <1>6 DEF BrowserInv

LEMMA NoHomes == ASSUME history' = <<>> PROVE Homes' /\ history' \in Seq([site : Site, path : Page \cup Url])
<1>1. 1..Len(<<>>) = {}
  OBVIOUS
<1> QED
  BY <1>1 DEF Homes

LEMMA DestinationKeeps == ASSUME BrowserInv, NEW n \in Node, SetDestination(n) PROVE BrowserInv'
<1>1. /\ Asks(n, "index") /\ site' = n /\ path' = "index" /\ home' = n /\ history' = <<>> /\ mixed' = FALSE
      /\ loads' = [loads EXCEPT !["default"] = Starting("index", FALSE)] /\ Raced("default") /\ transport' = transport
      /\ pane' = pane /\ lane' = lane /\ shown' = shown
  BY DEF SetDestination, Moves, Begin, Starting, Unmoved
<1>2. n \in Site /\ "index" \in Path /\ "default" \in Group /\ transport' \in 0..Len(Offers)
  BY <1>1, SitesAre DEF BrowserInv, BrowserTypes
<1> QED
  BY <1>1, <1>2, NoHomes, RequestKeeps

LEMMA ExternalKeeps == ASSUME BrowserInv, NEW u \in Url, SetExternalUrl(u) PROVE BrowserInv'
<1>1. /\ Asks(Web, u) /\ site' = Web /\ path' = u /\ home' = Web /\ history' = <<>> /\ mixed' = FALSE
      /\ loads' = [loads EXCEPT !["default"] = Starting(u, FALSE)] /\ Raced("default") /\ transport' = transport
      /\ pane' = pane /\ lane' = lane /\ shown' = shown
  BY DEF SetExternalUrl, Moves, Begin, Starting, Unmoved
<1>2. Web \in Site /\ u \in Path /\ "default" \in Group /\ transport' \in 0..Len(Offers)
  BY <1>1, SitesAre DEF BrowserInv, BrowserTypes
<1> QED
  BY <1>1, <1>2, NoHomes, RequestKeeps

LEMMA CycleKeeps == ASSUME BrowserInv, CycleTransport PROVE BrowserInv'
<1> DEFINE i == (transport % Len(Offers)) + 1
           s == IF Offers[i] \in Node THEN Offers[i] ELSE Web
           p == IF Offers[i] \in Node THEN "index" ELSE Offers[i]
<1>1. /\ Len(Offers) > 1 /\ Asks(s, p) /\ site' = s
      /\ loads' = [loads EXCEPT !["default"] = Starting(p, FALSE)] /\ Raced("default") /\ transport' = i
      /\ history' = <<>> /\ mixed' = FALSE /\ path' = path /\ home' = home
      /\ pane' = pane /\ lane' = lane /\ shown' = shown
  BY DEF CycleTransport, Begin, Starting, Unmoved
<1>2. path \in Path /\ home \in Site /\ transport \in Nat
  <2>1. Len(Offers) \in Nat /\ transport \in 0..Len(Offers)
    BY OffersAre DEF BrowserInv, BrowserTypes
  <2> QED
    BY <2>1 DEF BrowserInv, BrowserTypes
<1>3. i \in 1..Len(Offers) /\ i \in 0..Len(Offers)
  <2>1. Len(Offers) \in Nat
    BY OffersAre
  <2>2. \A a \in Nat, b \in Nat : b > 1 => (a % b) \in 0..(b - 1)
    OBVIOUS
  <2> QED
    BY <1>1, <1>2, <2>1, <2>2
<1>4. Offers[i] \in Node \cup Url
  BY <1>3, OffersAre
<1> HIDE DEF i
<1>5. s \in Site /\ p \in Path /\ "default" \in Group
  BY <1>4, SitesAre
<1> HIDE DEF s, p
<1> QED
  BY <1>1, <1>2, <1>3, <1>5, NoHomes, RequestKeeps

LEMMA NavigateKeeps ==
  ASSUME BrowserInv, NEW p \in Page \cup Url, NEW form \in BOOLEAN, Navigate(p, form)
  PROVE  BrowserInv'
<1>1. /\ Asks(site, p) /\ site' = site
      /\ \/ history' = history /\ mixed' = mixed
         \/ /\ path # NoSite /\ history' = Append(history, PageAt(home, path))
            /\ mixed' = (mixed \/ home # site)
      /\ loads' = [loads EXCEPT !["default"] = Starting(p, form)] /\ Raced("default") /\ transport' = transport
      /\ path' = path /\ home' = home /\ pane' = pane /\ lane' = lane /\ shown' = shown
  BY DEF Navigate, Begin, Starting, Unmoved
<1>2. BrowserTypes /\ Homes
  BY DEF BrowserInv
<1>3. site \in Site /\ p \in Path /\ "default" \in Group /\ home \in Site /\ path \in Path
  BY <1>2, SitesAre DEF BrowserTypes
<1>4. mixed' \in BOOLEAN /\ transport' \in 0..Len(Offers)
  <2>1. mixed' \in BOOLEAN
    BY <1>1, <1>2, Zenon DEF BrowserTypes
  <2> QED
    BY <1>1, <1>2, <2>1 DEF BrowserTypes
<1>5. /\ history' \in Seq([site : Site, path : Page \cup Url])
      /\ Homes'
  <2>1. CASE history' = history /\ mixed' = mixed
    BY <1>1, <1>2, <2>1 DEF BrowserTypes, Homes
  <2>2. CASE path # NoSite /\ history' = Append(history, PageAt(home, path)) /\ mixed' = (mixed \/ home # site)
    <3>1. PageAt(home, path) \in [site : Site, path : Page \cup Url] /\ PageAt(home, path).site = home
      BY <1>3, <2>2, SitesAre DEF PageAt
    <3>2. history \in Seq([site : Site, path : Page \cup Url])
      BY <1>2 DEF BrowserTypes
    <3> DEFINE x == PageAt(home, path)
    <3> HIDE DEF x
    <3>3. /\ history' \in Seq([site : Site, path : Page \cup Url])
          /\ Len(history') = Len(history) + 1 /\ Len(history) \in Nat /\ history'[Len(history')] = x
          /\ \A i \in 1..Len(history) : history'[i] = history[i]
      BY <2>2, <3>1, <3>2 DEF x
    <3>4. ASSUME ~mixed', NEW i \in 1..Len(history') PROVE history'[i].site = site
      <4>1. ~mixed /\ x.site = site
        BY <2>2, <3>1, <3>4 DEF x
      <4>2. i \in 1..Len(history) \/ i = Len(history')
        BY <3>3
      <4> QED
        BY <1>2, <3>3, <4>1, <4>2 DEF Homes
    <3> QED
      BY <1>1, <3>3, <3>4 DEF Homes
  <2> QED
    BY <1>1, <2>1, <2>2
<1> QED
  BY <1>1, <1>3, <1>4, <1>5, RequestKeeps

LEMMA BackKeeps == ASSUME BrowserInv, GoBack PROVE BrowserInv'
<1> DEFINE n == Len(history)
           p == history[n].path
<1>1. /\ history # <<>> /\ Asks(site, p) /\ site' = site /\ history' = SubSeq(history, 1, n - 1)
      /\ loads' = [loads EXCEPT !["default"] = Starting(p, FALSE)] /\ Raced("default") /\ transport' = transport
      /\ mixed' = mixed /\ path' = path /\ home' = home /\ pane' = pane /\ lane' = lane /\ shown' = shown
  BY DEF GoBack, Begin, Starting, Unmoved
<1>2. BrowserTypes /\ Homes
  BY DEF BrowserInv
<1>3. history \in Seq([site : Site, path : Page \cup Url])
  BY <1>2 DEF BrowserTypes
<1>0. /\ n \in 1..n /\ history[n] \in [site : Site, path : Page \cup Url] /\ n \in Nat
      /\ history' \in Seq([site : Site, path : Page \cup Url]) /\ Len(history') = n - 1
      /\ \A i \in 1..(n - 1) : i \in 1..n /\ history'[i] = history[i]
  <2> DEFINE D == [site : Site, path : Page \cup Url]
  <2>1. history \in Seq(D)
    BY <1>3
  <2> HIDE DEF D
  <2>2. /\ n \in 1..n /\ history[n] \in D /\ n \in Nat
        /\ history' \in Seq(D) /\ Len(history') = n - 1
        /\ \A i \in 1..(n - 1) : i \in 1..n /\ history'[i] = history[i]
    BY <1>1, <2>1, FrontIs
  <2> QED
    BY <2>2 DEF D
<1>4. site \in Site /\ "default" \in Group /\ home \in Site /\ path \in Path /\ mixed \in BOOLEAN
      /\ transport' \in 0..Len(Offers)
  BY <1>1, <1>2, SitesAre DEF BrowserTypes
<1>5. p \in Path
  BY <1>0, SitesAre
<1>6. Homes'
  BY <1>0, <1>1, <1>2 DEF Homes
<1> HIDE DEF p
<1> QED
  BY <1>0, <1>1, <1>4, <1>5, <1>6, RequestKeeps

LEMMA ReloadKeeps == ASSUME BrowserInv, Reload PROVE BrowserInv'
<1>1. /\ Asks(site, path) /\ site' = site /\ history' = history
      /\ loads' = [loads EXCEPT !["default"] = Starting(path, FALSE)] /\ Raced("default") /\ transport' = transport
      /\ mixed' = mixed /\ path' = path /\ home' = home /\ pane' = pane /\ lane' = lane /\ shown' = shown
  BY DEF Reload, Begin, Starting, Unmoved
<1>2. BrowserTypes /\ Homes
  BY DEF BrowserInv
<1>3. site \in Site /\ "default" \in Group /\ home' \in Site /\ path \in Path /\ path' \in Path /\ mixed' \in BOOLEAN
      /\ transport' \in 0..Len(Offers) /\ history' \in Seq([site : Site, path : Page \cup Url])
  BY <1>1, <1>2, SitesAre DEF BrowserTypes
<1>4. Homes'
  BY <1>1, <1>2 DEF Homes
<1> QED
  BY <1>1, <1>3, <1>4, RequestKeeps


\* Both groups load what the dialog was given, and what is typed after a web page is not
\* for any site.
LEMMA BothKeep ==
  ASSUME BrowserInv, NEW s \in Site, NEW p \in Path, Moves(s, p), UNCHANGED <<raced, transport>>,
         NEW q \in Path, q = p \/ s = NoSite,
         loads' = [g \in Group |-> [Idle EXCEPT !.phase = "start", !.path = IF g = "default" THEN p ELSE q]]
  PROVE  BrowserInv'
<1>1. /\ Asks(s, p) /\ site' = s /\ path' = p /\ home' = s /\ history' = <<>> /\ mixed' = FALSE
      /\ pane' = pane /\ lane' = lane /\ shown' = shown
  BY DEF Moves, Unmoved
<1>2. BrowserTypes /\ Panes
  BY DEF BrowserInv
<1>3. pane = "open" /\ outcome' = "none" /\ asked' \in PageSites /\ asked'.site = s /\ asked'.path = p
  BY <1>1, AsksAre
<1>4. history' \in Seq([site : Site, path : Page \cup Url]) /\ Homes'
  BY <1>1, NoHomes
<1>5. ASSUME NEW r \in {p, q}
      PROVE  LET l == [Idle EXCEPT !.phase = "start", !.path = r] IN l \in Load /\ LoadFor(l, s, asked')
  <2> DEFINE l == [Idle EXCEPT !.phase = "start", !.path = r]
  <2>1. l \in Load /\ l.phase = "start" /\ l.path = r
    BY DEF Idle, Load, Site, NoSite, Path
  <2> HIDE DEF l
  <2>2. LoadFor(l, s, asked')
    BY <1>3, <2>1 DEF LoadFor
  <2> QED
    BY <2>1, <2>2 DEF l
<1>6. loads' \in [Group -> Load] /\ \A g \in Group : LoadFor(loads'[g], s, asked')
  BY <1>5
<1>7. BrowserTypes'
  BY <1>1, <1>2, <1>3, <1>4, <1>6 DEF BrowserTypes
<1>8. Panes' /\ LoadsAreAsked' /\ ShownIsAsked'
  BY <1>1, <1>3, <1>6 DEF Panes, LoadsAreAsked, ShownIsAsked
<1> QED
  BY <1>4, <1>7, <1>8 DEF BrowserInv

LEMMA UrlKeeps == ASSUME BrowserInv, NEW p \in Page \cup Url, HandleUrl(p) PROVE BrowserInv'
<1>1. p \in Path /\ NoSite \in Path /\ NoSite \in Site /\ Web \in Site /\ "page-load" \in Group
  BY SitesAre
<1>2. CASE p \in Url
  <2>1. Moves(Web, p) /\ UNCHANGED <<raced, transport>>
    BY <1>2 DEF HandleUrl
  <2>2. loads' = [g \in Group |-> [Idle EXCEPT !.phase = "start", !.path = IF g = "default" THEN p ELSE p]]
    BY <1>2 DEF HandleUrl
  <2> QED
    BY <1>1, <2>1, <2>2, BothKeep
<1>3. CASE p \notin Url /\ site = Web
  <2>1. Moves(NoSite, NoSite) /\ UNCHANGED <<raced, transport>>
    BY <1>3 DEF HandleUrl
  <2>2. loads' = [g \in Group |-> [Idle EXCEPT !.phase = "start", !.path = IF g = "default" THEN NoSite ELSE p]]
    BY <1>3 DEF HandleUrl
  <2> QED
    BY <1>1, <2>1, <2>2, BothKeep
<1>4. CASE p \notin Url /\ site # Web
  <2>1. /\ Asks(site, p) /\ site' = site /\ history' = history
        /\ loads' = [loads EXCEPT !["page-load"] = Starting(p, FALSE)] /\ Raced("page-load") /\ transport' = transport
        /\ mixed' = mixed /\ path' = path /\ home' = home /\ pane' = pane /\ lane' = lane /\ shown' = shown
    BY <1>4 DEF HandleUrl, Begin, Starting, Unmoved
  <2>2. BrowserTypes /\ Homes
    BY DEF BrowserInv
  <2>3. site \in Site /\ home' \in Site /\ path' \in Path /\ mixed' \in BOOLEAN
        /\ transport' \in 0..Len(Offers) /\ history' \in Seq([site : Site, path : Page \cup Url])
    BY <2>1, <2>2 DEF BrowserTypes
  <2>4. Homes'
    BY <2>1, <2>2 DEF Homes
  <2> QED
    BY <1>1, <2>1, <2>3, <2>4, RequestKeeps
<1> QED
  BY <1>2, <1>3, <1>4

\* A step of a load that shows nothing: it goes on for the site of now, or it ends.
LEMMA PageLoadKeeps ==
  ASSUME BrowserInv, NEW g \in Group, loads[g].phase # "idle", lane' \in {"none", "open", "closing"},
         pane # "open" => lane' # "open",
         \/ /\ \E phase \in {"lane", "fetch", "cache"} : \E s \in {site, NoSite} :
                  Becomes(g, phase, s) /\ (phase = "lane" \/ s = site)
            /\ outcome' = outcome
         \/ Ends(g, "failed"),
         UNCHANGED <<path, home, shown>>, Elsewhere
  PROVE  BrowserInv'
<1>1. BrowserTypes /\ Panes /\ LoadsAreAsked /\ ShownIsAsked /\ Homes
  BY DEF BrowserInv
<1>2. UNCHANGED <<pane, site, history, asked, transport, raced, mixed>>
  BY DEF Elsewhere
<1>3. PICK l \in Load : /\ loads' = [loads EXCEPT ![g] = l] /\ outcome' \in {"failed", outcome}
                        /\ LoadFor(loads[g], site, asked) => LoadFor(l, site, asked)
  <2>1. CASE Ends(g, "failed")
    BY <2>1, LoadsAre DEF Ends
  <2>2. ASSUME NEW phase \in {"lane", "fetch", "cache"}, NEW s \in {site, NoSite},
               Becomes(g, phase, s), phase = "lane" \/ s = site, outcome' = outcome
        PROVE  \E l \in Load : /\ loads' = [loads EXCEPT ![g] = l] /\ outcome' \in {"failed", outcome}
                               /\ LoadFor(loads[g], site, asked) => LoadFor(l, site, asked)
    <3> DEFINE l == [loads[g] EXCEPT !.phase = phase, !.site = s]
    <3>1. loads[g] \in Load /\ s \in Site
      BY <1>1, SitesAre DEF BrowserTypes
    <3>2. l \in Load /\ l.phase = phase /\ l.site = s /\ l.path = loads[g].path
      BY <3>1 DEF Load
    <3>3. loads' = [loads EXCEPT ![g] = l]
      BY <1>1, <2>2 DEF Becomes, BrowserTypes
    <3> HIDE DEF l
    <3>4. LoadFor(loads[g], site, asked) => LoadFor(l, site, asked)
      BY <2>2, <3>2 DEF LoadFor
    <3> QED
      BY <2>2, <3>2, <3>3, <3>4
  <2> QED
    BY <2>1, <2>2
<1>4. loads'[g] = l /\ \A h \in Group : h # g => loads'[h] = loads[h]
  BY <1>1, <1>3 DEF BrowserTypes
<1>5. pane = "open"
  BY <1>1 DEF Panes
<1>6. BrowserTypes'
  BY <1>1, <1>2, <1>3 DEF BrowserTypes
<1>7. Panes'
  BY <1>2, <1>5 DEF Panes
<1>8. LoadsAreAsked'
  <2>1. ASSUME ~raced, NEW h \in Group PROVE LoadFor(loads'[h], site, asked)
    <3>1. LoadFor(loads[h], site, asked)
      BY <1>1, <2>1 DEF LoadsAreAsked
    <3> QED
      BY <1>3, <1>4, <3>1
  <2> QED
    BY <1>2, <2>1 DEF LoadsAreAsked
<1>9. ShownIsAsked'
  BY <1>1, <1>2, <1>3 DEF ShownIsAsked
<1>10. Homes'
  BY <1>1, <1>2 DEF Homes
<1> QED
  BY <1>6, <1>7, <1>8, <1>9, <1>10 DEF BrowserInv

\* The page is there.
LEMMA PagesKeep ==
  ASSUME BrowserInv, NEW g \in Group, loads[g].phase \in {"fetch", "cache"}, IsServed(loads[g].site, loads[g].path),
         Shows(loads[g].site, loads[g].path), Ends(g, "ok"), UNCHANGED lane, Elsewhere
  PROVE  BrowserInv'
<1>1. BrowserTypes /\ Panes /\ LoadsAreAsked /\ ShownIsAsked /\ Homes
  BY DEF BrowserInv
<1>2. UNCHANGED <<pane, site, history, asked, transport, raced, mixed, lane>>
  BY DEF Elsewhere
<1> DEFINE s == loads[g].site
           p == loads[g].path
<1>3. /\ shown' = PageAt(s, p) /\ path' = p /\ home' = s /\ loads' = [loads EXCEPT ![g] = Idle] /\ outcome' = "ok"
      /\ s # NoSite
  BY DEF Shows, Ends, IsServed
<1>4. s \in Site /\ p \in Path
  BY <1>1 DEF BrowserTypes, Load
<1>5. PageAt(s, p) \in PageSites /\ PageAt(s, p).site = s /\ PageAt(s, p).path = p
  BY <1>4, PagesAre
<1>6. ~raced => asked.site = site /\ s = site /\ p = asked.path
  <2>1. ~raced => LoadFor(loads[g], site, asked)
    BY <1>1 DEF LoadsAreAsked
  <2> QED
    BY <1>3, <2>1 DEF LoadFor
<1> HIDE DEF s, p
<1>7. loads' \in [Group -> Load] /\ \A h \in Group : loads'[h] = Idle \/ loads'[h] = loads[h]
  BY <1>1, <1>3, LoadsAre DEF BrowserTypes
<1>8. BrowserTypes'
  BY <1>1, <1>2, <1>3, <1>4, <1>5, <1>7 DEF BrowserTypes
<1>9. Panes'
  <2>1. pane = "open"
    BY <1>1 DEF Panes
  <2> QED
    BY <1>2, <2>1 DEF Panes
<1>10. LoadsAreAsked'
  <2>1. ASSUME ~raced, NEW h \in Group PROVE LoadFor(loads'[h], site, asked)
    BY <1>1, <1>7, <2>1, LoadsAre DEF LoadsAreAsked
  <2> QED
    BY <1>2, <2>1 DEF LoadsAreAsked
<1>11. ShownIsAsked'
  <2>1. ~raced => shown' = asked
    <3>1. asked \in PageSites
      BY <1>1 DEF BrowserTypes
    <3>2. ~raced => asked = PageAt(asked.site, asked.path)
      BY <3>1 DEF PageSites, PageAt
    <3> QED
      BY <1>3, <1>6, <3>2
  <2> QED
    BY <1>2, <1>3, <1>5, <1>6, <2>1 DEF ShownIsAsked
<1>12. Homes'
  BY <1>1, <1>2 DEF Homes
<1> QED
  BY <1>8, <1>9, <1>10, <1>11, <1>12 DEF BrowserInv

LEMMA BrowserStays == BrowserInv /\ [BrowserNext]_browserVars => BrowserInv'
<1> SUFFICES ASSUME BrowserInv, [BrowserNext]_browserVars PROVE BrowserInv'
  OBVIOUS
<1>1. BrowserTypes /\ Panes /\ LoadsAreAsked /\ ShownIsAsked /\ Homes
  BY DEF BrowserInv
<1>2. ASSUME NEW g \in Group, LoadPage(g) PROVE BrowserInv'
  <2>1. /\ loads[g].phase = "start" /\ lane' = lane /\ UNCHANGED <<path, home, shown>> /\ Elsewhere
        /\ \/ Becomes(g, "fetch", site) /\ outcome' = outcome
           \/ Becomes(g, "lane", NoSite) /\ outcome' = outcome
           \/ Ends(g, "failed")
    BY <1>2, Zenon DEF LoadPage
  <2>2. lane' \in {"none", "open", "closing"} /\ (pane # "open" => lane' # "open")
    BY <1>1, <2>1 DEF BrowserTypes, Panes
  <2>3. \/ /\ \E phase \in {"lane", "fetch", "cache"} : \E s \in {site, NoSite} :
                 Becomes(g, phase, s) /\ (phase = "lane" \/ s = site)
           /\ outcome' = outcome
        \/ Ends(g, "failed")
    BY <2>1, Zenon
  <2> QED
    BY <2>1, <2>2, <2>3, PageLoadKeeps
<1>3. ASSUME NEW g \in Group, NEW ok \in BOOLEAN, GetPageBridge(g, ok) PROVE BrowserInv'
  <2>1. /\ loads[g].phase = "lane" /\ UNCHANGED <<path, home, shown>> /\ Elsewhere
        /\ \/ lane' = "open" /\ Becomes(g, "fetch", site) /\ outcome' = outcome
           \/ Ends(g, "failed") /\ lane' = lane
    BY <1>3, Zenon DEF GetPageBridge
  <2>2. pane = "open"
    BY <1>1, <2>1 DEF Panes
  <2>3. lane' \in {"none", "open", "closing"}
    BY <1>1, <2>1 DEF BrowserTypes
  <2>4. \/ /\ \E phase \in {"lane", "fetch", "cache"} : \E s \in {site, NoSite} :
                 Becomes(g, phase, s) /\ (phase = "lane" \/ s = site)
           /\ outcome' = outcome
        \/ Ends(g, "failed")
    BY <2>1, Zenon
  <2>5. loads[g].phase # "idle"
    BY <2>1
  <2> QED
    BY <2>1, <2>2, <2>3, <2>4, <2>5, PageLoadKeeps
<1>4. ASSUME NEW g \in Group, SetError(g) \/ FetchRaises(g) PROVE BrowserInv'
  <2>1. /\ loads[g].phase \in {"fetch", "cache"} /\ UNCHANGED <<path, home, shown>> /\ Elsewhere /\ lane' = lane
        /\ \/ Becomes(g, "cache", site) /\ outcome' = outcome
           \/ Ends(g, "failed")
    BY <1>4, Zenon DEF SetError, FetchRaises
  <2>2. lane' \in {"none", "open", "closing"} /\ (pane # "open" => lane' # "open")
    BY <1>1, <2>1 DEF BrowserTypes, Panes
  <2>3. \/ /\ \E phase \in {"lane", "fetch", "cache"} : \E s \in {site, NoSite} :
                 Becomes(g, phase, s) /\ (phase = "lane" \/ s = site)
           /\ outcome' = outcome
        \/ Ends(g, "failed")
    BY <2>1, Zenon
  <2>4. loads[g].phase # "idle"
    BY <2>1
  <2> QED
    BY <2>1, <2>2, <2>3, <2>4, PageLoadKeeps
<1>5. ASSUME NEW g \in Group, PageArrives(g) \/ ShowCachedPage(g) PROVE BrowserInv'
  BY <1>5, PagesKeep DEF PageArrives, ShowCachedPage
<1>6. CASE BrowserUnmount
  <2>1. /\ pane' = "gone" /\ loads' = [g \in Group |-> Idle] /\ lane' \in {"closing", lane} /\ lane' # "open"
        /\ UNCHANGED <<site, path, home, history, shown, outcome, asked, transport, raced, mixed>>
    BY <1>6 DEF BrowserUnmount
  <2>2. loads' \in [Group -> Load] /\ \A g \in Group : loads'[g] = Idle
    BY <2>1, LoadsAre
  <2>3. BrowserTypes'
    BY <1>1, <2>1, <2>2 DEF BrowserTypes
  <2>4. Panes' /\ LoadsAreAsked'
    BY <2>1, <2>2, LoadsAre DEF Panes, LoadsAreAsked
  <2>5. ShownIsAsked' /\ Homes'
    BY <1>1, <2>1 DEF ShownIsAsked, Homes
  <2> QED
    BY <2>3, <2>4, <2>5 DEF BrowserInv
<1>7. CASE LaneCloses
  <2>1. /\ lane' = "none"
        /\ UNCHANGED <<pane, site, path, home, history, loads, shown, outcome, asked, transport, raced, mixed>>
    BY <1>7 DEF LaneCloses
  <2>2. BrowserTypes' /\ Panes'
    BY <1>1, <2>1 DEF BrowserTypes, Panes
  <2>3. LoadsAreAsked' /\ ShownIsAsked' /\ Homes'
    BY <1>1, <2>1 DEF LoadsAreAsked, ShownIsAsked, Homes
  <2> QED
    BY <2>2, <2>3 DEF BrowserInv
<1>8. CASE UNCHANGED browserVars
  BY <1>1, <1>8 DEF browserVars, BrowserInv, BrowserTypes, Panes, LoadsAreAsked, ShownIsAsked, Homes
<1>9. ASSUME NEW p \in Page \cup Url, NEW form \in BOOLEAN, Navigate(p, form) PROVE BrowserInv'
  BY <1>9, NavigateKeeps
<1>10. ASSUME NEW p \in Page \cup Url, HandleUrl(p) PROVE BrowserInv'
  BY <1>10, UrlKeeps
<1>11. CASE BrowserNext
  <2>1. CASE CycleTransport \/ GoBack \/ Reload \/ BrowserUnmount \/ LaneCloses
    BY <1>6, <1>7, <2>1, CycleKeeps, BackKeeps, ReloadKeeps
  <2>2. CASE \E s \in Node \cup {NoSite} : BrowserMount(s)
    BY <2>2, MountKeeps
  <2>3. CASE \/ \E n \in Node : SetDestination(n)
             \/ \E u \in Url : SetExternalUrl(u)
    BY <2>3, DestinationKeeps, ExternalKeeps
  <2>4. CASE \/ \E p \in Page, form \in BOOLEAN : site # Web /\ Navigate(p, form)
             \/ \E p \in Url : site = Web /\ Navigate(p, FALSE)
             \/ \E p \in Page \cup Url : HandleUrl(p)
    BY <1>9, <1>10, <2>4
  <2>5. CASE \E g \in Group : \/ LoadPage(g) \/ \E ok \in BOOLEAN : GetPageBridge(g, ok)
                              \/ PageArrives(g) \/ SetError(g) \/ FetchRaises(g) \/ ShowCachedPage(g)
    BY <1>2, <1>3, <1>4, <1>5, <2>5
  <2> QED
    BY <1>11, <2>1, <2>2, <2>3, <2>4, <2>5 DEF BrowserNext
<1> QED
  BY <1>8, <1>11

LEMMA BrowserShows == BrowserInv => BrowserTypeOK /\ PageIsTrue /\ BackIsHome /\ PathIsShown
<1> SUFFICES ASSUME BrowserInv PROVE BrowserTypeOK /\ PageIsTrue /\ BackIsHome /\ PathIsShown
  OBVIOUS
<1>1. BrowserTypes /\ Panes /\ LoadsAreAsked /\ ShownIsAsked /\ Homes
  BY DEF BrowserInv
<1>2. BrowserTypeOK
  BY <1>1 DEF BrowserTypes, BrowserTypeOK, PageSites
<1>3. PageIsTrue
  <2>1. asked = PageAt(asked.site, asked.path)
    <3>1. asked \in PageSites
      BY <1>1 DEF BrowserTypes
    <3> QED
      BY <3>1 DEF PageSites, PageAt
  <2> QED
    BY <1>1, <2>1 DEF ShownIsAsked, PageIsTrue
<1>4. BackIsHome
  BY <1>1 DEF Homes, BackIsHome
<1>5. PathIsShown
  BY <1>1 DEF Panes, ShownIsAsked, PathIsShown, Quiet, Runs
<1> QED
  BY <1>2, <1>3, <1>4, <1>5

LEMMA BrowserInvariant == BrowserSpec => []BrowserInv
  BY BrowserStarts, BrowserStays, PTL DEF BrowserSpec

\* The page that is shown is the one asked for last, whatever was cancelled on the way
\* and unless both groups loaded, and Back leads to a page of its site; a closed
\* browser has no load and no lane.
THEOREM PagesAreTrue == BrowserSpec => [](BrowserTypeOK /\ PageIsTrue /\ BackIsHome /\ PathIsShown)
  BY BrowserInvariant, BrowserShows, PTL

-----------------------------------------------------------------------------
(* Sorting: the nodes of a table by their places in an order.               *)

\* An order has every destination once.
EveryEndpoint(q) == q \in Seq(Endpoint) /\ IsInjective(q) /\ ToSet(q) = Endpoint

LEMMA EndpointsAre == IsFiniteSet(Endpoint) /\ EveryEndpoint(Ranked)
<1>1. Ranked \in Seq(Endpoint) /\ IsInjective(Ranked)
  BY TablesAssumption
<1>2. Endpoint = {Ranked[i] : i \in 1..Len(Ranked)} /\ Len(Ranked) \in Nat
  <2>1. DOMAIN Ranked = 1..Len(Ranked) /\ Len(Ranked) \in Nat
    BY <1>1
  <2> QED
    BY <2>1 DEF Endpoint, ToSet
<1>3. Ranked \in Surjection(1..Len(Ranked), Endpoint)
  <2>1. Ranked \in [1..Len(Ranked) -> Endpoint]
    BY <1>1
  <2> QED
    BY <1>2, <2>1 DEF Surjection
<1>4. IsFiniteSet(1..Len(Ranked))
  BY <1>2, FS_Interval
<1> QED
  BY <1>1, <1>3, <1>4, FS_Surjection DEF EveryEndpoint, Endpoint

LEMMA PlacesAre ==
  ASSUME NEW q, EveryEndpoint(q)
  PROVE  /\ \A d \in Endpoint : PlaceIn(q, d) \in 1..Len(q) /\ q[PlaceIn(q, d)] = d
         /\ \A i \in 1..Len(q) : q[i] \in Endpoint /\ PlaceIn(q, q[i]) = i
         /\ \A c, d \in Endpoint : PlaceIn(q, c) = PlaceIn(q, d) => c = d
         /\ Len(q) \in Nat /\ DOMAIN q = 1..Len(q)
<1>1. q \in Seq(Endpoint) /\ DOMAIN q = 1..Len(q) /\ Len(q) \in Nat
  BY DEF EveryEndpoint
<1>2. ASSUME NEW d \in Endpoint PROVE PlaceIn(q, d) \in 1..Len(q) /\ q[PlaceIn(q, d)] = d
  <2>1. \E i \in DOMAIN q : q[i] = d
    BY DEF EveryEndpoint, ToSet
  <2> QED
    BY <1>1, <2>1 DEF PlaceIn
<1>3. ASSUME NEW i \in 1..Len(q) PROVE q[i] \in Endpoint /\ PlaceIn(q, q[i]) = i
  <2>1. q[i] \in Endpoint
    BY <1>1
  <2>2. PlaceIn(q, q[i]) \in 1..Len(q) /\ q[PlaceIn(q, q[i])] = q[i]
    BY <1>2, <2>1
  <2> QED
    BY <1>1, <2>1, <2>2 DEF EveryEndpoint, IsInjective
<1>4. \A c, d \in Endpoint : PlaceIn(q, c) = PlaceIn(q, d) => c = d
  BY <1>2
<1> QED
  BY <1>1, <1>2, <1>3, <1>4

\* A strict order between any two nodes.
LEMMA BeforeIsOrder ==
  ASSUME NEW r, EveryEndpoint(recency)
  PROVE  /\ \A c, d \in Endpoint : ~(Before(r, c, d) /\ Before(r, d, c)) /\ (c # d => Before(r, c, d) \/ Before(r, d, c))
         /\ \A c, d, e \in Endpoint : Before(r, c, d) /\ Before(r, d, e) => Before(r, c, e)
<1> DEFINE q == IF r.by = "name" THEN Ranked ELSE recency
<1>1. EveryEndpoint(q)
  BY EndpointsAre
<1> HIDE DEF q
<1>2. /\ \A d \in Endpoint : PlaceIn(q, d) \in Nat
      /\ \A c, d \in Endpoint : PlaceIn(q, c) = PlaceIn(q, d) => c = d
  BY <1>1, PlacesAre
<1>3. \A c, d : Before(r, c, d) <=>
          IF r.reverse THEN PlaceIn(q, d) < PlaceIn(q, c) ELSE PlaceIn(q, c) < PlaceIn(q, d)
  BY DEF Before, q
<1>4. CASE r.reverse
  BY <1>2, <1>3, <1>4
<1>5. CASE ~r.reverse
  BY <1>2, <1>3, <1>5
<1> QED
  BY <1>4, <1>5

Earlier(r, nodes, d) == {c \in nodes : Before(r, c, d)}
RankIn(r, nodes, d) == Cardinality(Earlier(r, nodes, d))

\* As many ranks as nodes, each of another node.
LEMMA RanksAre ==
  ASSUME NEW r, NEW nodes \in SUBSET Endpoint, EveryEndpoint(recency)
  PROVE  /\ IsFiniteSet(nodes) /\ Cardinality(nodes) \in Nat
         /\ \A d \in nodes : RankIn(r, nodes, d) \in 0..(Cardinality(nodes) - 1)
         /\ \A c, d \in nodes : RankIn(r, nodes, c) = RankIn(r, nodes, d) => c = d
         /\ \A k \in 0..(Cardinality(nodes) - 1) : \E d \in nodes : RankIn(r, nodes, d) = k
<1> DEFINE n == Cardinality(nodes)
<1>1. IsFiniteSet(nodes) /\ n \in Nat
  BY EndpointsAre, FS_Subset, FS_CardinalityType
<1>2. \A d \in nodes : IsFiniteSet(Earlier(r, nodes, d)) /\ RankIn(r, nodes, d) \in Nat
  <2>1. ASSUME NEW d \in nodes PROVE IsFiniteSet(Earlier(r, nodes, d))
    <3>1. Earlier(r, nodes, d) \in SUBSET nodes
      BY DEF Earlier
    <3> QED
      BY <1>1, <3>1, FS_Subset
  <2> QED
    BY <2>1, FS_CardinalityType DEF RankIn
<1>3. ASSUME NEW d \in nodes PROVE RankIn(r, nodes, d) \in 0..(n - 1)
  <2>1. Earlier(r, nodes, d) \in SUBSET (nodes \ {d})
    BY BeforeIsOrder DEF Earlier
  <2>2. IsFiniteSet(nodes \ {d}) /\ Cardinality(nodes \ {d}) = n - 1
    BY <1>1, FS_RemoveElement
  <2>3. RankIn(r, nodes, d) <= n - 1
    BY <2>1, <2>2, FS_Subset DEF RankIn
  <2> QED
    BY <1>1, <1>2, <2>3
<1>4. ASSUME NEW c \in nodes, NEW d \in nodes, Before(r, c, d) PROVE RankIn(r, nodes, c) # RankIn(r, nodes, d)
  <2>1. Earlier(r, nodes, c) \in SUBSET Earlier(r, nodes, d)
    BY <1>4, BeforeIsOrder DEF Earlier
  <2>2. c \in Earlier(r, nodes, d) /\ c \notin Earlier(r, nodes, c)
    BY <1>4, BeforeIsOrder DEF Earlier
  <2> QED
    BY <1>2, <2>1, <2>2, FS_Subset DEF RankIn
<1>5. \A c, d \in nodes : RankIn(r, nodes, c) = RankIn(r, nodes, d) => c = d
  BY <1>4, BeforeIsOrder
<1>6. ASSUME NEW k \in 0..(n - 1) PROVE \E d \in nodes : RankIn(r, nodes, d) = k
  <2> DEFINE f == [d \in nodes |-> RankIn(r, nodes, d)]
  <2>1. f \in Injection(nodes, 0..(n - 1))
    <3>1. f \in [nodes -> 0..(n - 1)]
      BY <1>3
    <3>2. IsInjective(f)
      BY <1>5 DEF IsInjective
    <3> QED
      BY <3>1, <3>2 DEF Injection
  <2>2. IsFiniteSet(0..(n - 1)) /\ Cardinality(0..(n - 1)) = n
    BY <1>1, FS_Interval
  <2>3. f \in Surjection(nodes, 0..(n - 1))
    <3>1. \A S, T : \A g \in Injection(S, T) : IsFiniteSet(T) /\ Cardinality(S) = Cardinality(T) => g \in Surjection(S, T)
      BY FS_Injection
    <3> HIDE DEF f
    <3> QED
      BY <2>1, <2>2, <3>1
  <2> QED
    BY <2>3 DEF Surjection
<1> QED
  BY <1>1, <1>3, <1>5, <1>6

\* Each node of the table stands in it once.
LEMMA ArrangedIs ==
  ASSUME NEW r, NEW nodes \in SUBSET Endpoint, EveryEndpoint(recency)
  PROVE  /\ Arranged(r, nodes) \in Seq(Endpoint) /\ IsInjective(Arranged(r, nodes)) /\ ToSet(Arranged(r, nodes)) = nodes
         /\ (Arranged(r, nodes) = <<>>) <=> (nodes = {})
         /\ Len(Arranged(r, nodes)) = Cardinality(nodes)
         /\ \A i \in 1..Len(Arranged(r, nodes)) : RankIn(r, nodes, Arranged(r, nodes)[i]) = i - 1
<1> DEFINE n == Cardinality(nodes)
           a == Arranged(r, nodes)
<1>1. /\ IsFiniteSet(nodes) /\ n \in Nat
      /\ \A d \in nodes : RankIn(r, nodes, d) \in 0..(n - 1)
      /\ \A c, d \in nodes : RankIn(r, nodes, c) = RankIn(r, nodes, d) => c = d
      /\ \A k \in 0..(n - 1) : \E d \in nodes : RankIn(r, nodes, d) = k
  BY RanksAre
<1>2. a = [i \in 1..n |-> CHOOSE d \in nodes : RankIn(r, nodes, d) = i - 1]
  BY DEF Arranged, RankIn, Earlier
<1> HIDE DEF a, n
<1>3. ASSUME NEW i \in 1..n PROVE a[i] \in nodes /\ RankIn(r, nodes, a[i]) = i - 1
  <2>1. i - 1 \in 0..(n - 1)
    BY <1>1
  <2>2. \E d \in nodes : RankIn(r, nodes, d) = i - 1
    BY <1>1, <2>1
  <2> QED
    BY <1>2, <2>2
<1>4. a \in Seq(nodes) /\ a \in Seq(Endpoint) /\ Len(a) = n /\ DOMAIN a = 1..n
  <2>1. a \in [1..n -> nodes] /\ a \in [1..n -> Endpoint]
    BY <1>2, <1>3
  <2> QED
    BY <1>1, <2>1
<1>5. IsInjective(a)
  <2>1. ASSUME NEW i \in 1..n, NEW j \in 1..n, a[i] = a[j] PROVE i = j
    <3>1. i - 1 = j - 1
      BY <1>3, <2>1
    <3> QED
      BY <1>1, <3>1
  <2> QED
    BY <1>4, <2>1 DEF IsInjective
<1>6. ToSet(a) = nodes
  <2>1. ASSUME NEW d \in nodes PROVE \E i \in 1..n : a[i] = d
    <3>1. RankIn(r, nodes, d) + 1 \in 1..n
      BY <1>1
    <3>2. RankIn(r, nodes, a[RankIn(r, nodes, d) + 1]) = RankIn(r, nodes, d) /\ a[RankIn(r, nodes, d) + 1] \in nodes
      BY <1>1, <1>3, <3>1
    <3> QED
      BY <1>1, <3>1, <3>2
  <2> QED
    BY <1>3, <1>4, <2>1 DEF ToSet
<1>7. (a = <<>>) <=> (nodes = {})
  <2>1. (n = 0) <=> (nodes = {})
    BY <1>1, FS_EmptySet DEF n
  <2> QED
    BY <1>4, <2>1, EmptySeq
<1> QED
  BY <1>3, <1>4, <1>5, <1>6, <1>7 DEF a, n

\* A node that announces itself is the last in the order.
LEMMA RecencyIs ==
  ASSUME NEW q, EveryEndpoint(q), NEW d \in Endpoint
  PROVE  EveryEndpoint(Append(RemoveAt(q, PlaceIn(q, d)), d))
<1> DEFINE k == PlaceIn(q, d)
           n == Len(q)
           p == Append(RemoveAt(q, k), d)
<1>1. /\ q \in Seq(Endpoint) /\ n \in Nat /\ k \in 1..n /\ q[k] = d
      /\ \A i, j \in 1..n : q[i] = q[j] => i = j
      /\ \A c \in Endpoint : \E i \in 1..n : q[i] = c
  <2>1. /\ \A i \in 1..Len(q) : PlaceIn(q, q[i]) = i
        /\ \A c \in Endpoint : PlaceIn(q, c) \in 1..Len(q) /\ q[PlaceIn(q, c)] = c
        /\ Len(q) \in Nat
    BY PlacesAre
  <2>2. \A i, j \in 1..Len(q) : q[i] = q[j] => i = j
    BY <2>1
  <2> QED
    BY <2>1, <2>2 DEF EveryEndpoint
<1> HIDE DEF k
<1>0. q \in Seq(Endpoint) /\ n \in Nat /\ k \in Nat /\ 1 <= k /\ k <= n
  BY <1>1
<1>2. /\ p \in Seq(Endpoint) /\ Len(p) = n /\ p[n] = d
      /\ \A i \in 1..(k - 1) : p[i] = q[i]
      /\ \A i \in k..(n - 1) : p[i] = q[i + 1]
  <2>1. SubSeq(q, 1, k - 1) \in Seq(Endpoint) /\ Len(SubSeq(q, 1, k - 1)) = k - 1
        /\ \A i \in 1..(k - 1) : SubSeq(q, 1, k - 1)[i] = q[i]
    <3>1. SubSeq(q, 1, k - 1) \in Seq(Endpoint)
      BY <1>0
    <3>2. Len(SubSeq(q, 1, k - 1)) = k - 1
      BY <1>0
    <3>3. ASSUME NEW i \in 1..(k - 1) PROVE SubSeq(q, 1, k - 1)[i] = q[i]
      BY <1>0
    <3> QED
      BY <3>1, <3>2, <3>3
  <2>2. SubSeq(q, k + 1, n) \in Seq(Endpoint) /\ Len(SubSeq(q, k + 1, n)) = n - k
        /\ \A i \in 1..(n - k) : SubSeq(q, k + 1, n)[i] = q[k + i]
    <3>1. SubSeq(q, k + 1, n) \in Seq(Endpoint)
      BY <1>0
    <3>2. Len(SubSeq(q, k + 1, n)) = n - k
      BY <1>0
    <3>3. ASSUME NEW i \in 1..(n - k) PROVE SubSeq(q, k + 1, n)[i] = q[k + i]
      BY <1>0
    <3> QED
      BY <3>1, <3>2, <3>3
  <2> DEFINE a == SubSeq(q, 1, k - 1)
             b == SubSeq(q, k + 1, n)
  <2> HIDE DEF a, b
  <2>3. /\ a \o b \in Seq(Endpoint) /\ Len(a \o b) = n - 1
        /\ \A i \in 1..(k - 1) : (a \o b)[i] = q[i]
        /\ \A i \in k..(n - 1) : (a \o b)[i] = q[i + 1]
    <3>1. a \in Seq(Endpoint) /\ b \in Seq(Endpoint) /\ Len(a) = k - 1 /\ Len(b) = n - k
      BY <2>1, <2>2 DEF a, b
    <3>2. a \o b \in Seq(Endpoint) /\ Len(a \o b) = n - 1
      BY <1>0, <3>1
    <3>3. ASSUME NEW i \in 1..(k - 1) PROVE (a \o b)[i] = q[i]
      BY <1>1, <2>1, <3>1, <3>3 DEF a
    <3>4. ASSUME NEW i \in k..(n - 1) PROVE (a \o b)[i] = q[i + 1]
      <4>0. i \in Nat /\ k <= i /\ i <= n - 1
        BY <1>0, <3>4
      <4>2. i - (k - 1) \in 1..(n - k) /\ k + (i - (k - 1)) = i + 1
        BY <1>0, <4>0
      <4>3. (a \o b)[i] = b[i - (k - 1)]
        BY <1>0, <3>1, <4>0
      <4>1. i - (k - 1) \in 1..(n - k) /\ (a \o b)[i] = b[i - (k - 1)] /\ k + (i - (k - 1)) = i + 1
        BY <4>2, <4>3
      <4> QED
        BY <2>2, <4>1 DEF b
    <3> QED
      BY <3>2, <3>3, <3>4
  <2>4. p = Append(a \o b, d)
    BY DEF RemoveAt, a, b
  <2> DEFINE m == a \o b
  <2> HIDE DEF m, p
  <2>5. /\ m \in Seq(Endpoint) /\ Len(m) = n - 1 /\ p = Append(m, d)
        /\ \A i \in 1..(k - 1) : m[i] = q[i]
        /\ \A i \in k..(n - 1) : m[i] = q[i + 1]
    BY <2>3, <2>4 DEF m
  <2>6. p \in Seq(Endpoint) /\ Len(p) = n /\ p[n] = d /\ \A i \in 1..(n - 1) : p[i] = m[i]
    BY <1>1, <2>5
  <2> QED
    BY <1>1, <2>5, <2>6
<1> HIDE DEF p
<1>3. ASSUME NEW i \in 1..n PROVE p[i] = q[IF i = n THEN k ELSE IF i < k THEN i ELSE i + 1]
  <2>1. CASE i = n
    BY <1>1, <1>2, <2>1
  <2>2. CASE i # n /\ i < k
    <3>1. i \in 1..(k - 1)
      BY <1>0, <2>2
    <3> QED
      BY <1>2, <2>2, <3>1
  <2>3. CASE i # n /\ ~(i < k)
    <3>1. i \in k..(n - 1)
      BY <1>0, <2>3
    <3> QED
      BY <1>2, <2>3, <3>1
  <2> QED
    BY <2>1, <2>2, <2>3
<1>4. IsInjective(p)
  <2>1. DOMAIN p = 1..n
    BY <1>2
  <2>2. ASSUME NEW i \in 1..n, NEW j \in 1..n, p[i] = p[j] PROVE i = j
    <3> DEFINE at1(x) == IF x = n THEN k ELSE IF x < k THEN x ELSE x + 1
    <3>1. at1(i) \in 1..n /\ at1(j) \in 1..n
      BY <1>0
    <3>2. p[i] = q[at1(i)] /\ p[j] = q[at1(j)]
      BY <1>3
    <3> DEFINE x == at1(i)
               y == at1(j)
    <3>3. x = y
      <4>1. x \in 1..n /\ y \in 1..n /\ q[x] = q[y]
        BY <2>2, <3>1, <3>2
      <4> HIDE DEF x, y
      <4> QED
        BY <1>1, <4>1
    <3> QED
      BY <1>0, <3>3
  <2> QED
    BY <2>1, <2>2 DEF IsInjective
<1>5. ToSet(p) = Endpoint
  <2>1. ASSUME NEW c \in Endpoint PROVE \E i \in 1..n : p[i] = c
    <3>1. PICK j \in 1..n : q[j] = c
      BY <1>1
    <3>2. CASE j = k
      BY <1>1, <1>2, <3>1, <3>2
    <3>3. CASE j < k
      <4>1. j \in 1..(k - 1) /\ j \in 1..n
        BY <1>1, <3>3
      <4> QED
        BY <1>2, <3>1, <4>1
    <3>4. CASE j > k
      <4>1. j - 1 \in k..(n - 1) /\ j - 1 \in 1..n /\ (j - 1) + 1 = j
        BY <1>1, <3>4
      <4> QED
        BY <1>2, <3>1, <4>1
    <3> QED
      BY <1>1, <3>2, <3>3, <3>4
  <2>2. DOMAIN p = 1..n /\ \A i \in 1..n : p[i] \in Endpoint
    BY <1>2
  <2> QED
    BY <2>1, <2>2 DEF ToSet
<1> QED
  BY <1>2, <1>4, <1>5 DEF EveryEndpoint, p, k

-----------------------------------------------------------------------------
(* What a table holds, and how it is built.                                 *)

TableState == [holds : SUBSET Endpoint, filter : Text, lost : BOOLEAN, stale : BOOLEAN,
               by : {"announce", "name"}, reverse : BOOLEAN, rows : Seq(Endpoint), cursor : Nat]

\* The rows are of what the table holds, each once, and the cursor is on one.
RowsInPlace(r) ==
    /\ IsInjective(r.rows) /\ ToSet(r.rows) \subseteq r.holds
    /\ IF r.rows = <<>> THEN r.cursor = 0 ELSE r.cursor \in DOMAIN r.rows

LEMMA RebuiltIs ==
  ASSUME NEW r \in TableState, EveryEndpoint(recency)
  PROVE  /\ Rebuilt(r) \in TableState /\ RowsInPlace(Rebuilt(r))
         /\ Rebuilt(r).holds = r.holds /\ Rebuilt(r).filter = r.filter
         /\ KeyOf(Rebuilt(r)) = IF KeyOf(r) \in ToSet(Rebuilt(r).rows) THEN KeyOf(r)
                                ELSE IF Rebuilt(r).rows = <<>> THEN NoNode ELSE Rebuilt(r).rows[1]
<1> DEFINE nodes == {d \in r.holds : Visible(r, d)}
           q == Arranged(r, nodes)
           key == KeyOf(r)
           same == {i \in DOMAIN q : q[i] = key}
           cursor == IF q = <<>> THEN 0 ELSE IF same = {} THEN 1 ELSE CHOOSE i \in same : TRUE
<1>1. nodes \in SUBSET Endpoint /\ nodes \subseteq r.holds
  BY DEF TableState
<1>2. q \in Seq(Endpoint) /\ IsInjective(q) /\ ToSet(q) = nodes
  BY <1>1, ArrangedIs
<1>3. Rebuilt(r) = [r EXCEPT !.rows = q, !.cursor = cursor]
  BY DEF Rebuilt
<1> HIDE DEF q, nodes, key
<1>4. DOMAIN q = 1..Len(q) /\ Len(q) \in Nat /\ (q # <<>> => 1 \in DOMAIN q)
  <2>1. DOMAIN q = 1..Len(q) /\ Len(q) \in Nat
    BY <1>2
  <2>2. q # <<>> => Len(q) # 0
    BY <1>2, EmptySeq
  <2> QED
    BY <2>1, <2>2
<1>5. (IF q = <<>> THEN cursor = 0 ELSE cursor \in DOMAIN q) /\ cursor \in Nat
  <2>1. CASE q = <<>>
    BY <2>1
  <2>2. CASE q # <<>> /\ same = {}
    BY <1>4, <2>2
  <2>3. CASE q # <<>> /\ same # {}
    <3>1. cursor \in same
      BY <2>3
    <3> HIDE DEF cursor
    <3> QED
      BY <1>4, <2>3, <3>1
  <2> QED
    BY <2>1, <2>2, <2>3
<1>6. (IF q = <<>> THEN NoNode ELSE q[cursor]) = IF key \in ToSet(q) THEN key ELSE IF q = <<>> THEN NoNode ELSE q[1]
  <2>1. (key \in ToSet(q)) <=> (same # {})
    BY DEF ToSet
  <2>2. CASE q = <<>>
    <3>1. same = {}
      BY <2>2
    <3> QED
      BY <2>1, <2>2, <3>1
  <2>3. CASE q # <<>> /\ same = {}
    BY <2>1, <2>3
  <2>4. CASE q # <<>> /\ same # {}
    <3>1. cursor \in same
      BY <2>4
    <3> HIDE DEF cursor
    <3>2. q[cursor] = key
      BY <3>1
    <3> QED
      BY <2>1, <2>4, <3>2
  <2> QED
    BY <2>2, <2>3, <2>4
<1> HIDE DEF cursor
<1>7. Rebuilt(r) \in TableState
  BY <1>2, <1>3, <1>5 DEF TableState
<1>8. /\ Rebuilt(r).rows = q /\ Rebuilt(r).cursor = cursor
      /\ Rebuilt(r).holds = r.holds /\ Rebuilt(r).filter = r.filter
  BY <1>3 DEF TableState
<1>9. RowsInPlace(Rebuilt(r))
  BY <1>1, <1>2, <1>5, <1>8 DEF RowsInPlace
<1>10. KeyOf(Rebuilt(r)) = IF q = <<>> THEN NoNode ELSE q[cursor]
  BY <1>8 DEF KeyOf
<1> QED
  BY <1>6, <1>7, <1>8, <1>9, <1>10 DEF key

\* The conditions of TablesAgree on what the tables hold.
HoldTogether(h) ==
    /\ \A c \in h["styrene"], d \in h["lxmf"] : WhoseIs[c] # WhoseIs[d]
    /\ \A c, d \in h["styrene"] : WhoseIs[c] = WhoseIs[d] => c = d
    /\ \A d \in h["pages"] : TypeOf[d] = "styrene" => \E c \in h["styrene"] : WhoseIs[c] = WhoseIs[d]

LEMMA FleetIs ==
  ASSUME EveryEndpoint(recency), NEW styreneNodes \in SUBSET Endpoint
  PROVE  /\ Fleet(styreneNodes) \subseteq styreneNodes
         /\ \A c, d \in Fleet(styreneNodes) : WhoseIs[c] = WhoseIs[d] => c = d
         /\ \A d \in styreneNodes : \E c \in Fleet(styreneNodes) : WhoseIs[c] = WhoseIs[d]
<1> DEFINE Later(c, d) == \E i, j \in DOMAIN recency : recency[i] = d /\ recency[j] = c /\ i < j
           at1(d) == PlaceIn(recency, d)
<1>1. Fleet(styreneNodes) = {d \in styreneNodes : \A c \in styreneNodes : WhoseIs[c] = WhoseIs[d] => ~Later(c, d)}
  BY DEF Fleet
<1>2. /\ \A d \in Endpoint : at1(d) \in 1..Len(recency) /\ recency[at1(d)] = d
      /\ \A i \in 1..Len(recency) : recency[i] \in Endpoint /\ at1(recency[i]) = i
      /\ \A c, d \in Endpoint : at1(c) = at1(d) => c = d
      /\ Len(recency) \in Nat /\ DOMAIN recency = 1..Len(recency)
  BY PlacesAre
<1> HIDE DEF at1
<1>3. ASSUME NEW c \in Endpoint, NEW d \in Endpoint PROVE Later(c, d) <=> at1(d) < at1(c)
  BY <1>2
<1> HIDE DEF Later
<1>4. ASSUME NEW c \in Fleet(styreneNodes), NEW d \in Fleet(styreneNodes), WhoseIs[c] = WhoseIs[d] PROVE c = d
  <2>1. ~(at1(d) < at1(c)) /\ ~(at1(c) < at1(d)) /\ c \in Endpoint /\ d \in Endpoint
    BY <1>1, <1>3, <1>4
  <2>2. at1(c) = at1(d)
    BY <1>2, <2>1
  <2> QED
    BY <1>2, <2>1, <2>2
<1>5. ASSUME NEW d \in styreneNodes PROVE \E c \in Fleet(styreneNodes) : WhoseIs[c] = WhoseIs[d]
  <2> DEFINE S == {c \in styreneNodes : WhoseIs[c] = WhoseIs[d]}
             r == [by |-> "announce", reverse |-> TRUE]
  <2>1. S \in SUBSET Endpoint /\ d \in S
    OBVIOUS
  <2>2. /\ IsFiniteSet(S) /\ Cardinality(S) \in Nat
        /\ \A k \in 0..(Cardinality(S) - 1) : \E e \in S : RankIn(r, S, e) = k
    BY <2>1, RanksAre
  <2>3. Cardinality(S) # 0
    <3> HIDE DEF S
    <3> QED
      BY <2>1, <2>2, FS_EmptySet
  <2>4. PICK e \in S : RankIn(r, S, e) = 0
    <3> HIDE DEF S, r
    <3>1. 0 \in 0..(Cardinality(S) - 1)
      BY <2>2, <2>3
    <3> QED
      BY <2>2, <3>1
  <2>5. Earlier(r, S, e) = {}
    <3>1. Earlier(r, S, e) \in SUBSET S
      BY DEF Earlier
    <3>2. IsFiniteSet(Earlier(r, S, e))
      BY <2>2, <3>1, FS_Subset
    <3> QED
      BY <2>4, <3>2, FS_EmptySet DEF RankIn
  <2>6. ASSUME NEW c \in S PROVE ~Later(c, e)
    <3>1. ~Before(r, c, e)
      BY <2>5 DEF Earlier
    <3>2. Before(r, c, e) <=> PlaceIn(recency, e) < PlaceIn(recency, c)
      BY DEF Before
    <3> QED
      BY <1>3, <2>1, <3>1, <3>2 DEF at1
  <2>7. e \in Fleet(styreneNodes)
    BY <1>1, <2>6
  <2> QED
    BY <2>7
<1> QED
  BY <1>1, <1>4, <1>5

LEMMA HoldsAre ==
  ASSUME EveryEndpoint(recency), cachedNodes \subseteq Endpoint
  PROVE  /\ \A t \in Table : Holds(t) \subseteq Endpoint
         /\ HoldTogether([t \in Table |-> Holds(t)])
<1> DEFINE styreneNodes == {d \in cachedNodes : TypeOf[d] = "styrene"}
           h == [t \in Table |-> Holds(t)]
<1>1. /\ Fleet(styreneNodes) \subseteq styreneNodes
      /\ \A c, d \in Fleet(styreneNodes) : WhoseIs[c] = WhoseIs[d] => c = d
      /\ \A d \in styreneNodes : \E c \in Fleet(styreneNodes) : WhoseIs[c] = WhoseIs[d]
  <2>1. styreneNodes \in SUBSET Endpoint
    OBVIOUS
  <2> QED
    BY <2>1, FleetIs
<1>2. /\ Holds("styrene") = Fleet(styreneNodes)
      /\ Holds("pages") = {d \in cachedNodes : TypeOf[d] = "pages"} \cup (styreneNodes \cap WithPages)
      /\ Holds("lxmf") = {d \in cachedNodes : TypeOf[d] = "lxmf" /\ \A c \in styreneNodes : WhoseIs[c] # WhoseIs[d]}
  BY DEF Holds
<1>3. h["styrene"] = Holds("styrene") /\ h["pages"] = Holds("pages") /\ h["lxmf"] = Holds("lxmf")
  BY DEF Table
<1>4. Holds("styrene") \subseteq Endpoint /\ Holds("pages") \subseteq Endpoint /\ Holds("lxmf") \subseteq Endpoint
  BY <1>1, <1>2
<1>5. \A d \in Holds("pages") : TypeOf[d] = "styrene" => d \in styreneNodes
  BY <1>2
<1> HIDE DEF h
<1>6. HoldTogether(h)
  <2>1. \A c \in h["styrene"], d \in h["lxmf"] : WhoseIs[c] # WhoseIs[d]
    BY <1>1, <1>2, <1>3
  <2>2. \A c, d \in h["styrene"] : WhoseIs[c] = WhoseIs[d] => c = d
    BY <1>1, <1>2, <1>3
  <2>3. \A d \in h["pages"] : TypeOf[d] = "styrene" => \E c \in h["styrene"] : WhoseIs[c] = WhoseIs[d]
    BY <1>1, <1>2, <1>3, <1>5
  <2> QED
    BY <2>1, <2>2, <2>3 DEF HoldTogether
<1> QED
  BY <1>4, <1>6 DEF h, Table

-----------------------------------------------------------------------------
(* The invariant of the tables.                                             *)

Post == [kind : {"updated", "submitted"}] \cup [kind : {"changed"}, text : Text]
        \cup [kind : {"activated"}, early : BOOLEAN]
        \cup [kind : {"selected"}, key : Endpoint \cup {NoNode}, from : Table]

\* The cache, the bar, what is under way and the counters.
CacheInv ==
    /\ cachedNodes \subseteq Endpoint /\ EveryEndpoint(recency) /\ statusOf \in [Endpoint -> {"active", "stale", "lost"}]
BarInv ==
    /\ tab \in Table \cup {"diagnostics"} /\ searchBar \in [shown : BOOLEAN, text : Text]
    /\ inFront \in BOOLEAN /\ strayed \in BOOLEAN /\ disturbed \in BOOLEAN
    /\ detail.node \in Endpoint \cup {NoNode}
PostsInv == posted \in Seq(Post) /\ Len(posted) <= MaxPosts
ActsInv == acts \in 0..MaxActs /\ news \in 0..MaxNews

\* The cursor of each table is on the node that is wanted.
TableRowsInv ==
    /\ table \in [Table -> TableState] /\ wanted \in [Table -> Endpoint \cup {NoNode}]
    /\ \A t \in Table : RowsInPlace(table[t]) /\ KeyOf(table[t]) = wanted[t]
HoldsInv == HoldTogether([t \in Table |-> table[t].holds])

Pending(q, kind) == \E i \in DOMAIN q : q[i].kind = kind

\* The last change under way is of the text the bar has.
LastSays(q, text) ==
    \A i \in DOMAIN q : q[i].kind = "changed" => q[i].text = text \/ \E j \in DOMAIN q : i < j /\ q[j].kind = "changed"

\* A tab was opened early if a change or what was sent is before it.
EarlyIsKnown(q) ==
    \A i \in DOMAIN q : q[i].kind = "activated" /\ ~q[i].early =>
        \A j \in DOMAIN q : j < i => q[j].kind # "changed" /\ q[j].kind # "submitted"

\* The first tab under way was not opened early.
FirstIsCalm(q) ==
    \E i \in DOMAIN q : /\ q[i].kind = "activated" /\ ~q[i].early
                        /\ \A j \in DOMAIN q : j < i => q[j].kind # "activated"

\* While no tab is under way only the open table is filtered, and by the bar once no
\* change is under way; with the bar hidden and empty a tab that was not opened
\* early finds no filters.
FilteredBy(q, isShown, text, tables, onTab, left) ==
    /\ LastSays(q, text) /\ EarlyIsKnown(q)
    /\ ~left /\ ~Pending(q, "activated") =>
          /\ \A t \in Table : t # onTab => tables[t].filter = ""
          /\ onTab \in Table /\ ~Pending(q, "changed") => tables[onTab].filter = text
    /\ ~left /\ ~isShown /\ text = "" /\ FirstIsCalm(q) => \A t \in Table : tables[t].filter = ""
FiltersInv == FilteredBy(posted, searchBar.shown, searchBar.text, table, tab, strayed)

\* A selected row is still in the open table while nothing was disturbed.
SelectedInv ==
    ~disturbed => \A i \in DOMAIN posted : posted[i].kind = "selected" =>
        posted[i].from = tab /\ tab \in Table /\ posted[i].key \in table[tab].holds
OpenedInv ==
    detail # NoDetail =>
        \/ detail.node = detail.key /\ detail.whose = WhoseIs[detail.key]
        \/ detail.key = NoNode \/ (disturbed /\ ~inFront)

TablesInv == CacheInv /\ BarInv /\ PostsInv /\ ActsInv /\ TableRowsInv /\ HoldsInv /\ FiltersInv /\ SelectedInv /\ OpenedInv

-----------------------------------------------------------------------------
(* Building the tables keeps the rows in place.                             *)

\* A table that stays, or is built from its rows.
BuiltFrom(x, y) ==
    \/ y = x
    \/ \E r \in TableState : y = Rebuilt(r) /\ r.rows = x.rows /\ r.cursor = x.cursor

LEMMA FollowsKeeps ==
  ASSUME EveryEndpoint(recency), TableRowsInv, NEW new, Follows(new),
         DOMAIN new = Table, new = [t \in Table |-> new[t]], \A t \in Table : BuiltFrom(table[t], new[t])
  PROVE  TableRowsInv'
<1>1. table' = new /\ DOMAIN new = Table
  BY DEF Follows
<1>2. ASSUME NEW t \in Table
      PROVE  /\ new[t] \in TableState /\ RowsInPlace(new[t])
             /\ wanted'[t] = KeyOf(new[t]) /\ wanted'[t] \in Endpoint \cup {NoNode}
  <2>0. /\ table[t] \in TableState /\ RowsInPlace(table[t]) /\ KeyOf(table[t]) = wanted[t]
        /\ wanted[t] \in Endpoint \cup {NoNode}
    BY DEF TableRowsInv
  <2>1. wanted'[t] = IF wanted[t] \in ToSet(new[t].rows) THEN wanted[t]
                     ELSE IF new[t].rows = <<>> THEN NoNode ELSE new[t].rows[1]
    BY DEF Follows
  <2>2. /\ new[t] \in TableState /\ RowsInPlace(new[t])
        /\ KeyOf(new[t]) = IF KeyOf(table[t]) \in ToSet(new[t].rows) THEN KeyOf(table[t])
                           ELSE IF new[t].rows = <<>> THEN NoNode ELSE new[t].rows[1]
    <3>1. CASE new[t] = table[t]
      <4> DEFINE q == table[t].rows
      <4>1. q = <<>> => KeyOf(table[t]) = NoNode /\ ToSet(q) = {}
        BY DEF KeyOf, ToSet
      <4>2. q # <<>> => KeyOf(table[t]) \in ToSet(q)
        BY <2>0 DEF KeyOf, RowsInPlace, ToSet
      <4> QED
        BY <2>0, <3>1, <4>1, <4>2
    <3>2. CASE new[t] # table[t]
      <4>1. PICK r \in TableState : new[t] = Rebuilt(r) /\ r.rows = table[t].rows /\ r.cursor = table[t].cursor
        BY <3>2 DEF BuiltFrom
      <4>2. KeyOf(r) = KeyOf(table[t])
        BY <4>1 DEF KeyOf
      <4> QED
        BY <4>1, <4>2, RebuiltIs
    <3> QED
      BY <3>1, <3>2
  <2>3. KeyOf(new[t]) \in Endpoint \cup {NoNode}
    <3> DEFINE x == new[t]
    <3>1. x.rows \in Seq(Endpoint) /\ (x.rows # <<>> => x.cursor \in DOMAIN x.rows)
      BY <2>2 DEF TableState, RowsInPlace
    <3>2. KeyOf(x) = IF x.rows = <<>> THEN NoNode ELSE x.rows[x.cursor]
      BY DEF KeyOf
    <3> HIDE DEF x
    <3>3. \A i \in DOMAIN x.rows : x.rows[i] \in Endpoint
      BY <3>1
    <3> QED
      BY <3>1, <3>2, <3>3 DEF x
  <2> QED
    BY <2>0, <2>1, <2>2, <2>3
<1>3. table' \in [Table -> TableState]
  BY <1>1, <1>2
<1>4. wanted' \in [Table -> Endpoint \cup {NoNode}]
  <2>1. wanted' = [t \in Table |-> wanted'[t]]
    BY DEF Follows
  <2> QED
    BY <1>2, <2>1
<1> QED
  BY <1>1, <1>2, <1>3, <1>4 DEF TableRowsInv, RowsInPlace, KeyOf

\* The open table is built from its rows, and holds the same.
LEMMA OnTableDoes ==
  ASSUME EveryEndpoint(recency), TableRowsInv, NEW r \in TableState, OnTable(r),
         r.rows = table[tab].rows, r.cursor = table[tab].cursor, r.holds = table[tab].holds
  PROVE  /\ tab \in Table /\ TableRowsInv'
         /\ \A t \in Table : table'[t].holds = table[t].holds
         /\ \A t \in Table : table'[t].filter = IF t = tab THEN r.filter ELSE table[t].filter
<1> DEFINE new == [table EXCEPT ![tab] = Rebuilt(r)]
<1>1. tab \in Table /\ Follows(new) /\ table' = new
  BY DEF OnTable, Follows
<1>2. DOMAIN table = Table
  BY DEF TableRowsInv
<1>3. \A t \in Table : new[t] = IF t = tab THEN Rebuilt(r) ELSE table[t]
  BY <1>2
<1>4. \A t \in Table : BuiltFrom(table[t], new[t])
  BY <1>3 DEF BuiltFrom
<1>5. new = [t \in Table |-> new[t]] /\ DOMAIN new = Table
  BY <1>2
<1>6. Rebuilt(r).holds = r.holds /\ Rebuilt(r).filter = r.filter
  BY RebuiltIs
<1> HIDE DEF new
<1>7. TableRowsInv'
  BY <1>1, <1>4, <1>5, FollowsKeeps
<1> QED
  BY <1>1, <1>3, <1>6, <1>7

\* All tables are built from their rows, with what the cache has for them.
LEMMA LoadedDoes ==
  ASSUME CacheInv, TableRowsInv, Follows(Loaded)
  PROVE  /\ TableRowsInv' /\ HoldsInv'
         /\ \A t \in Table : table'[t].filter = table[t].filter
<1>1. table' = Loaded /\ \A t \in Table : Holds(t) \subseteq Endpoint
  BY HoldsAre DEF Follows, CacheInv
<1>2. ASSUME NEW t \in Table
      PROVE  /\ BuiltFrom(table[t], Loaded[t])
             /\ Loaded[t].holds = Holds(t) /\ Loaded[t].filter = table[t].filter
  <2> DEFINE r == [table[t] EXCEPT !.holds = Holds(t)]
  <2>1. table[t] \in TableState
    BY DEF TableRowsInv
  <2>2. /\ r \in TableState /\ r.rows = table[t].rows /\ r.cursor = table[t].cursor
        /\ r.holds = Holds(t) /\ r.filter = table[t].filter
    BY <1>1, <2>1 DEF TableState
  <2>3. Loaded[t] = Rebuilt(r)
    BY DEF Loaded
  <2> HIDE DEF r
  <2>4. Rebuilt(r).holds = r.holds /\ Rebuilt(r).filter = r.filter
    BY <2>2, RebuiltIs DEF CacheInv
  <2> QED
    BY <2>2, <2>3, <2>4 DEF BuiltFrom
<1>3. DOMAIN Loaded = Table /\ Loaded = [t \in Table |-> Loaded[t]]
  BY DEF Loaded
<1>4. TableRowsInv'
  BY <1>2, <1>3, FollowsKeeps DEF CacheInv
<1>5. HoldsInv'
  <2>1. \A t \in Table : table'[t].holds = Holds(t)
    BY <1>1, <1>2
  <2>2. [t \in Table |-> table'[t].holds] = [t \in Table |-> Holds(t)]
    BY <2>1
  <2>3. HoldTogether([t \in Table |-> Holds(t)])
    BY HoldsAre DEF CacheInv
  <2> QED
    BY <2>2, <2>3 DEF HoldsInv, HoldTogether
<1> QED
  BY <1>1, <1>2, <1>4, <1>5

LEMMA ClearedDoes ==
  ASSUME EveryEndpoint(recency), TableRowsInv, Follows([t \in Table |-> Rebuilt([table[t] EXCEPT !.filter = ""])])
  PROVE  /\ TableRowsInv'
         /\ \A t \in Table : table'[t].holds = table[t].holds
         /\ \A t \in Table : table'[t].filter = ""
<1> DEFINE new == [t \in Table |-> Rebuilt([table[t] EXCEPT !.filter = ""])]
<1>1. Follows(new) /\ table' = new
  BY DEF Follows
<1>2. ASSUME NEW t \in Table
      PROVE  BuiltFrom(table[t], new[t]) /\ new[t].holds = table[t].holds /\ new[t].filter = ""
  <2> DEFINE r == [table[t] EXCEPT !.filter = ""]
  <2>1. table[t] \in TableState
    BY DEF TableRowsInv
  <2>2. /\ r \in TableState /\ r.rows = table[t].rows /\ r.cursor = table[t].cursor
        /\ r.holds = table[t].holds /\ r.filter = ""
    BY <2>1 DEF TableState, Text
  <2>3. new[t] = Rebuilt(r)
    OBVIOUS
  <2> HIDE DEF r
  <2>4. Rebuilt(r).holds = r.holds /\ Rebuilt(r).filter = r.filter
    BY <2>2, RebuiltIs
  <2> QED
    BY <2>2, <2>3, <2>4 DEF BuiltFrom
<1>3. DOMAIN new = Table /\ new = [t \in Table |-> new[t]]
  OBVIOUS
<1> HIDE DEF new
<1>4. TableRowsInv'
  BY <1>1, <1>2, <1>3, FollowsKeeps
<1> QED
  BY <1>1, <1>2, <1>4

LEMMA HoldsStay ==
  ASSUME HoldsInv, \A t \in Table : table'[t].holds = table[t].holds
  PROVE  HoldsInv'
<1>1. [t \in Table |-> table'[t].holds] = [t \in Table |-> table[t].holds]
  OBVIOUS
<1> QED
  BY <1>1 DEF HoldsInv, HoldTogether

-----------------------------------------------------------------------------
(* What is under way.                                                       *)

LEMMA PostsAre ==
  /\ [kind |-> "updated"] \in Post /\ [kind |-> "submitted"] \in Post
  /\ \A text \in Text : [kind |-> "changed", text |-> text] \in Post
  /\ \A soon \in BOOLEAN : [kind |-> "activated", early |-> soon] \in Post
  /\ \A key \in Endpoint \cup {NoNode}, t \in Table : [kind |-> "selected", key |-> key, from |-> t] \in Post
  /\ \A m \in Post : m.kind = "changed" => m.text \in Text
  /\ \A m \in Post : m.kind = "activated" => m.early \in BOOLEAN
<1>1. [kind |-> "updated"] \in Post /\ [kind |-> "submitted"] \in Post
  BY DEF Post
<1>2. ASSUME NEW text \in Text PROVE [kind |-> "changed", text |-> text] \in Post
  BY DEF Post
<1>3. ASSUME NEW soon \in BOOLEAN PROVE [kind |-> "activated", early |-> soon] \in Post
  BY DEF Post
<1>4. ASSUME NEW key \in Endpoint \cup {NoNode}, NEW t \in Table PROVE [kind |-> "selected", key |-> key, from |-> t] \in Post
  BY DEF Post
<1>5. ASSUME NEW m \in Post, m.kind = "changed" PROVE m.text \in Text
  BY <1>5 DEF Post
<1>6. ASSUME NEW m \in Post, m.kind = "activated" PROVE m.early \in BOOLEAN
  BY <1>6 DEF Post
<1> QED
  BY <1>1, <1>2, <1>3, <1>4, <1>5, <1>6

LEMMA PostAppended ==
  ASSUME NEW q \in Seq(Post), NEW m \in Post
  PROVE  /\ Append(q, m) \in Seq(Post) /\ Len(Append(q, m)) = Len(q) + 1
         /\ \A kind : Pending(Append(q, m), kind) <=> Pending(q, kind) \/ m.kind = kind
         /\ \A i \in DOMAIN Append(q, m) : (i \in DOMAIN q /\ Append(q, m)[i] = q[i]) \/ Append(q, m)[i] = m
<1> DEFINE p == Append(q, m)
<1>1. /\ p \in Seq(Post) /\ Len(p) = Len(q) + 1 /\ Len(q) \in Nat
      /\ DOMAIN p = 1..Len(q) + 1 /\ DOMAIN q = 1..Len(q)
      /\ p[Len(q) + 1] = m
  OBVIOUS
<1>2. \A i \in 1..Len(q) : p[i] = q[i]
  OBVIOUS
<1> HIDE DEF p
<1>3. ASSUME NEW i \in DOMAIN p PROVE (i \in DOMAIN q /\ p[i] = q[i]) \/ p[i] = m
  <2>1. i \in 1..Len(q) \/ i = Len(q) + 1
    BY <1>1
  <2> QED
    BY <1>1, <1>2, <2>1
<1>4. \A i \in DOMAIN q : i \in DOMAIN p /\ p[i] = q[i]
  BY <1>1, <1>2
<1>5. Len(q) + 1 \in DOMAIN p
  BY <1>1
<1>6. ASSUME NEW kind PROVE Pending(p, kind) <=> Pending(q, kind) \/ m.kind = kind
  BY <1>1, <1>3, <1>4, <1>5 DEF Pending
<1> QED
  BY <1>1, <1>3, <1>6 DEF p

LEMMA PostTaken ==
  ASSUME NEW q \in Seq(Post), q # <<>>
  PROVE  /\ Tail(q) \in Seq(Post) /\ Len(Tail(q)) = Len(q) - 1 /\ Head(q) \in Post /\ Len(q) \in Nat
         /\ \A kind : Pending(q, kind) <=> Pending(Tail(q), kind) \/ Head(q).kind = kind
         /\ \A i \in DOMAIN Tail(q) : i + 1 \in DOMAIN q /\ Tail(q)[i] = q[i + 1] /\ i \in Nat
         /\ \A i \in DOMAIN q : i = 1 \/ i - 1 \in DOMAIN Tail(q)
         /\ 1 \in DOMAIN q /\ q[1] = Head(q) /\ DOMAIN q \subseteq Nat
<1> DEFINE p == Tail(q)
<1>0. Len(q) \in Nat /\ Len(q) # 0
  BY EmptySeq
<1>1. /\ p \in Seq(Post) /\ Len(p) = Len(q) - 1 /\ Head(q) \in Post
      /\ DOMAIN p = 1..(Len(q) - 1) /\ DOMAIN q = 1..Len(q)
      /\ Head(q) = q[1]
  BY <1>0
<1>2. ASSUME NEW i \in 1..(Len(q) - 1) PROVE p[i] = q[i + 1]
  BY <1>0
<1> HIDE DEF p
<1>3. \A i \in DOMAIN p : i + 1 \in DOMAIN q /\ p[i] = q[i + 1] /\ i \in Nat
  BY <1>0, <1>1, <1>2
<1>4. 1 \in DOMAIN q /\ q[1] = Head(q) /\ DOMAIN q \subseteq Nat
  BY <1>0, <1>1
<1>5. \A i \in DOMAIN q : i = 1 \/ (i - 1 \in DOMAIN p /\ (i - 1) + 1 = i)
  BY <1>0, <1>1
<1>6. ASSUME NEW kind PROVE Pending(q, kind) <=> Pending(p, kind) \/ Head(q).kind = kind
  <2>1. Pending(p, kind) => Pending(q, kind)
    BY <1>3 DEF Pending
  <2>2. Head(q).kind = kind => Pending(q, kind)
    BY <1>4 DEF Pending
  <2>3. ASSUME Pending(q, kind) PROVE Pending(p, kind) \/ Head(q).kind = kind
    <3>1. PICK i \in DOMAIN q : q[i].kind = kind
      BY <2>3 DEF Pending
    <3>2. CASE i = 1
      BY <1>4, <3>1, <3>2
    <3>3. CASE i # 1
      <4>1. i - 1 \in DOMAIN p /\ p[i - 1] = q[i]
        BY <1>3, <1>5, <3>3
      <4> QED
        BY <3>1, <4>1 DEF Pending
    <3> QED
      BY <3>2, <3>3
  <2> QED
    BY <2>1, <2>2, <2>3
<1> QED
  BY <1>0, <1>1, <1>3, <1>4, <1>5, <1>6 DEF p

\* The predicates on what is under way, as one more is posted.
LEMMA SaidAppended ==
  ASSUME NEW q \in Seq(Post), NEW m \in Post, NEW text
  PROVE  /\ m.kind = "changed" /\ m.text = text => LastSays(Append(q, m), text)
         /\ m.kind # "changed" /\ LastSays(q, text) => LastSays(Append(q, m), text)
         /\ EarlyIsKnown(q) /\ (m.kind = "activated" /\ ~m.early => ~Pending(q, "changed") /\ ~Pending(q, "submitted"))
               => EarlyIsKnown(Append(q, m))
         /\ FirstIsCalm(Append(q, m)) =>
               FirstIsCalm(q) \/ (~Pending(q, "activated") /\ m.kind = "activated" /\ ~m.early)
<1> DEFINE p == Append(q, m)
           n == Len(q) + 1
<1>1. /\ DOMAIN p = 1..n /\ DOMAIN q = 1..(n - 1) /\ n \in Nat /\ n >= 1
      /\ p[n] = m
  OBVIOUS
<1>2. \A i \in 1..(n - 1) : p[i] = q[i]
  OBVIOUS
<1> HIDE DEF p, n
<1>3. ASSUME NEW i \in DOMAIN p
      PROVE  /\ i \in Nat /\ i <= n
             /\ i = n \/ (i \in DOMAIN q /\ p[i] = q[i] /\ i < n)
  <2>1. i \in 1..n
    BY <1>1
  <2>2. i = n \/ i \in 1..(n - 1)
    BY <1>1, <2>1
  <2> QED
    BY <1>1, <1>2, <2>1, <2>2
<1>4. \A i \in DOMAIN q : i \in DOMAIN p /\ p[i] = q[i] /\ i < n /\ i \in Nat
  BY <1>1, <1>2
<1>5. n \in DOMAIN p
  BY <1>1
<1>6. ASSUME m.kind = "changed", m.text = text PROVE LastSays(p, text)
  BY <1>1, <1>3, <1>5, <1>6 DEF LastSays
<1>7. ASSUME m.kind # "changed", LastSays(q, text) PROVE LastSays(p, text)
  BY <1>1, <1>3, <1>4, <1>7 DEF LastSays
<1>8. ASSUME EarlyIsKnown(q), m.kind = "activated" /\ ~m.early => ~Pending(q, "changed") /\ ~Pending(q, "submitted")
      PROVE  EarlyIsKnown(p)
  <2>1. ASSUME NEW i \in DOMAIN p, p[i].kind = "activated", ~p[i].early, NEW j \in DOMAIN p, j < i
        PROVE  p[j].kind # "changed" /\ p[j].kind # "submitted"
    <3>1. j \in DOMAIN q /\ p[j] = q[j]
      BY <1>1, <1>3, <2>1
    <3>2. CASE i = n
      BY <1>1, <1>8, <2>1, <3>1, <3>2 DEF Pending
    <3>3. CASE i # n
      BY <1>3, <1>8, <2>1, <3>1, <3>3 DEF EarlyIsKnown
    <3> QED
      BY <3>2, <3>3
  <2> QED
    BY <2>1 DEF EarlyIsKnown
<1>9. ASSUME FirstIsCalm(p)
      PROVE  FirstIsCalm(q) \/ (~Pending(q, "activated") /\ m.kind = "activated" /\ ~m.early)
  <2>1. PICK i \in DOMAIN p : /\ p[i].kind = "activated" /\ ~p[i].early
                              /\ \A j \in DOMAIN p : j < i => p[j].kind # "activated"
    BY <1>9 DEF FirstIsCalm
  <2>2. CASE i = n
    BY <1>1, <1>4, <2>1, <2>2 DEF Pending
  <2>3. CASE i # n
    BY <1>3, <1>4, <2>1, <2>3 DEF FirstIsCalm
  <2> QED
    BY <2>2, <2>3
<1> QED
  BY <1>6, <1>7, <1>8, <1>9 DEF p

\* And as the first is taken.
LEMMA SaidTaken ==
  ASSUME NEW q \in Seq(Post), q # <<>>, NEW text
  PROVE  /\ LastSays(q, text) => LastSays(Tail(q), text)
         /\ LastSays(q, text) /\ Head(q).kind = "changed" /\ ~Pending(Tail(q), "changed") => Head(q).text = text
         /\ EarlyIsKnown(q) => EarlyIsKnown(Tail(q))
         /\ Head(q).kind # "activated" /\ FirstIsCalm(Tail(q)) => FirstIsCalm(q)
         /\ EarlyIsKnown(q) /\ FirstIsCalm(q) => Head(q).kind # "changed" /\ Head(q).kind # "submitted"
         /\ Head(q).kind = "activated" /\ ~Head(q).early => FirstIsCalm(q)
<1> DEFINE p == Tail(q)
<1>1. /\ \A i \in DOMAIN p : i + 1 \in DOMAIN q /\ p[i] = q[i + 1] /\ i \in Nat
      /\ \A i \in DOMAIN q : i = 1 \/ i - 1 \in DOMAIN p
      /\ 1 \in DOMAIN q /\ q[1] = Head(q) /\ DOMAIN q \subseteq Nat
      /\ \A i \in DOMAIN q : i >= 1
  <2>1. Len(q) \in Nat /\ DOMAIN q = 1..Len(q)
    OBVIOUS
  <2> QED
    BY <2>1, PostTaken
<1> HIDE DEF p
<1>2. ASSUME NEW i \in DOMAIN q, i # 1 PROVE i - 1 \in DOMAIN p /\ p[i - 1] = q[i] /\ i \in Nat
  BY <1>1, <1>2
<1>3. ASSUME LastSays(q, text) PROVE LastSays(p, text)
  <2>1. ASSUME NEW i \in DOMAIN p, p[i].kind = "changed", p[i].text # text
        PROVE  \E j \in DOMAIN p : i < j /\ p[j].kind = "changed"
    <3>1. PICK j \in DOMAIN q : i + 1 < j /\ q[j].kind = "changed"
      BY <1>1, <1>3, <2>1 DEF LastSays
    <3>2. j # 1 /\ i \in Nat /\ j \in Nat
      BY <1>1, <3>1
    <3>3. i < j - 1
      BY <3>1, <3>2
    <3> QED
      BY <1>2, <3>1, <3>2, <3>3
  <2> QED
    BY <2>1 DEF LastSays
<1>4. ASSUME LastSays(q, text), Head(q).kind = "changed", ~Pending(p, "changed") PROVE Head(q).text = text
  <2>1. SUFFICES ASSUME Head(q).text # text PROVE FALSE
    OBVIOUS
  <2>2. PICK j \in DOMAIN q : 1 < j /\ q[j].kind = "changed"
    BY <1>1, <1>4, <2>1 DEF LastSays
  <2>3. j # 1
    BY <2>2
  <2> QED
    BY <1>2, <1>4, <2>2, <2>3 DEF Pending
<1>5. ASSUME EarlyIsKnown(q) PROVE EarlyIsKnown(p)
  <2>1. ASSUME NEW i \in DOMAIN p, p[i].kind = "activated", ~p[i].early, NEW j \in DOMAIN p, j < i
        PROVE  p[j].kind # "changed" /\ p[j].kind # "submitted"
    <3>1. i + 1 \in DOMAIN q /\ p[i] = q[i + 1] /\ j + 1 \in DOMAIN q /\ p[j] = q[j + 1] /\ j + 1 < i + 1
      BY <1>1, <2>1
    <3> QED
      BY <1>5, <2>1, <3>1 DEF EarlyIsKnown
  <2> QED
    BY <2>1 DEF EarlyIsKnown
<1>6. ASSUME Head(q).kind # "activated", FirstIsCalm(p) PROVE FirstIsCalm(q)
  <2>1. PICK i \in DOMAIN p : /\ p[i].kind = "activated" /\ ~p[i].early
                              /\ \A j \in DOMAIN p : j < i => p[j].kind # "activated"
    BY <1>6 DEF FirstIsCalm
  <2>2. i + 1 \in DOMAIN q /\ p[i] = q[i + 1] /\ i \in Nat
    BY <1>1
  <2>3. ASSUME NEW j \in DOMAIN q, j < i + 1 PROVE q[j].kind # "activated"
    <3>1. CASE j = 1
      BY <1>1, <1>6, <3>1
    <3>2. CASE j # 1
      <4>1. j - 1 \in DOMAIN p /\ p[j - 1] = q[j] /\ j \in Nat
        BY <1>2, <3>2
      <4>2. j - 1 < i
        BY <2>2, <2>3, <4>1
      <4> QED
        BY <2>1, <4>1, <4>2
    <3> QED
      BY <3>1, <3>2
  <2> QED
    BY <2>1, <2>2, <2>3 DEF FirstIsCalm
<1>7. ASSUME EarlyIsKnown(q), FirstIsCalm(q) PROVE Head(q).kind # "changed" /\ Head(q).kind # "submitted"
  <2>1. PICK i \in DOMAIN q : q[i].kind = "activated" /\ ~q[i].early
    BY <1>7 DEF FirstIsCalm
  <2>2. CASE i = 1
    BY <1>1, <2>1, <2>2
  <2>3. CASE i # 1
    <3>1. 1 < i
      BY <1>1, <2>3
    <3> QED
      BY <1>1, <1>7, <2>1, <3>1 DEF EarlyIsKnown
  <2> QED
    BY <2>2, <2>3
<1>8. ASSUME Head(q).kind = "activated", ~Head(q).early PROVE FirstIsCalm(q)
  <2>1. \A j \in DOMAIN q : ~(j < 1)
    BY <1>1
  <2> QED
    BY <1>1, <1>8, <2>1 DEF FirstIsCalm
<1> QED
  BY <1>3, <1>4, <1>5, <1>6, <1>7, <1>8 DEF p

-----------------------------------------------------------------------------
(* Every step keeps the invariant.                                          *)

LEMMA TablesStart == TablesInit => TablesInv
<1> SUFFICES ASSUME TablesInit PROVE TablesInv
  OBVIOUS
<1> DEFINE first(t) == Arranged(EmptyTable, Holds(t))
<1>1. /\ cachedNodes = Endpoint /\ recency = Ranked /\ statusOf = [d \in Endpoint |-> "active"]
      /\ table = [t \in Table |-> [EmptyTable EXCEPT !.holds = Holds(t), !.rows = first(t),
                                                     !.cursor = IF Holds(t) = {} THEN 0 ELSE 1]]
      /\ wanted = [t \in Table |-> IF Holds(t) = {} THEN NoNode ELSE first(t)[1]]
      /\ tab = "styrene" /\ searchBar = [shown |-> FALSE, text |-> ""]
      /\ posted = <<>> /\ detail = NoDetail /\ inFront = TRUE
      /\ acts = 0 /\ news = 0 /\ strayed = FALSE /\ disturbed = FALSE
  BY DEF TablesInit
<1>0. /\ searchBar = [shown |-> FALSE, text |-> ""] /\ posted = <<>> /\ tab = "styrene"
      /\ acts = 0 /\ news = 0 /\ detail = NoDetail
  BY DEF TablesInit
<1>2. CacheInv
  BY <1>1, EndpointsAre DEF CacheInv
<1>3. BarInv
  <2>1. tab \in Table \cup {"diagnostics"} /\ detail.node \in Endpoint \cup {NoNode}
    BY <1>1 DEF Table, NoDetail
  <2>2. searchBar \in [shown : BOOLEAN, text : Text]
    BY <1>1 DEF Text
  <2> QED
    BY <1>1, <2>1, <2>2 DEF BarInv
<1>4. PostsInv /\ ActsInv
  <2>0. posted = <<>>
    BY <1>0
  <2>1. posted \in Seq(Post) /\ Len(posted) = 0
    BY <2>0
  <2>2. acts = 0 /\ news = 0 /\ MaxPosts \in Nat /\ MaxActs \in Nat /\ MaxNews \in Nat
    BY <1>0, TablesAssumption
  <2> QED
    BY <2>0, <2>1, <2>2 DEF PostsInv, ActsInv
<1>5. \A t \in Table : Holds(t) \subseteq Endpoint
  BY <1>2, HoldsAre DEF CacheInv
<1>6. ASSUME NEW t \in Table
      PROVE  /\ table[t] \in TableState /\ RowsInPlace(table[t]) /\ KeyOf(table[t]) = wanted[t]
             /\ wanted[t] \in Endpoint \cup {NoNode} /\ table[t].holds = Holds(t) /\ table[t].filter = ""
  <2> DEFINE q == first(t)
             h == Holds(t)
             c == IF h = {} THEN 0 ELSE 1
             r == table[t]
  <2>1. h \in SUBSET Endpoint /\ EveryEndpoint(recency)
    BY <1>2, <1>5 DEF CacheInv
  <2>2. /\ q \in Seq(Endpoint) /\ IsInjective(q) /\ ToSet(q) = h
        /\ (q = <<>>) <=> (h = {})
    BY <2>1, ArrangedIs
  <2>3. r = [EmptyTable EXCEPT !.holds = h, !.rows = q, !.cursor = c] /\ wanted[t] = IF h = {} THEN NoNode ELSE q[1]
    BY <1>1
  <2> HIDE DEF q, h, r
  <2>4. /\ r.holds = h /\ r.filter = "" /\ r.rows = q /\ r.cursor = c
        /\ r = [holds |-> h, filter |-> "", lost |-> TRUE, stale |-> FALSE, by |-> "announce", reverse |-> TRUE,
                rows |-> q, cursor |-> c]
    BY <2>3 DEF EmptyTable
  <2>5. c \in Nat /\ (h = {} => c = 0) /\ (h # {} => c = 1)
    OBVIOUS
  <2> HIDE DEF c
  <2>6. r \in TableState
    <3>1. h \in SUBSET Endpoint /\ q \in Seq(Endpoint) /\ c \in Nat
      BY <2>1, <2>2, <2>5
    <3>2. r = [holds |-> h, filter |-> "", lost |-> TRUE, stale |-> FALSE, by |-> "announce", reverse |-> TRUE,
               rows |-> q, cursor |-> c]
      BY <2>4
    <3> QED
      BY <3>1, <3>2 DEF TableState, Text
  <2>7. q # <<>> => 1 \in DOMAIN q /\ q[1] \in Endpoint
    BY <2>2, EmptySeq
  <2>8. RowsInPlace(r)
    BY <2>2, <2>4, <2>5, <2>7 DEF RowsInPlace
  <2>9. KeyOf(r) = wanted[t]
    BY <2>2, <2>3, <2>4, <2>5 DEF KeyOf
  <2> QED
    BY <2>2, <2>3, <2>4, <2>6, <2>7, <2>8, <2>9 DEF r, h
<1>7. TableRowsInv
  <2>1. table \in [Table -> TableState]
    BY <1>1, <1>6
  <2>2. wanted \in [Table -> Endpoint \cup {NoNode}]
    BY <1>1, <1>6
  <2> QED
    BY <1>6, <2>1, <2>2 DEF TableRowsInv
<1>8. HoldsInv
  <2>1. [t \in Table |-> table[t].holds] = [t \in Table |-> Holds(t)]
    BY <1>6
  <2>2. HoldTogether([t \in Table |-> Holds(t)])
    BY <1>2, HoldsAre DEF CacheInv
  <2> QED
    BY <2>1, <2>2 DEF HoldsInv
<1>9. FiltersInv /\ SelectedInv
  <2>0. posted = <<>>
    BY <1>0
  <2>1. DOMAIN posted = {}
    BY <2>0
  <2>2. searchBar.text = ""
    <3>1. searchBar = [shown |-> FALSE, text |-> ""]
      BY <1>0
    <3> QED
      BY <3>1
  <2> QED
    BY <1>6, <2>1, <2>2 DEF FiltersInv, FilteredBy, SelectedInv, LastSays, EarlyIsKnown, FirstIsCalm
<1>10. OpenedInv
  BY <1>1 DEF OpenedInv
<1> QED
  BY <1>2, <1>3, <1>4, <1>7, <1>8, <1>9, <1>10 DEF TablesInv

LEMMA CacheStays == CacheInv /\ [TablesNext]_tablesVars => CacheInv'
<1> SUFFICES ASSUME CacheInv, [TablesNext]_tablesVars PROVE CacheInv'
  OBVIOUS
<1> USE DEF endpointVars
<1>1. ASSUME NEW d \in Endpoint, CacheChanges(d) PROVE CacheInv'
  <2>1. CASE /\ cachedNodes' = cachedNodes \cup {d} /\ recency' = Append(RemoveAt(recency, PlaceIn(recency, d)), d)
             /\ statusOf' = [statusOf EXCEPT ![d] = "active"]
    <3>1. EveryEndpoint(recency')
      BY <2>1, RecencyIs DEF CacheInv
    <3> QED
      BY <2>1, <3>1 DEF CacheInv, EveryEndpoint
  <2>2. CASE cachedNodes' = cachedNodes \ {d} /\ UNCHANGED <<recency, statusOf>>
    BY <2>2 DEF CacheInv, EveryEndpoint
  <2> QED
    BY <1>1, <2>1, <2>2 DEF CacheChanges
<1>2. ASSUME NEW d \in Endpoint, NodeAges(d) PROVE CacheInv'
  BY <1>2 DEF NodeAges, CacheInv, EveryEndpoint
<1>3. CASE UNCHANGED endpointVars
  BY <1>3 DEF CacheInv, EveryEndpoint
<1>4. CASE UNCHANGED tablesVars
  BY <1>3, <1>4 DEF tablesVars
<1>5. (\E d \in Endpoint : CacheChanges(d) \/ NodeAges(d)) \/ UNCHANGED endpointVars \/ UNCHANGED tablesVars
  BY DEF TablesNext, TypeText, SwitchTab, SortBy, MoveCursor, ShowSearch, SubmitText, DismissSearch, Toggle, SelectRow,
         SelectDevice, RefreshTables, ComesBack, DevicesUpdated, InputChanged, InputSubmitted, TabActivated, RowSelected
<1> QED
  BY <1>1, <1>2, <1>3, <1>4, <1>5

\* The open table, with another filter or order.
LEMMA OpenTableIs ==
  ASSUME TableRowsInv, tab \in Table
  PROVE  /\ \A text \in Text :
              LET r == [table[tab] EXCEPT !.filter = text] IN
              r \in TableState /\ r.rows = table[tab].rows /\ r.cursor = table[tab].cursor
              /\ r.holds = table[tab].holds /\ r.filter = text
         /\ \A column \in {"announce", "name"}, x \in BOOLEAN :
              LET r == [table[tab] EXCEPT !.by = column, !.reverse = x] IN
              r \in TableState /\ r.rows = table[tab].rows /\ r.cursor = table[tab].cursor
              /\ r.holds = table[tab].holds /\ r.filter = table[tab].filter
         /\ LET r == [table[tab] EXCEPT !.lost = ~table[tab].lost] IN
              r \in TableState /\ r.rows = table[tab].rows /\ r.cursor = table[tab].cursor
              /\ r.holds = table[tab].holds /\ r.filter = table[tab].filter
         /\ LET r == [table[tab] EXCEPT !.stale = ~table[tab].stale] IN
              r \in TableState /\ r.rows = table[tab].rows /\ r.cursor = table[tab].cursor
              /\ r.holds = table[tab].holds /\ r.filter = table[tab].filter
<1> DEFINE x == table[tab]
<1>1. x \in TableState
  BY DEF TableRowsInv
<1> HIDE DEF x
<1>2. ASSUME NEW text \in Text
      PROVE  LET r == [x EXCEPT !.filter = text] IN
             r \in TableState /\ r.rows = x.rows /\ r.cursor = x.cursor /\ r.holds = x.holds /\ r.filter = text
  BY <1>1 DEF TableState
<1>3. ASSUME NEW column \in {"announce", "name"}, NEW y \in BOOLEAN
      PROVE  LET r == [x EXCEPT !.by = column, !.reverse = y] IN
             r \in TableState /\ r.rows = x.rows /\ r.cursor = x.cursor /\ r.holds = x.holds /\ r.filter = x.filter
  BY <1>1 DEF TableState
<1>4. LET r == [x EXCEPT !.lost = ~x.lost] IN
      r \in TableState /\ r.rows = x.rows /\ r.cursor = x.cursor /\ r.holds = x.holds /\ r.filter = x.filter
  BY <1>1 DEF TableState
<1>5. LET r == [x EXCEPT !.stale = ~x.stale] IN
      r \in TableState /\ r.rows = x.rows /\ r.cursor = x.cursor /\ r.holds = x.holds /\ r.filter = x.filter
  BY <1>1 DEF TableState
<1> QED
  BY <1>2, <1>3, <1>4, <1>5 DEF x

LEMMA PostsStay == PostsInv /\ BarInv /\ TableRowsInv /\ [TablesNext]_tablesVars => PostsInv'
<1> SUFFICES ASSUME PostsInv, BarInv, TableRowsInv, [TablesNext]_tablesVars PROVE PostsInv'
  OBVIOUS
<1>1. posted \in Seq(Post) /\ Len(posted) <= MaxPosts /\ Len(posted) \in Nat /\ MaxPosts \in Nat
  BY TablesAssumption DEF PostsInv
<1>2. ASSUME NEW m \in Post, Posts(m) PROVE PostsInv'
  <2>1. Len(posted) < MaxPosts /\ posted' = Append(posted, m)
    BY <1>2 DEF Posts
  <2> QED
    BY <1>1, <2>1, PostAppended DEF PostsInv
<1>3. ASSUME posted # <<>>, posted' = Tail(posted) PROVE PostsInv'
  BY <1>1, <1>3, PostTaken DEF PostsInv
<1>4. CASE UNCHANGED posted
  BY <1>4 DEF PostsInv
<1>5. ASSUME NEW d \in Endpoint, CacheChanges(d) PROVE PostsInv'
  BY <1>2, <1>5, PostsAre DEF CacheChanges
<1>6. ASSUME NEW text \in Text, TypeText(text) PROVE PostsInv'
  BY <1>2, <1>6, PostsAre DEF TypeText
<1>7. CASE SubmitText
  BY <1>2, <1>7, PostsAre DEF SubmitText
<1>8. CASE DismissSearch
  <2>1. "" \in Text
    BY DEF Text
  <2> QED
    BY <1>2, <1>4, <1>8, <2>1, PostsAre DEF DismissSearch
<1>9. ASSUME NEW t \in Table \cup {"diagnostics"}, SwitchTab(t) PROVE PostsInv'
  <2> DEFINE soon == \E i \in DOMAIN posted : posted[i].kind \in {"changed", "submitted"}
  <2>1. Posts([kind |-> "activated", early |-> soon]) /\ soon \in BOOLEAN
    BY <1>9 DEF SwitchTab
  <2> HIDE DEF soon
  <2> QED
    BY <1>2, <2>1, PostsAre
<1>10. CASE SelectRow
  <2>1. tab \in Table /\ Posts([kind |-> "selected", key |-> KeyOf(table[tab]), from |-> tab])
    BY <1>10 DEF SelectRow
  <2>2. KeyOf(table[tab]) \in Endpoint \cup {NoNode}
    BY <2>1 DEF TableRowsInv
  <2> QED
    BY <1>2, <2>1, <2>2, PostsAre
<1>11. CASE TabActivated
  <2>1. posted # <<>>
    BY <1>11 DEF TabActivated, Handles
  <2>2. posted' = Tail(posted) \/ posted' = Append(Tail(posted), [kind |-> "changed", text |-> ""])
    BY <1>11 DEF TabActivated
  <2>3. CASE posted' = Append(Tail(posted), [kind |-> "changed", text |-> ""])
    <3> DEFINE m == [kind |-> "changed", text |-> ""]
               q == Tail(posted)
    <3>1. m \in Post
      BY PostsAre DEF Text
    <3>2. q \in Seq(Post) /\ Len(q) = Len(posted) - 1 /\ posted' = Append(q, m)
      BY <1>1, <2>1, <2>3, PostTaken
    <3> HIDE DEF m, q
    <3>4. Append(q, m) \in Seq(Post) /\ Len(Append(q, m)) = Len(q) + 1
      BY <3>1, <3>2, PostAppended
    <3>3. posted' \in Seq(Post) /\ Len(posted') = Len(posted)
      BY <1>1, <3>2, <3>4
    <3> QED
      BY <1>1, <3>3 DEF PostsInv
  <2> QED
    BY <1>3, <2>1, <2>2, <2>3
<1>12. CASE DevicesUpdated \/ InputChanged \/ InputSubmitted \/ RowSelected
  <2>1. posted # <<>> /\ posted' = Tail(posted)
    BY <1>12 DEF DevicesUpdated, InputChanged, InputSubmitted, RowSelected, Handles
  <2> QED
    BY <1>3, <2>1
<1>13. CASE UNCHANGED tablesVars
  BY <1>4, <1>13 DEF tablesVars
<1>14. \/ \E d \in Endpoint : CacheChanges(d)
       \/ \E text \in Text : TypeText(text)
       \/ \E t \in Table \cup {"diagnostics"} : SwitchTab(t)
       \/ SubmitText \/ DismissSearch \/ SelectRow \/ TabActivated
       \/ DevicesUpdated \/ InputChanged \/ InputSubmitted \/ RowSelected
       \/ UNCHANGED posted \/ UNCHANGED tablesVars
  BY DEF TablesNext, NodeAges, SortBy, MoveCursor, ShowSearch, Toggle, SelectDevice, RefreshTables, ComesBack
<1> QED
  BY <1>4, <1>5, <1>6, <1>7, <1>8, <1>9, <1>10, <1>11, <1>12, <1>13, <1>14

LEMMA ActsStay == ActsInv /\ [TablesNext]_tablesVars => ActsInv'
<1> SUFFICES ASSUME ActsInv, [TablesNext]_tablesVars PROVE ActsInv'
  OBVIOUS
<1>1. \/ UNCHANGED <<acts, news>>
      \/ acts < MaxActs /\ acts' = acts + 1 /\ UNCHANGED news
      \/ news < MaxNews /\ news' = news + 1 /\ UNCHANGED acts
  BY DEF TablesNext, tablesVars, CacheChanges, NodeAges, TypeText, SwitchTab, SortBy, MoveCursor, ShowSearch, SubmitText,
         DismissSearch, Toggle, SelectRow, SelectDevice, RefreshTables, ComesBack, DevicesUpdated, InputChanged,
         InputSubmitted, TabActivated, RowSelected, Acts
<1> QED
  BY <1>1, TablesAssumption DEF ActsInv

LEMMA BarStays == BarInv /\ TableRowsInv /\ [TablesNext]_tablesVars => BarInv'
<1> SUFFICES ASSUME BarInv, TableRowsInv, [TablesNext]_tablesVars PROVE BarInv'
  OBVIOUS
<1>1. tab' = tab \/ tab' \in Table \cup {"diagnostics"}
  BY DEF TablesNext, tablesVars, CacheChanges, NodeAges, TypeText, SwitchTab, SortBy, MoveCursor, ShowSearch, SubmitText,
         DismissSearch, Toggle, SelectRow, SelectDevice, RefreshTables, ComesBack, DevicesUpdated, InputChanged,
         InputSubmitted, TabActivated, RowSelected
<1>2. \/ searchBar' = searchBar
      \/ \E text \in Text : searchBar' = [searchBar EXCEPT !.text = text]
      \/ \E x \in BOOLEAN : searchBar' = [searchBar EXCEPT !.shown = x]
      \/ searchBar' = [shown |-> FALSE, text |-> ""]
  <2>1. "" \in Text
    BY DEF Text
  <2> QED
    BY <2>1 DEF TablesNext, tablesVars, CacheChanges, NodeAges, TypeText, SwitchTab, SortBy, MoveCursor, ShowSearch, SubmitText,
         DismissSearch, Toggle, SelectRow, SelectDevice, RefreshTables, ComesBack, DevicesUpdated, InputChanged,
         InputSubmitted, TabActivated, RowSelected
<1>3. inFront' = inFront \/ inFront' = TRUE \/ inFront' = FALSE
  BY DEF TablesNext, tablesVars, CacheChanges, NodeAges, TypeText, SwitchTab, SortBy, MoveCursor, ShowSearch, SubmitText,
         DismissSearch, Toggle, SelectRow, SelectDevice, RefreshTables, ComesBack, DevicesUpdated, InputChanged,
         InputSubmitted, TabActivated, RowSelected, OpensNode
<1>4. strayed' = strayed \/ strayed' \in BOOLEAN
  BY DEF TablesNext, tablesVars, CacheChanges, NodeAges, TypeText, SwitchTab, SortBy, MoveCursor, ShowSearch, SubmitText,
         DismissSearch, Toggle, SelectRow, SelectDevice, RefreshTables, ComesBack, DevicesUpdated, InputChanged,
         InputSubmitted, TabActivated, RowSelected
<1>5. disturbed' = disturbed \/ disturbed' \in BOOLEAN
  BY DEF TablesNext, tablesVars, CacheChanges, NodeAges, TypeText, SwitchTab, SortBy, MoveCursor, ShowSearch, SubmitText,
         DismissSearch, Toggle, SelectRow, SelectDevice, RefreshTables, ComesBack, DevicesUpdated, InputChanged,
         InputSubmitted, TabActivated, RowSelected
<1>6. \/ detail' = detail \/ detail' = NoDetail \/ \E key : OpensNode(key)
      \/ \E key : tab \in Table /\ key \in table[tab].holds /\ detail' = [key |-> key, node |-> key, whose |-> WhoseIs[key]]
  BY DEF TablesNext, tablesVars, CacheChanges, NodeAges, TypeText, SwitchTab, SortBy, MoveCursor, ShowSearch, SubmitText,
         DismissSearch, Toggle, SelectRow, SelectDevice, RefreshTables, ComesBack, DevicesUpdated, InputChanged,
         InputSubmitted, TabActivated, RowSelected
<1>7. \A t \in Table : table[t].holds \subseteq Endpoint
  BY DEF TableRowsInv, TableState
<1>8. detail'.node \in Endpoint \cup {NoNode}
  <2>1. CASE detail' = detail
    BY <2>1 DEF BarInv
  <2>2. CASE detail' = NoDetail
    BY <2>2 DEF NoDetail
  <2>3. ASSUME NEW key, OpensNode(key) PROVE detail'.node \in Endpoint \cup {NoNode}
    <3> DEFINE node == IF tab \in Table /\ key \in table[tab].holds THEN key ELSE NoNode
    <3>1. detail'.node = node
      BY <2>3 DEF OpensNode
    <3> QED
      BY <1>7, <3>1
  <2>4. ASSUME NEW key, tab \in Table, key \in table[tab].holds, detail' = [key |-> key, node |-> key, whose |-> WhoseIs[key]]
        PROVE  detail'.node \in Endpoint \cup {NoNode}
    BY <1>7, <2>4
  <2> QED
    BY <1>6, <2>1, <2>2, <2>3, <2>4
<1>9. searchBar' \in [shown : BOOLEAN, text : Text]
  <2>1. searchBar \in [shown : BOOLEAN, text : Text]
    BY DEF BarInv
  <2>2. [shown |-> FALSE, text |-> ""] \in [shown : BOOLEAN, text : Text]
    BY DEF Text
  <2> QED
    BY <1>2, <2>1, <2>2
<1> QED
  BY <1>1, <1>3, <1>4, <1>5, <1>8, <1>9 DEF BarInv

SameTables == \A t \in Table : table'[t].holds = table[t].holds /\ table'[t].filter = table[t].filter

\* Another order, what is left out, and the cursor: the tables hold the same and are
\* filtered by the same.
LEMMA SortedDoes ==
  ASSUME EveryEndpoint(recency), TableRowsInv,
         (\E column \in {"announce", "name"} : SortBy(column)) \/ Toggle \/ \E i : MoveCursor(i)
  PROVE  TableRowsInv' /\ SameTables
<1>1. ASSUME NEW column \in {"announce", "name"}, SortBy(column) PROVE TableRowsInv' /\ SameTables
  <2> DEFINE x == IF table[tab].by = column THEN ~table[tab].reverse ELSE column = "announce"
             r == [table[tab] EXCEPT !.by = column, !.reverse = x]
  <2>1. tab \in Table /\ OnTable(r)
    BY <1>1 DEF SortBy, OnTable
  <2>2. x \in BOOLEAN
    OBVIOUS
  <2> HIDE DEF x
  <2>3. r \in TableState /\ r.rows = table[tab].rows /\ r.cursor = table[tab].cursor /\ r.holds = table[tab].holds
        /\ r.filter = table[tab].filter
    BY <2>1, <2>2, OpenTableIs
  <2> HIDE DEF r
  <2> QED
    BY <2>1, <2>3, OnTableDoes DEF SameTables
<1>2. CASE Toggle
  <2> DEFINE byLost == [table[tab] EXCEPT !.lost = ~table[tab].lost]
             byStale == [table[tab] EXCEPT !.stale = ~table[tab].stale]
  <2>1. tab \in Table /\ (OnTable(byLost) \/ OnTable(byStale))
    BY <1>2 DEF Toggle, OnTable
  <2>2. byLost \in TableState /\ byLost.rows = table[tab].rows /\ byLost.cursor = table[tab].cursor /\ byLost.holds = table[tab].holds
        /\ byLost.filter = table[tab].filter
    BY <2>1, OpenTableIs
  <2>3. byStale \in TableState /\ byStale.rows = table[tab].rows /\ byStale.cursor = table[tab].cursor /\ byStale.holds = table[tab].holds
        /\ byStale.filter = table[tab].filter
    BY <2>1, OpenTableIs
  <2> HIDE DEF byLost, byStale
  <2> QED
    BY <2>1, <2>2, <2>3, OnTableDoes DEF SameTables
<1>3. ASSUME NEW i, MoveCursor(i) PROVE TableRowsInv' /\ SameTables
  <2> DEFINE x == table[tab]
             y == [x EXCEPT !.cursor = i]
  <2>1. /\ tab \in Table /\ i \in DOMAIN x.rows
        /\ table' = [table EXCEPT ![tab].cursor = i] /\ wanted' = [wanted EXCEPT ![tab] = x.rows[i]]
    BY <1>3 DEF MoveCursor
  <2>2. x \in TableState /\ RowsInPlace(x) /\ table \in [Table -> TableState]
        /\ wanted \in [Table -> Endpoint \cup {NoNode}]
    BY <2>1 DEF TableRowsInv
  <2>3. table' = [table EXCEPT ![tab] = y]
    BY <2>1
  <2> HIDE DEF x
  <2>4. x.rows \in Seq(Endpoint) /\ i \in Nat /\ x.rows[i] \in Endpoint /\ x.rows # <<>>
    <3>1. x.rows \in Seq(Endpoint)
      BY <2>2 DEF TableState
    <3>2. DOMAIN x.rows = 1..Len(x.rows) /\ Len(x.rows) \in Nat
      BY <3>1
    <3> QED
      BY <2>1, <3>1, <3>2
  <2>5. /\ y \in TableState /\ y.rows = x.rows /\ y.cursor = i /\ y.holds = x.holds /\ y.filter = x.filter
    BY <2>2, <2>4 DEF TableState
  <2> HIDE DEF y
  <2>6. RowsInPlace(y) /\ KeyOf(y) = x.rows[i]
    BY <2>1, <2>2, <2>4, <2>5 DEF RowsInPlace, KeyOf
  <2>7. \A t \in Table : table'[t] = (IF t = tab THEN y ELSE table[t]) /\ wanted'[t] = (IF t = tab THEN x.rows[i] ELSE wanted[t])
    BY <2>1, <2>2, <2>3
  <2>8. table' \in [Table -> TableState] /\ wanted' \in [Table -> Endpoint \cup {NoNode}]
    BY <2>1, <2>2, <2>3, <2>4, <2>5
  <2>9. \A t \in Table : RowsInPlace(table'[t]) /\ KeyOf(table'[t]) = wanted'[t]
    BY <2>6, <2>7 DEF TableRowsInv
  <2>10. TableRowsInv'
    BY <2>8, <2>9 DEF TableRowsInv, RowsInPlace, KeyOf
  <2> QED
    BY <2>5, <2>7, <2>10 DEF x, SameTables
<1> QED
  BY <1>1, <1>2, <1>3

\* A text for the open table.
LEMMA FilteredDoes ==
  ASSUME EveryEndpoint(recency), TableRowsInv, NEW text \in Text, OnTable([table[tab] EXCEPT !.filter = text])
  PROVE  /\ tab \in Table /\ TableRowsInv'
         /\ \A t \in Table : table'[t].holds = table[t].holds
         /\ \A t \in Table : table'[t].filter = IF t = tab THEN text ELSE table[t].filter
<1> DEFINE r == [table[tab] EXCEPT !.filter = text]
<1>1. tab \in Table /\ OnTable(r)
  BY DEF OnTable
<1>2. /\ r \in TableState /\ r.rows = table[tab].rows /\ r.cursor = table[tab].cursor /\ r.holds = table[tab].holds
      /\ r.filter = text
  BY <1>1, OpenTableIs
<1> HIDE DEF r
<1> QED
  BY <1>1, <1>2, OnTableDoes

LEMMA TableRowsStay == CacheInv /\ PostsInv /\ TableRowsInv /\ HoldsInv /\ [TablesNext]_tablesVars => TableRowsInv' /\ HoldsInv'
<1> SUFFICES ASSUME CacheInv, PostsInv, TableRowsInv, HoldsInv, [TablesNext]_tablesVars PROVE TableRowsInv' /\ HoldsInv'
  OBVIOUS
<1>1. CASE UNCHANGED <<table, wanted>>
  BY <1>1 DEF TableRowsInv, HoldsInv
<1>2. CASE Follows(Loaded)
  BY <1>2, LoadedDoes
<1>3. CASE (\E column \in {"announce", "name"} : SortBy(column)) \/ Toggle \/ \E i : MoveCursor(i)
  BY <1>3, SortedDoes, HoldsStay DEF CacheInv, SameTables
<1>4. ASSUME NEW text \in Text, OnTable([table[tab] EXCEPT !.filter = text]) PROVE TableRowsInv' /\ HoldsInv'
  BY <1>4, FilteredDoes, HoldsStay DEF CacheInv
<1>5. CASE Follows([t \in Table |-> Rebuilt([table[t] EXCEPT !.filter = ""])])
  BY <1>5, ClearedDoes, HoldsStay DEF CacheInv
<1>6. CASE InputChanged
  <2>1. /\ posted # <<>> /\ Head(posted).kind = "changed"
        /\ OnTable([table[tab] EXCEPT !.filter = Head(posted).text]) \/ UNCHANGED <<table, wanted>>
    BY <1>6 DEF InputChanged, Handles
  <2>2. Head(posted).text \in Text
    BY <2>1, PostsAre, PostTaken DEF PostsInv
  <2> QED
    BY <1>1, <1>4, <2>1, <2>2
<1>7. CASE DismissSearch
  <2>1. OnTable([table[tab] EXCEPT !.filter = ""]) \/ UNCHANGED <<table, wanted>>
    BY <1>7 DEF DismissSearch
  <2>2. "" \in Text
    BY DEF Text
  <2> QED
    BY <1>1, <1>4, <2>1, <2>2
<1>8. \/ UNCHANGED <<table, wanted>> \/ Follows(Loaded)
      \/ (\E column \in {"announce", "name"} : SortBy(column)) \/ Toggle \/ \E i : MoveCursor(i)
      \/ InputChanged \/ DismissSearch
      \/ Follows([t \in Table |-> Rebuilt([table[t] EXCEPT !.filter = ""])])
  BY DEF TablesNext, tablesVars, CacheChanges, NodeAges, TypeText, SwitchTab, ShowSearch, SubmitText,
         SelectRow, SelectDevice, RefreshTables, ComesBack, DevicesUpdated, InputSubmitted, TabActivated, RowSelected
<1> QED
  BY <1>1, <1>2, <1>3, <1>5, <1>6, <1>7, <1>8

\* What the tables are filtered by stays.
LEMMA FilteredStays ==
  ASSUME NEW q, NEW isShown, NEW text, NEW tables, NEW tables2, NEW onTab, NEW left,
         FilteredBy(q, isShown, text, tables, onTab, left), \A t \in Table : tables2[t].filter = tables[t].filter
  PROVE  FilteredBy(q, isShown, text, tables2, onTab, left)
BY DEF FilteredBy

\* What says nothing of the bar is posted.
LEMMA FilteredPosted ==
  ASSUME NEW q \in Seq(Post), NEW m \in Post, NEW isShown, NEW text, NEW tables, NEW onTab, NEW left,
         FilteredBy(q, isShown, text, tables, onTab, left), m.kind # "changed", m.kind # "activated"
  PROVE  FilteredBy(Append(q, m), isShown, text, tables, onTab, left)
<1> DEFINE p == Append(q, m)
<1>1. LastSays(p, text) /\ EarlyIsKnown(p) /\ (FirstIsCalm(p) => FirstIsCalm(q))
  BY SaidAppended DEF FilteredBy
<1>2. (Pending(p, "activated") <=> Pending(q, "activated")) /\ (Pending(p, "changed") <=> Pending(q, "changed"))
  BY PostAppended
<1> HIDE DEF p
<1>3. FilteredBy(p, isShown, text, tables, onTab, left)
  BY <1>1, <1>2 DEF FilteredBy
<1> QED
  BY <1>3 DEF p

\* Or has arrived: with what was sent, the bar is hidden.
LEMMA FilteredTaken ==
  ASSUME NEW q \in Seq(Post), q # <<>>, NEW isShown, NEW isShown2, NEW text, NEW tables, NEW onTab, NEW left,
         FilteredBy(q, isShown, text, tables, onTab, left), Head(q).kind # "changed", Head(q).kind # "activated",
         isShown => isShown2 \/ Head(q).kind = "submitted"
  PROVE  FilteredBy(Tail(q), isShown2, text, tables, onTab, left)
<1> DEFINE p == Tail(q)
<1>1. LastSays(p, text) /\ EarlyIsKnown(p) /\ (FirstIsCalm(p) => FirstIsCalm(q))
  BY SaidTaken DEF FilteredBy
<1>2. (Pending(p, "activated") <=> Pending(q, "activated")) /\ (Pending(p, "changed") <=> Pending(q, "changed"))
  BY PostTaken
<1>3. FirstIsCalm(q) => Head(q).kind # "submitted"
  BY SaidTaken DEF FilteredBy
<1> HIDE DEF p
<1>4. FilteredBy(p, isShown2, text, tables, onTab, left)
  BY <1>1, <1>2, <1>3 DEF FilteredBy
<1> QED
  BY <1>4 DEF p

\* A change of the text is posted, with a bar that is shown or no tab before it.
LEMMA FilteredTyped ==
  ASSUME NEW q \in Seq(Post), NEW m \in Post, NEW isShown, NEW isShown2, NEW text, NEW tables, NEW tables2, NEW onTab,
         NEW left, NEW left2, FilteredBy(q, isShown, text, tables, onTab, left), m.kind = "changed",
         ~left2 => ~left /\ (isShown2 \/ ~Pending(q, "activated")),
         \A t \in Table : t # onTab => tables2[t].filter = tables[t].filter
  PROVE  FilteredBy(Append(q, m), isShown2, m.text, tables2, onTab, left2)
<1> DEFINE p == Append(q, m)
<1>1. LastSays(p, m.text) /\ EarlyIsKnown(p) /\ (FirstIsCalm(p) => FirstIsCalm(q))
  BY SaidAppended DEF FilteredBy
<1>2. (Pending(p, "activated") <=> Pending(q, "activated")) /\ Pending(p, "changed")
  BY PostAppended
<1>3. FirstIsCalm(q) => Pending(q, "activated")
  BY DEF FirstIsCalm, Pending
<1> HIDE DEF p
<1>4. FilteredBy(p, isShown2, m.text, tables2, onTab, left2)
  BY <1>1, <1>2, <1>3 DEF FilteredBy
<1> QED
  BY <1>4 DEF p

\* All filters are cleared.
LEMMA FilteredCleared ==
  ASSUME NEW q, NEW isShown, NEW tables, NEW onTab, NEW left,
         LastSays(q, ""), EarlyIsKnown(q), \A t \in Table : tables[t].filter = ""
  PROVE  FilteredBy(q, isShown, "", tables, onTab, left)
BY DEF FilteredBy

LEMMA FiltersStay == CacheInv /\ BarInv /\ PostsInv /\ TableRowsInv /\ FiltersInv /\ [TablesNext]_tablesVars => FiltersInv'
<1> SUFFICES ASSUME CacheInv, BarInv, PostsInv, TableRowsInv, FiltersInv, [TablesNext]_tablesVars
             PROVE  FilteredBy(posted', searchBar'.shown, searchBar'.text, table', tab', strayed')
  BY DEF FiltersInv
<1> DEFINE Goal == FilteredBy(posted', searchBar'.shown, searchBar'.text, table', tab', strayed')
<1>0. /\ FilteredBy(posted, searchBar.shown, searchBar.text, table, tab, strayed)
      /\ posted \in Seq(Post) /\ searchBar \in [shown : BOOLEAN, text : Text] /\ EveryEndpoint(recency)
      /\ "" \in Text
  BY DEF FiltersInv, PostsInv, BarInv, CacheInv, Text
<1>1. ASSUME \A t \in Table : table'[t].filter = table[t].filter, posted' = posted, tab' = tab, strayed' = strayed,
             searchBar.shown => searchBar'.shown, searchBar'.text = searchBar.text
      PROVE  Goal
  <2>1. FilteredBy(posted, searchBar'.shown, searchBar.text, table', tab, strayed)
    <3>1. /\ ~strayed /\ ~Pending(posted, "activated") =>
                /\ \A t \in Table : t # tab => table'[t].filter = ""
                /\ tab \in Table /\ ~Pending(posted, "changed") => table'[tab].filter = searchBar.text
          /\ ~strayed /\ ~searchBar'.shown /\ searchBar.text = "" /\ FirstIsCalm(posted) =>
                \A t \in Table : table'[t].filter = ""
          /\ LastSays(posted, searchBar.text) /\ EarlyIsKnown(posted)
      BY <1>0, <1>1 DEF FilteredBy
    <3> QED
      BY <3>1 DEF FilteredBy
  <2> QED
    BY <1>1, <2>1 DEF Goal
<1>2. ASSUME NEW m \in Post, posted' = Append(posted, m), m.kind # "changed", m.kind # "activated",
             table' = table, searchBar' = searchBar, tab' = tab, strayed' = strayed
      PROVE  Goal
  BY <1>0, <1>2, FilteredPosted DEF Goal
<1>3. ASSUME posted # <<>>, posted' = Tail(posted), Head(posted).kind # "changed", Head(posted).kind # "activated",
             searchBar.shown => searchBar'.shown \/ Head(posted).kind = "submitted", searchBar'.text = searchBar.text,
             \A t \in Table : table'[t].filter = table[t].filter, tab' = tab, strayed' = strayed
      PROVE  Goal
  <2>1. FilteredBy(Tail(posted), searchBar'.shown, searchBar.text, table, tab, strayed)
    BY <1>0, <1>3, FilteredTaken
  <2> QED
    BY <1>3, <2>1, FilteredStays DEF Goal
<1>4. CASE \E d \in Endpoint : CacheChanges(d)
  <2>1. posted' = Append(posted, [kind |-> "updated"]) /\ table' = table /\ searchBar' = searchBar /\ tab' = tab /\ strayed' = strayed
    BY <1>4 DEF CacheChanges, Posts
  <2> QED
    BY <1>2, <2>1, PostsAre
<1>5. CASE SubmitText
  <2>1. posted' = Append(posted, [kind |-> "submitted"]) /\ table' = table /\ searchBar' = searchBar /\ tab' = tab /\ strayed' = strayed
    BY <1>5 DEF SubmitText, Posts
  <2> QED
    BY <1>2, <2>1, PostsAre
<1>6. CASE SelectRow
  <2> DEFINE m == [kind |-> "selected", key |-> KeyOf(table[tab]), from |-> tab]
  <2>1. posted' = Append(posted, m) /\ table' = table /\ searchBar' = searchBar /\ tab' = tab /\ strayed' = strayed /\ tab \in Table
    BY <1>6 DEF SelectRow, Posts
  <2>2. KeyOf(table[tab]) \in Endpoint \cup {NoNode}
    BY <2>1 DEF TableRowsInv
  <2>3. m \in Post /\ m.kind = "selected"
    BY <2>1, <2>2, PostsAre
  <2> HIDE DEF m
  <2> QED
    BY <1>2, <2>1, <2>3
<1>7. CASE ShowSearch
  BY <1>0, <1>1, <1>7 DEF ShowSearch
<1>8. CASE (\E column \in {"announce", "name"} : SortBy(column)) \/ Toggle \/ \E i : MoveCursor(i)
  <2>1. posted' = posted /\ tab' = tab /\ strayed' = strayed /\ searchBar' = searchBar
    BY <1>8 DEF SortBy, Toggle, MoveCursor
  <2> QED
    BY <1>0, <1>1, <1>8, <2>1, SortedDoes DEF SameTables
<1>9. CASE RefreshTables \/ ComesBack
  <2>1. posted' = posted /\ tab' = tab /\ strayed' = strayed /\ searchBar' = searchBar /\ Follows(Loaded)
    BY <1>9 DEF RefreshTables, ComesBack
  <2> QED
    BY <1>1, <2>1, LoadedDoes
<1>10. CASE DevicesUpdated
  <2>1. /\ posted # <<>> /\ posted' = Tail(posted) /\ Head(posted).kind = "updated"
        /\ tab' = tab /\ strayed' = strayed /\ searchBar' = searchBar /\ Follows(Loaded)
    BY <1>10 DEF DevicesUpdated, Handles
  <2> QED
    BY <1>3, <2>1, LoadedDoes
<1>11. CASE InputSubmitted
  <2>1. /\ posted # <<>> /\ posted' = Tail(posted) /\ Head(posted).kind = "submitted"
        /\ tab' = tab /\ strayed' = strayed /\ table' = table /\ searchBar' = [searchBar EXCEPT !.shown = FALSE]
    BY <1>11 DEF InputSubmitted, Handles
  <2>2. searchBar'.text = searchBar.text
    BY <1>0, <2>1
  <2> QED
    BY <1>3, <2>1, <2>2
<1>12. CASE RowSelected
  <2>1. /\ posted # <<>> /\ posted' = Tail(posted) /\ Head(posted).kind = "selected"
        /\ tab' = tab /\ strayed' = strayed /\ table' = table /\ searchBar' = searchBar
    BY <1>12 DEF RowSelected, Handles
  <2> QED
    BY <1>3, <2>1
<1>13. ASSUME NEW text \in Text, TypeText(text) PROVE Goal
  <2> DEFINE m == [kind |-> "changed", text |-> text]
  <2>1. /\ posted' = Append(posted, m) /\ tab' = tab /\ strayed' = strayed /\ table' = table /\ searchBar.shown
        /\ searchBar' = [searchBar EXCEPT !.text = text]
    BY <1>13 DEF TypeText, Posts
  <2>2. searchBar'.text = text /\ searchBar'.shown = searchBar.shown
    BY <1>0, <2>1
  <2>3. m \in Post /\ m.kind = "changed" /\ m.text = text
    BY PostsAre
  <2> HIDE DEF m
  <2>4. FilteredBy(Append(posted, m), searchBar'.shown, m.text, table, tab, strayed)
    BY <1>0, <2>1, <2>2, <2>3, FilteredTyped
  <2> QED
    BY <2>1, <2>2, <2>3, <2>4 DEF Goal
<1>14. CASE DismissSearch
  <2> DEFINE m == [kind |-> "changed", text |-> ""]
  <2>1. /\ UNCHANGED tab /\ searchBar' = [shown |-> FALSE, text |-> ""]
        /\ IF searchBar.text = "" THEN posted' = posted ELSE posted' = Append(posted, m)
        /\ OnTable([table[tab] EXCEPT !.filter = ""]) \/ (tab \notin Table /\ table' = table)
        /\ strayed' = (strayed \/ Pending(posted, "activated"))
    BY <1>14 DEF DismissSearch, Posts, Pending
  <2>2. searchBar'.text = "" /\ searchBar'.shown = FALSE
    BY <2>1
  <2>3. m \in Post /\ m.kind = "changed" /\ m.text = ""
    BY <1>0, PostsAre
  <2> HIDE DEF m
  <2>4. /\ \A t \in Table : t # tab => table'[t].filter = table[t].filter
        /\ tab \in Table => table'[tab].filter = ""
    BY <1>0, <2>1, FilteredDoes
  <2>5. CASE posted' = posted /\ searchBar.text = ""
    <3>1. LastSays(posted, "") /\ EarlyIsKnown(posted)
      BY <1>0, <2>5 DEF FilteredBy
    <3>2. ~strayed' /\ ~Pending(posted, "activated") => \A t \in Table : t # tab => table'[t].filter = ""
      BY <1>0, <2>1, <2>4 DEF FilteredBy
    <3>3. FirstIsCalm(posted) => Pending(posted, "activated")
      BY DEF FirstIsCalm, Pending
    <3>4. FilteredBy(posted, FALSE, "", table', tab, strayed')
      BY <2>1, <2>4, <3>1, <3>2, <3>3 DEF FilteredBy
    <3> QED
      BY <2>1, <2>2, <2>5, <3>4 DEF Goal
  <2>6. CASE posted' = Append(posted, m)
    <3>1. ~strayed' => ~strayed /\ ~Pending(posted, "activated")
      BY <2>1
    <3>2. FilteredBy(Append(posted, m), searchBar'.shown, m.text, table', tab, strayed')
      BY <1>0, <2>3, <2>4, <3>1, FilteredTyped
    <3> QED
      BY <2>1, <2>2, <2>3, <2>6, <3>2 DEF Goal
  <2> QED
    BY <2>1, <2>5, <2>6
<1>15. ASSUME NEW t \in Table \cup {"diagnostics"}, SwitchTab(t) PROVE Goal
  <2> DEFINE soon == \E i \in DOMAIN posted : posted[i].kind \in {"changed", "submitted"}
             m == [kind |-> "activated", early |-> soon]
  <2>1. posted' = Append(posted, m) /\ searchBar' = searchBar /\ table' = table /\ strayed' = strayed
    BY <1>15 DEF SwitchTab, Posts
  <2>2. soon \in BOOLEAN /\ (soon <=> Pending(posted, "changed") \/ Pending(posted, "submitted"))
    BY DEF Pending
  <2> HIDE DEF soon
  <2>3. m \in Post /\ m.kind = "activated" /\ m.early = soon
    BY <2>2, PostsAre
  <2> HIDE DEF m
  <2>4. /\ LastSays(posted, searchBar.text) /\ EarlyIsKnown(posted)
        /\ ~strayed /\ ~Pending(posted, "activated") =>
              /\ \A u \in Table : u # tab => table[u].filter = ""
              /\ tab \in Table /\ ~Pending(posted, "changed") => table[tab].filter = searchBar.text
        /\ ~strayed /\ ~searchBar.shown /\ searchBar.text = "" /\ FirstIsCalm(posted) =>
              \A u \in Table : table[u].filter = ""
    BY <1>0 DEF FilteredBy
  <2>5. /\ LastSays(posted', searchBar.text) /\ EarlyIsKnown(posted') /\ Pending(posted', "activated")
        /\ FirstIsCalm(posted') => FirstIsCalm(posted) \/ (~Pending(posted, "activated") /\ ~soon)
    BY <1>0, <2>1, <2>2, <2>3, <2>4, SaidAppended, PostAppended
  <2>6. ASSUME ~strayed, ~searchBar.shown, searchBar.text = "", FirstIsCalm(posted'), NEW u \in Table
        PROVE  table[u].filter = ""
    <3>1. CASE FirstIsCalm(posted)
      BY <2>4, <2>6, <3>1
    <3>2. CASE ~Pending(posted, "activated") /\ ~soon
      BY <2>2, <2>4, <2>6, <3>2
    <3> QED
      BY <2>5, <2>6, <3>1, <3>2
  <2>7. FilteredBy(posted', searchBar.shown, searchBar.text, table, tab', strayed)
    BY <2>5, <2>6 DEF FilteredBy
  <2> QED
    BY <2>1, <2>7 DEF Goal
<1>16. CASE InputChanged
  <2> DEFINE text == Head(posted).text
             p == Tail(posted)
  <2>1. /\ posted # <<>> /\ posted' = p /\ Head(posted).kind = "changed"
        /\ tab' = tab /\ strayed' = strayed /\ searchBar' = searchBar
        /\ OnTable([table[tab] EXCEPT !.filter = text]) \/ (tab \notin Table /\ table' = table)
    BY <1>16 DEF InputChanged, Handles
  <2>2. text \in Text
    BY <1>0, <2>1, PostsAre, PostTaken
  <2>3. /\ \A t \in Table : t # tab => table'[t].filter = table[t].filter
        /\ tab \in Table => table'[tab].filter = text
    BY <1>0, <2>1, <2>2, FilteredDoes
  <2>4. /\ LastSays(p, searchBar.text) /\ EarlyIsKnown(p) /\ ~FirstIsCalm(p)
        /\ ~Pending(p, "changed") => text = searchBar.text
    BY <1>0, <2>1, SaidTaken DEF FilteredBy
  <2>5. Pending(posted, "activated") <=> Pending(p, "activated")
    BY <1>0, <2>1, PostTaken
  <2>6. ~strayed /\ ~Pending(p, "activated") => \A t \in Table : t # tab => table[t].filter = ""
    BY <1>0, <2>5 DEF FilteredBy
  <2> HIDE DEF p, text
  <2>7. FilteredBy(p, searchBar.shown, searchBar.text, table', tab, strayed)
    BY <2>3, <2>4, <2>6 DEF FilteredBy
  <2> QED
    BY <2>1, <2>7 DEF Goal
<1>17. CASE TabActivated
  <2> DEFINE p == Tail(posted)
             m == [kind |-> "changed", text |-> ""]
  <2>1. posted # <<>> /\ Head(posted).kind = "activated" /\ UNCHANGED tab
    BY <1>17 DEF TabActivated, Handles
  <2>2. p \in Seq(Post) /\ LastSays(p, searchBar.text) /\ EarlyIsKnown(p)
    BY <1>0, <2>1, SaidTaken, PostTaken DEF FilteredBy
  <2>3. m \in Post /\ m.kind = "changed" /\ m.text = ""
    BY <1>0, PostsAre
  <2>4. CASE searchBar.shown
    <3>1. /\ searchBar' = [searchBar EXCEPT !.text = ""]
          /\ Follows([t \in Table |-> Rebuilt([table[t] EXCEPT !.filter = ""])])
          /\ posted' = IF searchBar.text = "" THEN p ELSE Append(p, m)
      BY <1>17, <2>4 DEF TabActivated
    <3>2. searchBar'.text = ""
      BY <1>0, <3>1
    <3>3. \A t \in Table : table'[t].filter = ""
      BY <1>0, <3>1, ClearedDoes
    <3> HIDE DEF p, m
    <3>4. LastSays(posted', "") /\ EarlyIsKnown(posted')
      BY <2>2, <2>3, <3>1, SaidAppended
    <3>5. FilteredBy(posted', searchBar'.shown, "", table', tab', strayed')
      BY <3>3, <3>4, FilteredCleared
    <3> QED
      BY <3>2, <3>5 DEF Goal
  <2>5. CASE ~searchBar.shown
    <3>1. /\ strayed' = (strayed \/ searchBar.text # "" \/ Head(posted).early) /\ posted' = p
          /\ searchBar' = searchBar /\ table' = table
      BY <1>17, <2>5 DEF TabActivated
    <3>2. ASSUME ~strayed', NEW t \in Table PROVE table[t].filter = "" /\ searchBar.text = ""
      <4>1. ~strayed /\ searchBar.text = "" /\ ~Head(posted).early
        BY <3>1, <3>2
      <4>2. FirstIsCalm(posted)
        BY <1>0, <2>1, <4>1, SaidTaken
      <4> QED
        BY <1>0, <2>5, <4>1, <4>2 DEF FilteredBy
    <3> HIDE DEF p
    <3>3. FilteredBy(p, searchBar.shown, searchBar.text, table, tab, strayed')
      BY <2>2, <3>2 DEF FilteredBy
    <3> QED
      BY <2>1, <3>1, <3>3 DEF Goal
  <2> QED
    BY <2>4, <2>5
<1>18. CASE posted' = posted /\ searchBar' = searchBar /\ table' = table /\ tab' = tab /\ strayed' = strayed
  BY <1>0, <1>1, <1>18
<1>19. \/ \E d \in Endpoint : CacheChanges(d)
       \/ SubmitText \/ SelectRow \/ ShowSearch
       \/ (\E column \in {"announce", "name"} : SortBy(column)) \/ Toggle \/ (\E i : MoveCursor(i))
       \/ RefreshTables \/ ComesBack \/ DevicesUpdated \/ InputSubmitted \/ RowSelected
       \/ \E text \in Text : TypeText(text)
       \/ DismissSearch \/ (\E t \in Table \cup {"diagnostics"} : SwitchTab(t))
       \/ InputChanged \/ TabActivated
       \/ (posted' = posted /\ searchBar' = searchBar /\ table' = table /\ tab' = tab /\ strayed' = strayed)
  BY DEF TablesNext, tablesVars, NodeAges, SelectDevice
<1> QED
  BY <1>4, <1>5, <1>6, <1>7, <1>8, <1>9, <1>10, <1>11, <1>12, <1>13, <1>14, <1>15, <1>16, <1>17, <1>18, <1>19 DEF Goal

\* What is selected stays in the open table while nothing is disturbed.
LEMMA SelectedStays == CacheInv /\ BarInv /\ PostsInv /\ TableRowsInv /\ SelectedInv /\ [TablesNext]_tablesVars => SelectedInv'
<1> SUFFICES ASSUME CacheInv, BarInv, PostsInv, TableRowsInv, SelectedInv, [TablesNext]_tablesVars, ~disturbed',
                    NEW i \in DOMAIN posted', posted'[i].kind = "selected"
             PROVE  posted'[i].from = tab' /\ tab' \in Table /\ posted'[i].key \in table'[tab'].holds
  BY DEF SelectedInv
<1>0. posted \in Seq(Post) /\ EveryEndpoint(recency) /\ "" \in Text
  BY DEF PostsInv, CacheInv, Text
\* What is under way was so before, but for what is just selected.
<1>1. ASSUME ~disturbed, tab' = tab, NEW j \in DOMAIN posted, posted'[i] = posted[j],
             \A t \in Table : table'[t].holds = table[t].holds
      PROVE  posted'[i].from = tab' /\ tab' \in Table /\ posted'[i].key \in table'[tab'].holds
  BY <1>1 DEF SelectedInv
<1>2. ASSUME NEW m \in Post, posted' = Append(posted, m), m.kind # "selected" PROVE \E j \in DOMAIN posted : posted'[i] = posted[j]
  BY <1>0, <1>2, PostAppended
<1>3. ASSUME posted # <<>>, posted' = Tail(posted) PROVE \E j \in DOMAIN posted : posted'[i] = posted[j]
  BY <1>0, <1>3, PostTaken
<1>4. ASSUME tab' = tab, disturbed' = disturbed, table' = table, NEW j \in DOMAIN posted, posted'[i] = posted[j]
      PROVE  posted'[i].from = tab' /\ tab' \in Table /\ posted'[i].key \in table'[tab'].holds
  BY <1>1, <1>4
<1>5. CASE \E d \in Endpoint : CacheChanges(d)
  <2>1. posted' = Append(posted, [kind |-> "updated"]) /\ tab' = tab /\ disturbed' = disturbed /\ table' = table
    BY <1>5 DEF CacheChanges, Posts
  <2> QED
    BY <1>2, <1>4, <2>1, PostsAre
<1>6. CASE SubmitText
  <2>1. posted' = Append(posted, [kind |-> "submitted"]) /\ tab' = tab /\ disturbed' = disturbed /\ table' = table
    BY <1>6 DEF SubmitText, Posts
  <2> QED
    BY <1>2, <1>4, <2>1, PostsAre
<1>7. CASE \E text \in Text : TypeText(text)
  <2>1. PICK text \in Text : TypeText(text)
    BY <1>7
  <2>2. posted' = Append(posted, [kind |-> "changed", text |-> text]) /\ tab' = tab /\ disturbed' = disturbed /\ table' = table
    BY <2>1 DEF TypeText, Posts
  <2> QED
    BY <1>2, <1>4, <2>2, PostsAre
<1>8. CASE DismissSearch
  <2>1. disturbed' = disturbed /\ tab' = tab /\ tab \notin Table /\ table' = table
    BY <1>8 DEF DismissSearch
  <2>2. posted' = posted \/ posted' = Append(posted, [kind |-> "changed", text |-> ""])
    BY <1>8 DEF DismissSearch, Posts
  <2>3. \E j \in DOMAIN posted : posted'[i] = posted[j]
    BY <1>0, <1>2, <2>2, PostsAre
  <2> QED
    BY <1>4, <2>1, <2>3
<1>9. CASE SelectRow
  <2> DEFINE m == [kind |-> "selected", key |-> KeyOf(table[tab]), from |-> tab]
  <2>1. /\ posted' = Append(posted, m) /\ tab \in Table /\ table[tab].rows # <<>> /\ tab' = tab /\ table' = table
        /\ disturbed' = (disturbed /\ \E j \in DOMAIN posted : posted[j].kind = "selected")
    BY <1>9 DEF SelectRow, Posts
  <2>2. KeyOf(table[tab]) \in Endpoint \cup {NoNode} /\ RowsInPlace(table[tab])
    BY <2>1 DEF TableRowsInv
  <2>3. KeyOf(table[tab]) \in table[tab].holds
    BY <2>1, <2>2 DEF RowsInPlace, KeyOf, ToSet
  <2>4. m \in Post /\ m.from = tab /\ m.key = KeyOf(table[tab])
    BY <2>1, <2>2, PostsAre
  <2> HIDE DEF m
  <2>5. CASE posted'[i] = m
    BY <2>1, <2>3, <2>4, <2>5
  <2>6. ASSUME NEW j \in DOMAIN posted, posted'[i] = posted[j]
        PROVE  posted'[i].from = tab' /\ tab' \in Table /\ posted'[i].key \in table'[tab'].holds
    <3>1. ~disturbed
      BY <2>1, <2>6
    <3> QED
      BY <1>1, <2>1, <2>6, <3>1
  <2> QED
    BY <1>0, <2>1, <2>4, <2>5, <2>6, PostAppended
<1>10. CASE (\E column \in {"announce", "name"} : SortBy(column)) \/ Toggle \/ \E k : MoveCursor(k)
  <2>1. posted' = posted /\ tab' = tab /\ disturbed' = disturbed
    BY <1>10 DEF SortBy, Toggle, MoveCursor
  <2> QED
    BY <1>0, <1>1, <1>10, <2>1, SortedDoes DEF SameTables
<1>11. CASE InputChanged
  <2>1. /\ posted # <<>> /\ posted' = Tail(posted) /\ Head(posted).kind = "changed"
        /\ tab' = tab /\ disturbed' = disturbed
        /\ OnTable([table[tab] EXCEPT !.filter = Head(posted).text]) \/ table' = table
    BY <1>11 DEF InputChanged, Handles
  <2>2. Head(posted).text \in Text
    BY <1>0, <2>1, PostsAre, PostTaken
  <2>3. \A t \in Table : table'[t].holds = table[t].holds
    BY <1>0, <2>1, <2>2, FilteredDoes
  <2> QED
    BY <1>1, <1>3, <2>1, <2>3
<1>12. CASE InputSubmitted \/ RowSelected
  <2>1. posted # <<>> /\ posted' = Tail(posted) /\ tab' = tab /\ disturbed' = disturbed /\ table' = table
    BY <1>12 DEF InputSubmitted, RowSelected, Handles
  <2> QED
    BY <1>3, <1>4, <2>1
<1>13. CASE TabActivated
  <2> DEFINE m == [kind |-> "changed", text |-> ""]
             p == Tail(posted)
  <2>1. /\ posted' = p \/ posted' = Append(p, m)
        /\ tab' = tab /\ disturbed' = disturbed
        /\ Follows([t \in Table |-> Rebuilt([table[t] EXCEPT !.filter = ""])]) \/ table' = table
    BY <1>13 DEF TabActivated, Handles
  <2>2. \A t \in Table : table'[t].holds = table[t].holds
    BY <1>0, <2>1, ClearedDoes
  <2>3. m \in Post /\ m.kind = "changed"
    BY <1>0, PostsAre
  <2>4. posted # <<>> /\ p \in Seq(Post)
    BY <1>0, <1>13, PostTaken DEF TabActivated, Handles
  <2> HIDE DEF m
  <2>5. CASE posted' = Append(p, m)
    <3>1. \E j \in DOMAIN p : posted'[i] = p[j]
      <4> HIDE DEF p
      <4> QED
        BY <2>3, <2>4, <2>5, PostAppended
    <3>2. \E j \in DOMAIN posted : posted'[i] = posted[j]
      <4>1. PICK j \in DOMAIN p : posted'[i] = p[j]
        BY <3>1
      <4>2. j + 1 \in DOMAIN posted /\ p[j] = posted[j + 1]
        BY <1>0, <2>4, PostTaken
      <4> QED
        BY <4>1, <4>2
    <3> QED
      BY <1>1, <2>1, <2>2, <3>2
  <2>6. CASE posted' = p
    BY <1>1, <1>3, <2>1, <2>2, <2>4, <2>6
  <2> QED
    BY <2>1, <2>5, <2>6
<1>14. CASE posted' = posted /\ table' = table /\ tab' = tab /\ disturbed' = disturbed
  BY <1>4, <1>14
<1>15. \/ \E d \in Endpoint : CacheChanges(d)
       \/ SubmitText \/ (\E text \in Text : TypeText(text)) \/ DismissSearch \/ SelectRow
       \/ (\E column \in {"announce", "name"} : SortBy(column)) \/ Toggle \/ (\E k : MoveCursor(k))
       \/ InputChanged \/ InputSubmitted \/ RowSelected \/ TabActivated
       \/ (posted' = posted /\ table' = table /\ tab' = tab /\ disturbed' = disturbed)
  BY DEF TablesNext, tablesVars, NodeAges, SelectDevice, SwitchTab, ShowSearch, RefreshTables, ComesBack, DevicesUpdated
<1> QED
  BY <1>5, <1>6, <1>7, <1>8, <1>9, <1>10, <1>11, <1>12, <1>13, <1>14, <1>15

\* What a row is opened as.
LEMMA OpenedStays == PostsInv /\ TableRowsInv /\ SelectedInv /\ OpenedInv /\ [TablesNext]_tablesVars => OpenedInv'
<1> SUFFICES ASSUME PostsInv, TableRowsInv, SelectedInv, OpenedInv, [TablesNext]_tablesVars PROVE OpenedInv'
  OBVIOUS
<1>1. CASE detail' = detail /\ (disturbed /\ ~inFront => disturbed' /\ ~inFront')
  BY <1>1 DEF OpenedInv
<1>2. ASSUME NEW key, OpensNode(key), tab \in Table /\ (key = NoNode \/ key \in table[tab].holds) PROVE OpenedInv'
  <2> DEFINE node == IF tab \in Table /\ key \in table[tab].holds THEN key ELSE NoNode
  <2>1. detail' = [key |-> key, node |-> node, whose |-> IF node = NoNode THEN key ELSE WhoseIs[node]]
    BY <1>2 DEF OpensNode
  <2>2. key = NoNode \/ (node = key /\ node # NoNode)
    BY <1>2
  <2> HIDE DEF node
  <2>3. detail'.key = NoNode \/ (detail'.node = detail'.key /\ detail'.whose = WhoseIs[detail'.key])
    BY <2>1, <2>2
  <2> QED
    BY <2>3 DEF OpenedInv
<1>3. CASE SelectDevice
  <2>1. tab \in Table /\ OpensNode(KeyOf(table[tab]))
    BY <1>3 DEF SelectDevice
  <2>2. RowsInPlace(table[tab])
    BY <2>1 DEF TableRowsInv
  <2>3. KeyOf(table[tab]) = NoNode \/ KeyOf(table[tab]) \in table[tab].holds
    BY <2>2 DEF RowsInPlace, KeyOf, ToSet
  <2> QED
    BY <1>2, <2>1, <2>3
<1>4. CASE ComesBack
  BY <1>4 DEF ComesBack, OpenedInv
<1>5. CASE RowSelected
  <2> DEFINE m == Head(posted)
  <2>1. /\ posted # <<>> /\ m.kind = "selected" /\ disturbed' = disturbed
        /\ IF m.from = "pages"
           THEN /\ detail' = IF tab \in Table /\ m.key \in table[tab].holds
                             THEN [key |-> m.key, node |-> m.key, whose |-> WhoseIs[m.key]] ELSE detail
                /\ inFront' = inFront
           ELSE OpensNode(m.key)
    BY <1>5 DEF RowSelected, Handles
  <2>2. ~disturbed => tab \in Table /\ m.key \in table[tab].holds
    <3>1. 1 \in DOMAIN posted /\ posted[1] = m
      BY <2>1, PostTaken DEF PostsInv
    <3> HIDE DEF m
    <3> QED
      BY <2>1, <3>1 DEF SelectedInv
  <2>3. CASE m.from = "pages" /\ tab \in Table /\ m.key \in table[tab].holds
    <3> HIDE DEF m
    <3>1. detail' = [key |-> m.key, node |-> m.key, whose |-> WhoseIs[m.key]]
      BY <2>1, <2>3
    <3>2. detail'.node = detail'.key /\ detail'.whose = WhoseIs[detail'.key]
      BY <3>1
    <3> QED
      BY <3>2 DEF OpenedInv
  <2>4. CASE m.from = "pages" /\ ~(tab \in Table /\ m.key \in table[tab].holds)
    BY <1>1, <2>1, <2>4
  <2>5. CASE m.from # "pages" /\ ~disturbed
    BY <1>2, <2>1, <2>2, <2>5
  <2>6. CASE m.from # "pages" /\ disturbed
    <3>1. inFront' = FALSE /\ disturbed'
      BY <2>1, <2>6 DEF OpensNode
    <3> QED
      BY <3>1 DEF OpenedInv
  <2> QED
    BY <2>3, <2>4, <2>5, <2>6
<1>6. CASE SelectRow
  <2>1. detail' = detail /\ inFront' = inFront /\ inFront
    BY <1>6 DEF SelectRow, Acts
  <2> QED
    BY <1>1, <2>1
<1>7. \/ SelectDevice \/ ComesBack \/ RowSelected \/ SelectRow
      \/ (detail' = detail /\ inFront' = inFront /\ (disturbed' = disturbed \/ disturbed' = TRUE))
  BY DEF TablesNext, tablesVars, CacheChanges, NodeAges, TypeText, SwitchTab, SortBy, MoveCursor, ShowSearch, SubmitText,
         DismissSearch, Toggle, RefreshTables, DevicesUpdated, InputChanged, InputSubmitted, TabActivated
<1> QED
  BY <1>1, <1>3, <1>4, <1>5, <1>6, <1>7

LEMMA TablesStay == TablesInv /\ [TablesNext]_tablesVars => TablesInv'
BY CacheStays, BarStays, PostsStay, ActsStay, TableRowsStay, FiltersStay, SelectedStays, OpenedStays DEF TablesInv

LEMMA TablesShow == TablesInv => TablesTypeOK /\ FilterIsBar /\ OpenedIsSelected /\ TablesAgree /\ CursorStaysOnNode
<1> SUFFICES ASSUME TablesInv PROVE TablesTypeOK /\ FilterIsBar /\ OpenedIsSelected /\ TablesAgree /\ CursorStaysOnNode
  OBVIOUS
<1>1. TablesTypeOK
  <2>1. cachedNodes \subseteq Endpoint /\ ToSet(recency) = Endpoint /\ statusOf \in [Endpoint -> {"active", "stale", "lost"}]
    BY DEF TablesInv, CacheInv, EveryEndpoint
  <2>2. ASSUME NEW t \in Table
        PROVE  /\ table[t].holds \subseteq Endpoint /\ table[t].filter \in Text
               /\ table[t].lost \in BOOLEAN /\ table[t].stale \in BOOLEAN
               /\ table[t].by \in {"announce", "name"} /\ table[t].reverse \in BOOLEAN
               /\ IF table[t].rows = <<>> THEN table[t].cursor = 0 ELSE table[t].cursor \in DOMAIN table[t].rows
               /\ wanted[t] \in Endpoint \cup {NoNode}
    <3>1. table[t] \in TableState /\ RowsInPlace(table[t]) /\ wanted[t] \in Endpoint \cup {NoNode}
      BY DEF TablesInv, TableRowsInv
    <3>2. IF table[t].rows = <<>> THEN table[t].cursor = 0 ELSE table[t].cursor \in DOMAIN table[t].rows
      BY <3>1 DEF RowsInPlace
    <3> QED
      BY <3>1, <3>2 DEF TableState
  <2>3. tab \in Table \cup {"diagnostics"} /\ searchBar.shown \in BOOLEAN /\ searchBar.text \in Text
    BY DEF TablesInv, BarInv
  <2>4. detail.node \in Endpoint \cup {NoNode} /\ inFront \in BOOLEAN /\ strayed \in BOOLEAN /\ disturbed \in BOOLEAN
    BY DEF TablesInv, BarInv
  <2>5. Len(posted) <= MaxPosts + 1
    <3>1. Len(posted) <= MaxPosts /\ Len(posted) \in Nat /\ MaxPosts \in Nat
      BY TablesAssumption DEF TablesInv, PostsInv
    <3> QED
      BY <3>1
  <2>6. acts \in 0..MaxActs /\ news \in 0..MaxNews
    BY DEF TablesInv, ActsInv
  <2> QED
    BY <2>1, <2>2, <2>3, <2>4, <2>5, <2>6 DEF TablesTypeOK
<1>2. FilterIsBar
  <2>1. SUFFICES ASSUME posted = <<>>, ~strayed, NEW t \in Table
                 PROVE  table[t].filter = IF t = tab THEN searchBar.text ELSE ""
    BY DEF FilterIsBar
  <2>2. ~Pending(posted, "activated") /\ ~Pending(posted, "changed")
    BY <2>1 DEF Pending
  <2> QED
    BY <2>1, <2>2 DEF TablesInv, FiltersInv, FilteredBy
<1>3. OpenedIsSelected
  BY DEF TablesInv, OpenedInv, OpenedIsSelected
<1>4. TablesAgree
  <2> DEFINE h == [t \in Table |-> table[t].holds]
  <2>1. HoldTogether(h)
    BY DEF TablesInv, HoldsInv
  <2>2. h["styrene"] = table["styrene"].holds /\ h["lxmf"] = table["lxmf"].holds /\ h["pages"] = table["pages"].holds
    BY DEF Table
  <2> HIDE DEF h
  <2>3. \A t \in Table : IsInjective(table[t].rows) /\ ToSet(table[t].rows) \subseteq table[t].holds
    BY DEF TablesInv, TableRowsInv, RowsInPlace
  <2>4. /\ \A c \in table["styrene"].holds, d \in table["lxmf"].holds : WhoseIs[c] # WhoseIs[d]
        /\ \A c, d \in table["styrene"].holds : WhoseIs[c] = WhoseIs[d] => c = d
        /\ \A d \in table["pages"].holds : TypeOf[d] = "styrene" =>
              \E c \in table["styrene"].holds : WhoseIs[c] = WhoseIs[d]
    BY <2>1, <2>2 DEF HoldTogether
  <2> QED
    BY <2>3, <2>4 DEF TablesAgree
<1>5. CursorStaysOnNode
  BY DEF TablesInv, TableRowsInv, CursorStaysOnNode
<1> QED
  BY <1>1, <1>2, <1>3, <1>4, <1>5

LEMMA TablesInvariant == TablesSpec => []TablesInv
<1>1. TablesInit => TablesInv
  BY TablesStart
<1>2. TablesInv /\ [TablesNext]_tablesVars => TablesInv'
  BY TablesStay
<1> QED
  BY <1>1, <1>2, PTL DEF TablesSpec

\* The tables of the Nodes screen (NodeTables): filters, cursor, what is opened, and
\* what the tables hold.
THEOREM TablesAreTrue ==
  TablesSpec => [](TablesTypeOK /\ FilterIsBar /\ OpenedIsSelected /\ TablesAgree /\ CursorStaysOnNode)
<1>1. TablesInv => TablesTypeOK /\ FilterIsBar /\ OpenedIsSelected /\ TablesAgree /\ CursorStaysOnNode
  BY TablesShow
<1> QED
  BY <1>1, TablesInvariant, PTL
================================================================================
