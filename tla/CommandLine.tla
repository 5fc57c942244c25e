------------------------------ MODULE CommandLine ------------------------------
(***************************************************************************)
(* One command of the command line (cli.py).  A command asks the daemon when  *)
(* one runs; when that fails, for whatever reason, it starts the services in  *)
(* its own process, finds the node and asks it itself.  What it asks for may   *)
(* be carried out by the daemon, or by a node, after it has given up.          *)
(***************************************************************************)
EXTENDS Naturals, FiniteSets

\* "query": inbox, remote-messages, conversations, messages and the local status;
\* "block": block, unblock and blocked.
Commands == {"devices", "status", "send", "exec", "update", "announce", "shell", "query", "block"}
NeedsDaemon == {"query", "block"}
Discovers == {"devices", "status", "send", "exec", "update", "shell"}

VARIABLES
    verb,
    at,      \* where its function is
    pipe,      \* the connection to the daemon
    core,      \* CoreLifecycle: "down", "half" after a failed start, "up"
    listening, \* discovery runs
    requested,     \* where a request is that nobody has carried out: "daemon", "mesh"
    reply,     \* what the one that was asked last says
    carried,   \* how often it was carried out
    gaveUp,    \* why the command has tried another way
    code       \* the exit code

commandVars == <<verb, at, pipe, core, listening, requested, reply, carried, gaveUp, code>>

NoCode == 999
CommandEnded == at \in {"returned", "raised"}
Calling == at \in {"sending", "calling"}

CommandTypeOK ==
    /\ verb \in Commands /\ pipe \in {"none", "open", "closed"} /\ core \in {"down", "half", "up"}
    /\ at \in {"begun", "asking", "printing", "alone", "lxmf", "finding", "listening", "direct", "found",
                "sending", "calling", "returned", "raised"}
    /\ listening \in BOOLEAN /\ requested \subseteq {"daemon", "mesh"} /\ reply \in {"none", "good", "bad"}
    /\ carried \in 0..3 /\ gaveUp \subseteq {"no answer", "unprinted", "undelivered"}
    /\ code \in {NoCode, 0, 1, 130} /\ (code # NoCode <=> CommandEnded)

CommandInit ==
    /\ verb \in Commands /\ at = "begun" /\ pipe = "none" /\ core = "down" /\ listening = FALSE
    /\ requested = {} /\ reply = "none" /\ carried = 0 /\ gaveUp = {} /\ code = NoCode

\* return, with the services shut down if there are any.
Returns(c) == at' = "returned" /\ code' = c /\ core' = "down" /\ listening' = FALSE

\* An exception leaves the function: main() logs it and exits with 1.
Raises == at' = "raised" /\ code' = 1 /\ UNCHANGED <<core, listening>>

-----------------------------------------------------------------------------
(* The daemon.                                                             *)

\* The shell always works alone, if it takes the address.
TryIpcClient ==
    /\ at = "begun"
    /\ \/ /\ verb = "shell"
          /\ \/ at' = "alone" /\ UNCHANGED <<code, core, listening>>
             \/ Returns(1)
          /\ UNCHANGED <<pipe, requested>>
       \/ /\ verb # "shell" /\ pipe' = "open" /\ at' = "asking" /\ requested' = {"daemon"}
          /\ UNCHANGED <<code, core, listening>>
       \/ /\ verb = "query" /\ Returns(1) /\ UNCHANGED <<pipe, requested>>
       \/ /\ verb = "block" /\ Raises /\ UNCHANGED <<pipe, requested>>
       \/ /\ verb \notin {"query", "block", "shell"} /\ at' = "alone"
          /\ UNCHANGED <<pipe, requested, code, core, listening>>
    /\ UNCHANGED <<verb, reply, carried, gaveUp>>

\* The daemon does what it was asked, waited for or not; its answer reaches only a
\* command that waits.
DaemonCarriesOut ==
    /\ "daemon" \in requested /\ requested' = requested \ {"daemon"} /\ carried' = carried + 1
    /\ reply' \in (IF at = "asking" THEN {"good", "bad"} ELSE {reply})
    /\ UNCHANGED <<verb, at, pipe, core, listening, gaveUp, code>>

DaemonAnswered ==
    /\ at = "asking" /\ reply # "none" /\ pipe' = "closed" /\ at' = "printing"
    /\ UNCHANGED <<verb, core, listening, requested, reply, carried, gaveUp, code>>

\* Mutant of PrintsAnswer: only a good result ends the command.
PrintsGoodAnswer ==
    /\ at = "printing"
    /\ IF reply = "good" THEN Returns(0) ELSE at' = "alone" /\ UNCHANGED <<code, core, listening>>
    /\ UNCHANGED <<verb, pipe, requested, reply, carried, gaveUp>>

\* What goes wrong while the answer is written is caught with everything else.
PrintsAnswer ==
    /\ at = "printing"
    /\ Returns(IF reply = "good" THEN 0 ELSE 1)
    /\ UNCHANGED <<verb, pipe, requested, reply, carried, gaveUp>>

\* An error, a timeout, the end of the connection, or an answer that cannot be
\* written: what can be done alone is tried again.
FallsBack ==
    /\ \/ at = "asking" /\ reply = "none" /\ gaveUp' = gaveUp \cup {"no answer"}
       \/ at = "printing" /\ gaveUp' = gaveUp \cup {"unprinted"}
    /\ pipe' = "closed" /\ reply' = "none"
    /\ IF verb \in NeedsDaemon THEN Returns(1) ELSE at' = "alone" /\ UNCHANGED <<code, core, listening>>
    /\ requested' \in {requested, {}}    \* the daemon has refused it, or still has it
    /\ UNCHANGED <<verb, carried>>

-----------------------------------------------------------------------------
(* Alone.                                                                  *)

InitializeCore ==
    /\ at = "alone"
    /\ \/ /\ core' = "up"
          /\ at' = CASE verb = "devices" -> "finding" [] verb = "announce" -> "found" [] OTHER -> "lxmf"
          /\ UNCHANGED <<code, listening>>
       \/ at' = "returned" /\ code' = 1 /\ core' = "half" /\ UNCHANGED listening
    /\ UNCHANGED <<verb, pipe, requested, reply, carried, gaveUp>>

InitializeLxmf ==
    /\ at = "lxmf"
    /\ \/ at' = "finding" /\ UNCHANGED <<code, core, listening>>
       \/ Returns(1)
    /\ UNCHANGED <<verb, pipe, requested, reply, carried, gaveUp>>

\* A path, or an identity that is known, spares a send or a shell the announces; an
\* address that is no hash raises in a send.
ResolvePath ==
    /\ at = "finding" /\ verb \in {"send", "shell"}
    /\ \/ at' = (IF verb = "send" THEN "direct" ELSE "found") /\ UNCHANGED <<code, core, listening>>
       \/ at' = "listening" /\ listening' = TRUE /\ UNCHANGED <<code, core>>
       \/ verb = "send" /\ Raises
    /\ UNCHANGED <<verb, pipe, requested, reply, carried, gaveUp>>

StartDiscovery ==
    /\ at = "finding" /\ verb \in Discovers \ {"send", "shell"}
    /\ at' = "listening" /\ listening' = TRUE
    /\ UNCHANGED <<verb, pipe, core, requested, reply, carried, gaveUp, code>>

\* Mutant of DiscoveryEnds: a node that was found is called while listening.
DiscoveryGoesOn ==
    /\ at = "listening" /\ verb # "devices"
    /\ \/ at' = "found" /\ UNCHANGED <<code, core, listening>>
       \/ Returns(1)
    /\ UNCHANGED <<verb, pipe, requested, reply, carried, gaveUp>>

\* The shell goes on listening.
DiscoveryEnds ==
    /\ at = "listening"
    /\ \/ /\ verb # "devices" /\ at' = "found" /\ listening' = (verb = "shell")
          /\ UNCHANGED <<code, core>>
       \/ verb = "devices" /\ Returns(0)
       \/ verb # "devices" /\ Returns(1)
    /\ UNCHANGED <<verb, pipe, requested, reply, carried, gaveUp>>

\* The message database is opened before the call; a migration that fails raises.
AsksNode ==
    /\ at \in {"direct", "found"}
    /\ \/ verb \in {"status", "exec", "update", "shell"} /\ Raises /\ UNCHANGED <<requested, carried>>
       \/ verb = "announce" /\ Returns(1) /\ UNCHANGED <<requested, carried>>
       \/ verb = "announce" /\ Returns(0) /\ carried' = carried + 1 /\ UNCHANGED requested
       \/ /\ verb # "announce" /\ at' = (IF at = "direct" THEN "sending" ELSE "calling")
          /\ requested' = requested \cup {"mesh"}
          /\ UNCHANGED <<code, core, listening, carried>>
    /\ UNCHANGED <<verb, pipe, reply, gaveUp>>

NodeCarriesOut ==
    /\ "mesh" \in requested /\ requested' = requested \ {"mesh"} /\ carried' = carried + 1
    /\ reply' \in (IF ~Calling THEN {reply} ELSE IF verb = "send" THEN {"good"} ELSE {"good", "bad"})
    /\ UNCHANGED <<verb, at, pipe, core, listening, gaveUp, code>>

CallReturned ==
    /\ Calling /\ reply # "none" /\ Returns(IF reply = "good" THEN 0 ELSE 1)
    /\ UNCHANGED <<verb, pipe, requested, reply, carried, gaveUp>>

\* An error, or no answer in time: a send that was direct looks for the node first.
CallFails ==
    /\ Calling /\ reply = "none"
    /\ IF at = "sending"
       THEN /\ gaveUp' = gaveUp \cup {"undelivered"} /\ at' = "listening" /\ listening' = TRUE
            /\ UNCHANGED <<code, core>>
       ELSE Returns(1) /\ UNCHANGED gaveUp
    /\ requested' \in {requested, requested \ {"mesh"}}
    /\ UNCHANGED <<verb, pipe, reply, carried>>

\* Ctrl-C cancels the function: only devices and the shell shut down on the way out.
Interrupted ==
    /\ ~CommandEnded /\ at' = "raised" /\ code' = 130
    /\ IF verb \in {"devices", "shell"} /\ at \in {"finding", "listening", "calling"}
             /\ ~(verb = "shell" /\ at # "calling")
       THEN core' = "down" /\ listening' = FALSE
       ELSE UNCHANGED <<core, listening>>
    /\ pipe' \in {pipe, IF verb = "block" THEN "closed" ELSE pipe}
    /\ UNCHANGED <<verb, requested, reply, carried, gaveUp>>

CommandNext ==
    \/ TryIpcClient \/ DaemonCarriesOut \/ DaemonAnswered \/ PrintsAnswer \/ FallsBack \/ InitializeCore
    \/ InitializeLxmf \/ ResolvePath \/ StartDiscovery \/ DiscoveryEnds \/ AsksNode \/ NodeCarriesOut
    \/ CallReturned \/ CallFails \/ Interrupted

CommandSpec == CommandInit /\ [][CommandNext]_commandVars

-----------------------------------------------------------------------------
(* Properties.                                                             *)

\* A command that succeeds was carried out; it is carried out a second time only if
\* an earlier attempt went without an answer, was not delivered in time or could not
\* be printed, and no more often than the command has ways to try.
CarriedOutOnce ==
    /\ code = 0 /\ verb \in {"send", "exec", "update", "announce", "block"} => carried >= 1
    /\ carried <= 1 + Cardinality(gaveUp)

\* A command that returns has closed the daemon's connection, and its services unless
\* they failed to start; none but the shell asks a node while discovery runs.
ServicesAreStopped ==
    /\ at = "returned" => pipe # "open" /\ core # "up" /\ ~listening
    /\ Calling /\ listening => verb = "shell"
================================================================================
