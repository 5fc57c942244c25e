---------------------------- MODULE DaemonManager ----------------------------
(***************************************************************************)
(* The user interface and the daemon process it depends on: DaemonManager  *)
(* (tui/services/daemon_manager.py), StyreneLifecycle                      *)
(* (tui/services/app_lifecycle.py) and the tasks of the app that use them: *)
(* the splash screen, the setup screen's "Start Now", initialize_async(),  *)
(* ctrl+r and shutdown_async().  One asyncio loop; a step is what runs     *)
(* between two awaits.                                                     *)
(*                                                                         *)
(* A manager is named for who creates it: "setup" the setup screen, "boot" *)
(* the lifecycle, "spare" ctrl+r when the lifecycle has none.  The         *)
(* processes are outside: they start slowly, hang, ignore SIGTERM, die.    *)
(***************************************************************************)
EXTENDS Naturals, FiniteSets, TLAPS

CONSTANTS
    Daemon,         \* processes; the name of a dead one is used again
    RestartStages,  \* bound: stages of the app in which the user presses ctrl+r;
                    \* never while the splash or setup screen is up
    MaxRestarts,    \* bound: times the user does
    MaxFailures,    \* bound: times a process hangs or dies by itself
    NoDaemon

ASSUME ManagerAssumption ==
    /\ NoDaemon \notin Daemon
    /\ MaxRestarts \in Nat /\ MaxFailures \in Nat
    /\ RestartStages \subseteq {"running", "offline"}

Manager == {"setup", "boot", "spare"}
Flow == {"setup", "boot", "restart", "exit"}
Busy == {"ping", "poll", "term", "pause"}

VARIABLES
    state,     \* a process: "none", "starting", "serving", "stuck" or "gone"
    parent,    \* the manager that spawned it, or "nobody"
    told,      \* processes that have been sent SIGTERM
    process,   \* manager._process
    running,   \* manager._running
    health,    \* manager._health_task: "none", "active" or "ended"
    misses,    \* consecutive_failures of its _monitor_health
    stage,     \* the app: "splash", ..., "closed" (cleaned up) or "quit" (not)
    holder,    \* lifecycle._daemon_manager
    pc,        \* a task: where its manager call stands, or how it ended
    target,    \* the manager it calls
    child,     \* the process its shutdown() waits for
    after,     \* what comes after that
    restarts, failures

daemonVars == <<state, parent, told>>
managerVars == <<process, running, health, misses>>
appVars == <<stage, holder>>
flowVars == <<pc, target, child, after>>
bounds == <<restarts, failures>>
vars == <<daemonVars, managerVars, appVars, flowVars, bounds>>

TypeOK ==
    /\ state \in [Daemon -> {"none", "starting", "serving", "stuck", "gone"}]
    /\ parent \in [Daemon -> Manager \union {"nobody"}]
    /\ told \subseteq Daemon
    /\ process \in [Manager -> Daemon \union {NoDaemon}]
    /\ running \in [Manager -> BOOLEAN]
    /\ health \in [Manager -> {"none", "active", "ended"}]
    /\ misses \in [Manager -> 0..2]
    /\ stage \in {"splash", "setup", "boot", "running", "offline", "closing",
                  "closed", "quit"}
    /\ holder \in Manager \union {"none"}
    /\ pc \in [Flow -> Busy \union {"idle", "ok", "failed", "stopped"}]
    /\ target \in [Flow -> Manager]
    /\ child \in [Flow -> Daemon \union {NoDaemon}]
    /\ after \in [Flow -> {"failed", "pause", "stopped"}]
    /\ restarts \in 0..MaxRestarts /\ failures \in 0..MaxFailures

Init ==
    /\ state = [d \in Daemon |-> "none"]
    /\ parent = [d \in Daemon |-> "nobody"]
    /\ told = {}
    /\ process = [m \in Manager |-> NoDaemon]
    /\ running = [m \in Manager |-> FALSE]
    /\ health = [m \in Manager |-> "none"]
    /\ misses = [m \in Manager |-> 0]
    /\ stage = "splash"
    /\ holder = "none"
    /\ pc = [f \in Flow |-> "idle"]
    /\ target = [f \in Flow |-> IF f = "setup" THEN "setup" ELSE "boot"]
    /\ child = [f \in Flow |-> NoDaemon]
    /\ after = [f \in Flow |-> "stopped"]
    /\ restarts = 0
    /\ failures = 0

Alive(d) == state[d] \in {"starting", "serving", "stuck"}

\* What _ping() finds: something answers on the socket.
Reachable == \E d \in Daemon : state[d] = "serving"

\* A process for the next spawn: one that nobody refers to any more.
Unused ==
    {d \in Daemon : /\ ~Alive(d)
                    /\ \A m \in Manager : process[m] # d
                    /\ \A f \in Flow : child[f] # d}

Born(d, m) ==
    /\ state' = [state EXCEPT ![d] = "starting"]
    /\ parent' = [parent EXCEPT ![d] = m]
    /\ told' = told \ {d}

Goto(f, point) == pc' = [pc EXCEPT ![f] = point]

-----------------------------------------------------------------------------
(* ensure_running and _spawn.                                              *)

\* The daemon answers; from now on its health is watched, unless there is
\* still a health task.
Up(f) ==
    LET m == target[f] IN
    /\ running' = [running EXCEPT ![m] = TRUE]
    /\ health' = [health EXCEPT ![m] = IF @ = "none" THEN "active" ELSE @]
    /\ misses' = [misses EXCEPT ![m] = IF health[m] = "none" THEN 0 ELSE @]
    /\ Goto(f, "ok")
    /\ UNCHANGED process

PingAnswered(f) ==
    /\ pc[f] = "ping"
    /\ Reachable
    /\ Up(f)
    /\ UNCHANGED <<daemonVars, appVars, target, child, after, bounds>>

Spawn(f) ==
    /\ pc[f] = "ping"
    /\ ~Reachable
    /\ \E d \in Unused :
          /\ Born(d, target[f])
          /\ process' = [process EXCEPT ![target[f]] = d]
    /\ Goto(f, "poll")
    /\ UNCHANGED <<running, health, misses, appVars, target, child, after, bounds>>

\* There is no binary, or it cannot be executed.
SpawnFails(f) ==
    /\ pc[f] = "ping"
    /\ ~Reachable
    /\ Goto(f, "failed")
    /\ UNCHANGED <<daemonVars, managerVars, appVars, target, child, after, bounds>>

PollDied(f) ==
    LET m == target[f] IN
    /\ pc[f] = "poll"
    /\ state[process[m]] = "gone"
    /\ process' = [process EXCEPT ![m] = NoDaemon]
    /\ Goto(f, "failed")
    /\ UNCHANGED <<daemonVars, running, health, misses, appVars, target, child,
                   after, bounds>>

\* Whoever it is that answers.
PollAnswered(f) ==
    /\ pc[f] = "poll"
    /\ state[process[target[f]]] # "gone"
    /\ Reachable
    /\ Up(f)
    /\ UNCHANGED <<daemonVars, appVars, target, child, after, bounds>>

\* shutdown() of m for f, up to its first await; next is what comes after it.
StopManager(f, m, next) ==
    /\ health' = [health EXCEPT ![m] = "none"]
    /\ IF process[m] # NoDaemon /\ Alive(process[m])
       THEN /\ told' = told \union {process[m]}
            /\ child' = [child EXCEPT ![f] = process[m]]
            /\ after' = [after EXCEPT ![f] = next]
            /\ Goto(f, "term")
            /\ UNCHANGED <<process, running>>
       ELSE /\ process' = [process EXCEPT ![m] = NoDaemon]
            /\ running' = [running EXCEPT ![m] = FALSE]
            /\ Goto(f, next)
            /\ UNCHANGED <<told, child, after>>

Stop(f, next) == StopManager(f, target[f], next)

\* Mutant of PollTimesOut: _spawn gives up on the process and forgets it.
PollForgets(f) ==
    /\ pc[f] = "poll"
    /\ process' = [process EXCEPT ![target[f]] = NoDaemon]
    /\ Goto(f, "failed")
    /\ UNCHANGED <<daemonVars, running, health, misses, appVars, target, child,
                   after, bounds>>

\* _SOCKET_POLL_TIMEOUT.
PollTimesOut(f) ==
    /\ pc[f] = "poll"
    /\ Stop(f, "failed")
    /\ UNCHANGED <<state, parent, misses, appVars, target, bounds>>

-----------------------------------------------------------------------------
(* The rest of shutdown, and restart.                                      *)

\* The finally clause.
Forget(f) ==
    /\ process' = [process EXCEPT ![target[f]] = NoDaemon]
    /\ running' = [running EXCEPT ![target[f]] = FALSE]
    /\ child' = [child EXCEPT ![f] = NoDaemon]

Exited(f) ==
    /\ pc[f] = "term"
    /\ ~Alive(child[f])
    /\ Forget(f)
    /\ Goto(f, after[f])
    /\ UNCHANGED <<daemonVars, health, misses, appVars, target, after, bounds>>

\* Mutant of GraceEnds: no SIGKILL, shutdown() waits on.
GraceNeverEnds(f) == FALSE

\* _SHUTDOWN_GRACE_SECONDS: SIGKILL, to whatever process the manager has now.
GraceEnds(f) ==
    /\ pc[f] = "term"
    /\ state' = [d \in Daemon |->
                    IF d = process[target[f]] THEN "gone" ELSE state[d]]
    /\ Forget(f)
    /\ Goto(f, after[f])
    /\ UNCHANGED <<parent, told, health, misses, appVars, target, after, bounds>>

\* CancelledError at the await where a call stands: only shutdown() has a
\* finally clause.
Cancelled(f) ==
    IF pc[f] = "term"
    THEN Forget(f)
    ELSE UNCHANGED <<process, running, child>>

PauseEnds(f) ==
    /\ pc[f] = "pause"
    /\ Goto(f, "ping")
    /\ UNCHANGED <<daemonVars, managerVars, appVars, target, child, after, bounds>>

Call(f) ==
    \/ PingAnswered(f) \/ Spawn(f) \/ SpawnFails(f)
    \/ PollDied(f) \/ PollAnswered(f) \/ PollTimesOut(f)
    \/ Exited(f) \/ GraceEnds(f) \/ PauseEnds(f)

\* Mutant of HealthCheck: the task ends without a word.
HealthCheckSilent(m) ==
    /\ health[m] = "active"
    /\ IF Reachable
       THEN misses' = [misses EXCEPT ![m] = 0] /\ UNCHANGED health
       ELSE IF misses[m] = 2
            THEN health' = [health EXCEPT ![m] = "ended"] /\ UNCHANGED misses
            ELSE misses' = [misses EXCEPT ![m] = @ + 1] /\ UNCHANGED health
    /\ UNCHANGED <<daemonVars, process, running, appVars, flowVars, bounds>>

\* Mutant of HealthCheck: it counts one miss too many.
HealthCheckLate(m) ==
    /\ health[m] = "active"
    /\ ~Reachable
    /\ misses' = [misses EXCEPT ![m] = @ + 1]
    /\ IF misses[m] > 2
       THEN running' = [running EXCEPT ![m] = FALSE] /\ health' = [health EXCEPT ![m] = "ended"]
       ELSE UNCHANGED <<running, health>>
    /\ UNCHANGED <<daemonVars, process, appVars, flowVars, bounds>>

\* _monitor_health comes back from its ping; three misses end it.
HealthCheck(m) ==
    /\ health[m] = "active"
    /\ IF Reachable
       THEN misses' = [misses EXCEPT ![m] = 0] /\ UNCHANGED <<running, health>>
       ELSE IF misses[m] = 2
            THEN /\ running' = [running EXCEPT ![m] = FALSE]
                 /\ health' = [health EXCEPT ![m] = "ended"]
                 /\ UNCHANGED misses
            ELSE misses' = [misses EXCEPT ![m] = @ + 1] /\ UNCHANGED <<running, health>>
    /\ UNCHANGED <<daemonVars, process, appVars, flowVars, bounds>>

-----------------------------------------------------------------------------
(* The app.                                                                *)

\* initialize_async(): a manager of its own replaces the setup screen's.
Boot ==
    /\ stage' = "boot"
    /\ holder' = "boot"

\* The splash screen finds a daemon, before or after it has started one.
SplashFinds ==
    /\ stage = "splash"
    /\ Reachable
    /\ Boot
    /\ Goto("boot", "ping")
    /\ UNCHANGED <<daemonVars, managerVars, target, child, after, bounds>>

\* It starts one, detached, if it can; eight seconds later it gives up.
SplashStarts ==
    /\ stage = "splash"
    /\ ~Reachable
    /\ \A d \in Daemon : state[d] = "none"
    /\ \E d \in Unused : Born(d, "nobody")
    /\ UNCHANGED <<managerVars, appVars, flowVars, bounds>>

SplashGivesUp ==
    /\ stage = "splash"
    /\ ~Reachable
    /\ stage' = "setup"
    /\ UNCHANGED <<daemonVars, managerVars, holder, flowVars, bounds>>

StartNow ==
    /\ stage = "setup"
    /\ pc["setup"] \in {"idle", "failed"}
    /\ Goto("setup", "ping")
    /\ UNCHANGED <<daemonVars, managerVars, appVars, target, child, after, bounds>>

SetupDone ==
    /\ stage = "setup"
    /\ pc["setup"] = "ok"
    /\ Boot
    /\ pc' = [pc EXCEPT !["setup"] = "idle", !["boot"] = "ping"]
    /\ UNCHANGED <<daemonVars, managerVars, target, child, after, bounds>>

\* Escape works while the worker starts a daemon: it is cancelled.
Skip ==
    /\ stage = "setup"
    /\ pc["setup"] # "ok"
    /\ stage' = "offline"
    /\ Cancelled("setup")
    /\ Goto("setup", "idle")
    /\ UNCHANGED <<daemonVars, health, misses, holder, target, after, bounds>>

\* The bridge connects: the lifecycle is initialized.
Connects ==
    /\ stage = "boot"
    /\ pc["boot"] = "ok"
    /\ Reachable
    /\ stage' = "running"
    /\ Goto("boot", "idle")
    /\ UNCHANGED <<daemonVars, managerVars, holder, target, child, after, bounds>>

ConnectFails ==
    /\ stage = "boot"
    /\ pc["boot"] = "ok"
    /\ ~Reachable
    /\ Stop("boot", "stopped")
    /\ UNCHANGED <<state, parent, misses, appVars, target, bounds>>

\* No daemon, or no connection: the lifecycle drops its manager.
BootFails ==
    /\ stage = "boot"
    /\ pc["boot"] \in {"failed", "stopped"}
    /\ stage' = "offline"
    /\ holder' = "none"
    /\ Goto("boot", "idle")
    /\ UNCHANGED <<daemonVars, managerVars, target, child, after, bounds>>

\* ctrl+r: the manager of the lifecycle is restarted.
RestartHeld ==
    /\ stage \in RestartStages
    /\ restarts < MaxRestarts
    /\ restarts' = restarts + 1
    /\ holder # "none"
    /\ pc["restart"] \notin Busy
    /\ target' = [target EXCEPT !["restart"] = holder]
    /\ StopManager("restart", holder, "pause")
    /\ UNCHANGED <<state, parent, misses, appVars, failures>>

\* The worker is exclusive: another ctrl+r cancels it, and so does the exit.
RestartCancelled ==
    /\ pc["restart"] \in Busy
    /\ Cancelled("restart")
    /\ Goto("restart", "idle")
    /\ UNCHANGED <<daemonVars, health, misses, appVars, target, after, bounds>>

\* Without a manager: pkill, a second of sleep and a new manager of its own.
RestartSpare ==
    /\ stage \in RestartStages
    /\ restarts < MaxRestarts
    /\ restarts' = restarts + 1
    /\ holder = "none"
    /\ pc["restart"] \notin Busy
    /\ told' = told \union {d \in Daemon : Alive(d)}
    /\ target' = [target EXCEPT !["restart"] = "spare"]
    /\ process' = [process EXCEPT !["spare"] = NoDaemon]
    /\ running' = [running EXCEPT !["spare"] = FALSE]
    /\ health' = [health EXCEPT !["spare"] = "none"]
    /\ Goto("restart", "pause")
    /\ UNCHANGED <<state, parent, misses, appVars, child, after, failures>>

SpareDone ==
    /\ pc["restart"] = "ok"
    /\ holder = "none"
    /\ target["restart"] = "spare"
    /\ holder' = "spare"
    /\ Goto("restart", "idle")
    /\ UNCHANGED <<daemonVars, managerVars, stage, target, child, after, bounds>>

\* The user quits: the workers are cancelled, and shutdown_async() does
\* nothing for a lifecycle that is not initialized.
Quit ==
    /\ stage \in {"splash", "setup", "boot", "offline"}
    /\ stage' = "quit"
    /\ LET stopping == {target[f] : f \in {g \in Flow : pc[g] = "term"}} IN
       /\ process' = [m \in Manager |-> IF m \in stopping THEN NoDaemon ELSE process[m]]
       /\ running' = [m \in Manager |-> running[m] /\ m \notin stopping]
    /\ pc' = [f \in Flow |-> "idle"]
    /\ health' = [m \in Manager |-> "none"]
    /\ UNCHANGED <<daemonVars, misses, holder, target, child, after, bounds>>

\* shutdown_async() of an initialized lifecycle.
Exit ==
    /\ stage = "running"
    /\ pc["restart"] \notin Busy
    /\ stage' = "closing"
    /\ target' = [target EXCEPT !["exit"] = holder]
    /\ StopManager("exit", holder, "stopped")
    /\ UNCHANGED <<state, parent, misses, holder, bounds>>

Closed ==
    /\ stage = "closing"
    /\ pc["exit"] = "stopped"
    /\ stage' = "closed"
    /\ holder' = "none"
    /\ Goto("exit", "idle")
    /\ UNCHANGED <<daemonVars, managerVars, target, child, after, bounds>>

-----------------------------------------------------------------------------
(* The processes.                                                          *)

Serves(d) ==
    /\ state[d] \in {"starting", "stuck"}
    /\ state' = [state EXCEPT ![d] = "serving"]
    /\ UNCHANGED <<parent, told, managerVars, appVars, flowVars, bounds>>

Obeys(d) ==
    /\ Alive(d)
    /\ d \in told
    /\ state' = [state EXCEPT ![d] = "gone"]
    /\ UNCHANGED <<parent, told, managerVars, appVars, flowVars, bounds>>

\* It dies, or hangs (its standard error is a pipe nobody reads).
Fails(d) ==
    /\ Alive(d)
    /\ failures < MaxFailures
    /\ failures' = failures + 1
    /\ \E s \in {"stuck", "gone"} : state' = [state EXCEPT ![d] = s]
    /\ UNCHANGED <<parent, told, managerVars, appVars, flowVars, restarts>>

-----------------------------------------------------------------------------
AppStep ==
    \/ SplashFinds \/ SplashStarts \/ SplashGivesUp \/ StartNow \/ SetupDone \/ Skip
    \/ Connects \/ ConnectFails \/ BootFails
    \/ RestartHeld \/ RestartSpare \/ RestartCancelled \/ SpareDone
    \/ Quit \/ Exit \/ Closed

Next ==
    \/ \E f \in Flow : Call(f)
    \/ \E m \in Manager : HealthCheck(m)
    \/ AppStep
    \/ \E d \in Daemon : Serves(d) \/ Obeys(d) \/ Fails(d)

Spec == Init /\ [][Next]_vars

\* Tasks that can go on do, timers fire; the user and the processes owe
\* nothing.
Fairness ==
    /\ \A f \in Flow : WF_vars(Call(f))
    /\ \A m \in Manager : WF_vars(HealthCheck(m))
    /\ WF_vars(Connects \/ ConnectFails \/ BootFails \/ Closed)

FairSpec == Spec /\ Fairness

-----------------------------------------------------------------------------
(* Properties.                                                             *)

\* A process that a manager has spawned is still that manager's, so that a
\* later shutdown() reaches it, or it has been told to stop: no failed start,
\* timeout, cancelled restart or second attempt drops a running one
\* (_spawn, shutdown and restart).
NoForgottenChild ==
    \A d \in Daemon :
        Alive(d) /\ parent[d] # "nobody" =>
            process[parent[d]] = d \/ d \in told

\* is_running does not stay true for ever over a daemon that is not there:
\* _monitor_health, or whoever replaced it, finds out.
HealthNotices ==
    \A m \in Manager : []<>(running[m] => Reachable \/ stage = "quit")

\* Every start, restart and shutdown comes to an end whatever the processes
\* do: the polling and the grace period are bounded, SIGKILL is not ignored.
OperationEnds == \A f \in Flow : pc[f] \in Busy ~> pc[f] \notin Busy

\* "In MANAGED mode: shutdown subprocess then re-spawn" (restart): when ctrl+r
\* reports success the manager has a process of its own.
RestartRespawns ==
    pc["restart"] = "ok" => process[target["restart"]] # NoDaemon

-----------------------------------------------------------------------------
(* Proofs, for any number of processes, restarts and failures.             *)

\* What m would drop if it forgot its process now is dead or told to stop.
Settled(m) == process[m] # NoDaemon /\ Alive(process[m]) => process[m] \in told

\* A task is in a manager's call only while the app is where it makes it, so
\* never two at once.
StageOf == [setup |-> {"setup"}, boot |-> {"boot"},
            restart |-> {"running", "offline"}, exit |-> {"closing"}]

StageInv ==
    /\ \A f \in Flow : pc[f] \in Busy => stage \in StageOf[f]
    /\ stage \in {"boot", "running"} => holder # "none"
    /\ target["setup"] = "setup" /\ target["boot"] = "boot"

\* Whoever is about to spawn or to forget a process finds nothing to lose.
SettledInv ==
    /\ \A f \in Flow : pc[f] \in {"ping", "term", "pause"} => Settled(target[f])
    /\ stage \in {"splash", "setup"} => process["boot"] = NoDaemon
    /\ stage = "splash" => process["setup"] = NoDaemon
    /\ stage = "setup" /\ pc["setup"] \in {"idle", "failed"} => Settled("setup")

ChildInv == TypeOK /\ StageInv /\ SettledInv /\ NoForgottenChild

\* Before anything has started the invariant holds.
LEMMA InitChild == Init => ChildInv
<1> SUFFICES ASSUME Init PROVE ChildInv
  OBVIOUS
<1> USE ManagerAssumption DEF Init, Manager, Flow
<1>1. running \in [Manager -> BOOLEAN] OBVIOUS
<1>2. TypeOK BY <1>1 DEF TypeOK, Busy
<1>3. StageInv /\ SettledInv BY DEF StageInv, SettledInv, Busy, Settled
<1>4. NoForgottenChild BY DEF NoForgottenChild, Alive
<1> QED BY <1>2, <1>3, <1>4 DEF ChildInv

\* The variables that shutdown() assigns keep their types.
LEMMA StopTypes ==
  ASSUME TypeOK, NEW f \in Flow, NEW m \in Manager,
         NEW next \in {"failed", "pause", "stopped"}, StopManager(f, m, next)
  PROVE  /\ process' \in [Manager -> Daemon \union {NoDaemon}]
         /\ running' \in [Manager -> BOOLEAN]
         /\ health' \in [Manager -> {"none", "active", "ended"}]
         /\ told' \subseteq Daemon
         /\ pc' \in [Flow -> Busy \union {"idle", "ok", "failed", "stopped"}]
         /\ child' \in [Flow -> Daemon \union {NoDaemon}]
         /\ after' \in [Flow -> {"failed", "pause", "stopped"}]
<1> USE DEF TypeOK, StopManager, Goto, Busy
<1>1. CASE process[m] # NoDaemon /\ Alive(process[m])
  BY <1>1
<1>2. CASE ~(process[m] # NoDaemon /\ Alive(process[m]))
  <2>1. running' \in [Manager -> BOOLEAN] BY <1>2
  <2>2. process' \in [Manager -> Daemon \union {NoDaemon}] BY <1>2
  <2> QED BY <1>2, <2>1, <2>2
<1> QED BY <1>1, <1>2

\* So do those that a cancellation assigns.
LEMMA CancelTypes ==
  ASSUME TypeOK, NEW f \in Flow, Cancelled(f)
  PROVE  /\ process' \in [Manager -> Daemon \union {NoDaemon}]
         /\ running' \in [Manager -> BOOLEAN]
         /\ child' \in [Flow -> Daemon \union {NoDaemon}]
<1> USE DEF TypeOK, Cancelled, Forget
<1>1. CASE pc[f] = "term" BY <1>1
<1>2. CASE pc[f] # "term" BY <1>2
<1> QED BY <1>1, <1>2

\* Every step keeps the types (TypeOK).
LEMMA NextType == ASSUME TypeOK, StageInv, [Next]_vars PROVE TypeOK'
<1> USE ManagerAssumption DEF TypeOK, StageInv, Busy, Flow, Manager, Goto,
        daemonVars, managerVars, appVars, flowVars, bounds
<1>1. ASSUME NEW f \in Flow, Call(f) PROVE TypeOK'
  <2> USE DEF Up, Born, Forget, Stop
  <2>1. CASE PingAnswered(f) BY <2>1 DEF PingAnswered
  <2>2. CASE Spawn(f) BY <2>2 DEF Spawn, Unused
  <2>3. CASE SpawnFails(f) BY <2>3 DEF SpawnFails
  <2>4. CASE PollDied(f) BY <2>4 DEF PollDied
  <2>5. CASE PollAnswered(f) BY <2>5 DEF PollAnswered
  <2>6. CASE PollTimesOut(f) BY <2>6, StopTypes DEF PollTimesOut
  <2>7. CASE Exited(f) BY <2>7 DEF Exited
  <2>8. CASE GraceEnds(f) BY <2>8 DEF GraceEnds
  <2>9. CASE PauseEnds(f) BY <2>9 DEF PauseEnds
  <2> QED BY <1>1, <2>1, <2>2, <2>3, <2>4, <2>5, <2>6, <2>7, <2>8, <2>9 DEF Call
<1>2. ASSUME NEW m \in Manager, HealthCheck(m) PROVE TypeOK'
  <2>1. running' \in [Manager -> BOOLEAN]
    <3>1. CASE running' = running BY <3>1
    <3>2. CASE running' = [running EXCEPT ![m] = FALSE] BY <3>2
    <3> QED BY <1>2, <3>1, <3>2 DEF HealthCheck
  <2>2. misses' \in [Manager -> 0..2] BY <1>2 DEF HealthCheck
  <2>3. health' \in [Manager -> {"none", "active", "ended"}]
    BY <1>2 DEF HealthCheck
  <2> QED BY <1>2, <2>1, <2>2, <2>3 DEF HealthCheck
<1>3. CASE AppStep
  <2> USE DEF Boot, Born, Stop
  <2>1. CASE SplashFinds BY <2>1 DEF SplashFinds
  <2>2. CASE SplashStarts BY <2>2 DEF SplashStarts, Unused
  <2>3. CASE SplashGivesUp BY <2>3 DEF SplashGivesUp
  <2>4. CASE StartNow BY <2>4 DEF StartNow
  <2>5. CASE SetupDone BY <2>5 DEF SetupDone
  <2>6. CASE Skip BY <2>6, CancelTypes DEF Skip
  <2>7. CASE Connects BY <2>7 DEF Connects
  <2>8. CASE ConnectFails BY <2>8, StopTypes DEF ConnectFails
  <2>9. CASE BootFails BY <2>9 DEF BootFails
  <2>10. CASE RestartHeld BY <2>10, StopTypes DEF RestartHeld
  <2>11. CASE RestartSpare BY <2>11 DEF RestartSpare
  <2>12. CASE RestartCancelled BY <2>12, CancelTypes DEF RestartCancelled
  <2>13. CASE SpareDone BY <2>13 DEF SpareDone
  <2>14. CASE Quit BY <2>14 DEF Quit
  <2>15. CASE Exit BY <2>15, StopTypes DEF Exit
  <2>16. CASE Closed BY <2>16 DEF Closed
  <2> QED BY <1>3, <2>1, <2>2, <2>3, <2>4, <2>5, <2>6, <2>7, <2>8, <2>9, <2>10,
             <2>11, <2>12, <2>13, <2>14, <2>15, <2>16 DEF AppStep
<1>4. ASSUME NEW d \in Daemon, Serves(d) \/ Obeys(d) \/ Fails(d) PROVE TypeOK'
  BY <1>4 DEF Serves, Obeys, Fails
<1>5. CASE UNCHANGED vars BY <1>5 DEF vars
<1> QED BY <1>1, <1>2, <1>3, <1>4, <1>5 DEF Next

\* What shutdown() leaves behind up to its first await: the task is in it or
\* past it, and nothing is lost with the manager's process.
LEMMA StopEffect ==
  ASSUME TypeOK, NEW f \in Flow, NEW m \in Manager,
         NEW next \in {"failed", "pause", "stopped"}, StopManager(f, m, next),
         UNCHANGED <<state, parent>>
  PROVE  /\ pc'[f] \in {"term", next}
         /\ \A g \in Flow : g # f => pc'[g] = pc[g]
         /\ Settled(m)'
         /\ \A n \in Manager : n # m => process'[n] = process[n]
         /\ process'[m] = process[m] \/ process'[m] = NoDaemon
         /\ told \subseteq told'
         /\ NoForgottenChild => NoForgottenChild'
<1> USE DEF TypeOK, StopManager, Goto
<1>1. CASE process[m] # NoDaemon /\ Alive(process[m])
  BY <1>1 DEF Settled, Alive, NoForgottenChild
<1>2. CASE ~(process[m] # NoDaemon /\ Alive(process[m]))
  <2>1. NoForgottenChild => NoForgottenChild'
    BY <1>2, ManagerAssumption DEF NoForgottenChild, Alive
  <2> QED BY <1>2, <2>1 DEF Settled
<1> QED BY <1>1, <1>2

\* Every step keeps the tasks where the app makes their calls (StageInv).
LEMMA NextStage == ASSUME TypeOK, StageInv, [Next]_vars PROVE StageInv'
<1> USE ManagerAssumption DEF TypeOK, StageInv, StageOf, Busy, Flow, Goto,
        daemonVars, managerVars, appVars, flowVars, bounds
<1>1. ASSUME NEW f \in Flow, Call(f) PROVE StageInv'
  <2> USE DEF Up
  <2>1. CASE PingAnswered(f) BY <2>1 DEF PingAnswered
  <2>2. CASE Spawn(f) BY <2>2 DEF Spawn
  <2>3. CASE SpawnFails(f) BY <2>3 DEF SpawnFails
  <2>4. CASE PollDied(f) BY <2>4 DEF PollDied
  <2>5. CASE PollAnswered(f) BY <2>5 DEF PollAnswered
  <2>6. CASE PollTimesOut(f) BY <2>6, StopEffect DEF PollTimesOut, Stop
  <2>7. CASE Exited(f) BY <2>7 DEF Exited
  <2>8. CASE GraceEnds(f) BY <2>8 DEF GraceEnds
  <2>9. CASE PauseEnds(f) BY <2>9 DEF PauseEnds
  <2> QED BY <1>1, <2>1, <2>2, <2>3, <2>4, <2>5, <2>6, <2>7, <2>8, <2>9 DEF Call
<1>2. ASSUME NEW m \in Manager, HealthCheck(m) PROVE StageInv'
  BY <1>2 DEF HealthCheck
<1>3. CASE AppStep
  <2> USE DEF Boot, Stop, Manager
  <2>1. CASE SplashFinds BY <2>1 DEF SplashFinds
  <2>2. CASE SplashStarts BY <2>2 DEF SplashStarts
  <2>3. CASE SplashGivesUp BY <2>3 DEF SplashGivesUp
  <2>4. CASE StartNow BY <2>4 DEF StartNow
  <2>5. CASE SetupDone BY <2>5 DEF SetupDone
  <2>6. CASE Skip BY <2>6 DEF Skip
  <2>7. CASE Connects BY <2>7 DEF Connects
  <2>8. CASE ConnectFails BY <2>8, StopEffect DEF ConnectFails
  <2>9. CASE BootFails BY <2>9 DEF BootFails
  <2>10. CASE RestartHeld BY <2>10, StopEffect DEF RestartHeld
  <2>11. CASE RestartSpare BY <2>11 DEF RestartSpare
  <2>12. CASE RestartCancelled BY <2>12 DEF RestartCancelled
  <2>13. CASE SpareDone BY <2>13 DEF SpareDone
  <2>14. CASE Quit BY <2>14 DEF Quit
  <2>15. CASE Exit BY <2>15, StopEffect DEF Exit
  <2>16. CASE Closed BY <2>16 DEF Closed
  <2> QED BY <1>3, <2>1, <2>2, <2>3, <2>4, <2>5, <2>6, <2>7, <2>8, <2>9, <2>10,
             <2>11, <2>12, <2>13, <2>14, <2>15, <2>16 DEF AppStep
<1>4. ASSUME NEW d \in Daemon, Serves(d) \/ Obeys(d) \/ Fails(d) PROVE StageInv'
  BY <1>4 DEF Serves, Obeys, Fails
<1>5. CASE UNCHANGED vars BY <1>5 DEF vars
<1> QED BY <1>1, <1>2, <1>3, <1>4, <1>5 DEF Next

\* Every step that lets a task spawn or forget leaves its manager nothing to lose
\* (SettledInv).
LEMMA NextSettled ==
  ASSUME TypeOK, StageInv, SettledInv, [Next]_vars
  PROVE  SettledInv'
<1> USE ManagerAssumption DEF TypeOK, StageInv, StageOf, SettledInv, Settled, Alive,
        Busy, Flow, Manager, Goto, daemonVars, managerVars, appVars, flowVars, bounds
<1>1. ASSUME NEW f \in Flow, Call(f) PROVE SettledInv'
  <2> USE DEF Up, Stop
  <2>1. CASE PingAnswered(f) BY <2>1 DEF PingAnswered
  <2>2. CASE Spawn(f) BY <2>2 DEF Spawn, Unused, Born
  <2>3. CASE SpawnFails(f) BY <2>3 DEF SpawnFails
  <2>4. CASE PollDied(f) BY <2>4 DEF PollDied
  <2>5. CASE PollAnswered(f) BY <2>5 DEF PollAnswered
  <2>6. CASE PollTimesOut(f) BY <2>6, StopEffect DEF PollTimesOut
  <2>7. CASE Exited(f) BY <2>7 DEF Exited, Forget
  <2>8. CASE GraceEnds(f) BY <2>8 DEF GraceEnds, Forget
  <2>9. CASE PauseEnds(f) BY <2>9 DEF PauseEnds
  <2> QED BY <1>1, <2>1, <2>2, <2>3, <2>4, <2>5, <2>6, <2>7, <2>8, <2>9 DEF Call
<1>2. ASSUME NEW m \in Manager, HealthCheck(m) PROVE SettledInv'
  BY <1>2 DEF HealthCheck
<1>3. CASE AppStep
  <2> USE DEF Boot, Stop
  <2>1. CASE SplashFinds BY <2>1 DEF SplashFinds
  <2>2. CASE SplashStarts BY <2>2 DEF SplashStarts, Unused, Born
  <2>3. CASE SplashGivesUp BY <2>3 DEF SplashGivesUp
  <2>4. CASE StartNow BY <2>4 DEF StartNow
  <2>5. CASE SetupDone BY <2>5 DEF SetupDone
  <2>6. CASE Skip BY <2>6 DEF Skip, Cancelled, Forget
  <2>7. CASE Connects BY <2>7 DEF Connects
  <2>8. CASE ConnectFails BY <2>8, StopEffect DEF ConnectFails
  <2>9. CASE BootFails BY <2>9 DEF BootFails
  <2>10. CASE RestartHeld BY <2>10, StopEffect DEF RestartHeld
  <2>11. CASE RestartSpare BY <2>11 DEF RestartSpare
  <2>12. CASE RestartCancelled BY <2>12 DEF RestartCancelled, Cancelled, Forget
  <2>13. CASE SpareDone BY <2>13 DEF SpareDone
  <2>14. CASE Quit BY <2>14 DEF Quit
  <2>15. CASE Exit BY <2>15, StopEffect DEF Exit
  <2>16. CASE Closed BY <2>16 DEF Closed
  <2> QED BY <1>3, <2>1, <2>2, <2>3, <2>4, <2>5, <2>6, <2>7, <2>8, <2>9, <2>10,
             <2>11, <2>12, <2>13, <2>14, <2>15, <2>16 DEF AppStep
<1>4. ASSUME NEW d \in Daemon, Serves(d) \/ Obeys(d) \/ Fails(d) PROVE SettledInv'
  BY <1>4 DEF Serves, Obeys, Fails
<1>5. CASE UNCHANGED vars BY <1>5 DEF vars
<1> QED BY <1>1, <1>2, <1>3, <1>4, <1>5 DEF Next

\* No step forgets a running child: what is overwritten or dropped is settled,
\* and a process is born with its manager's reference.
LEMMA NextChild ==
  ASSUME TypeOK, StageInv, SettledInv, NoForgottenChild, [Next]_vars
  PROVE  NoForgottenChild'
<1> USE ManagerAssumption DEF TypeOK, StageInv, SettledInv, Settled, NoForgottenChild,
        Alive, Busy, Flow, Manager, Goto, daemonVars, managerVars, appVars, flowVars,
        bounds
<1>1. ASSUME NEW f \in Flow, Call(f) PROVE NoForgottenChild'
  <2> USE DEF Up, Stop
  <2>1. CASE PingAnswered(f) BY <2>1 DEF PingAnswered
  <2>2. CASE Spawn(f) BY <2>2 DEF Spawn, Unused, Born
  <2>3. CASE SpawnFails(f) BY <2>3 DEF SpawnFails
  <2>4. CASE PollDied(f) BY <2>4 DEF PollDied
  <2>5. CASE PollAnswered(f) BY <2>5 DEF PollAnswered
  <2>6. CASE PollTimesOut(f) BY <2>6, StopEffect DEF PollTimesOut
  <2>7. CASE Exited(f) BY <2>7 DEF Exited, Forget
  <2>8. CASE GraceEnds(f) BY <2>8 DEF GraceEnds, Forget
  <2>9. CASE PauseEnds(f) BY <2>9 DEF PauseEnds
  <2> QED BY <1>1, <2>1, <2>2, <2>3, <2>4, <2>5, <2>6, <2>7, <2>8, <2>9 DEF Call
<1>2. ASSUME NEW m \in Manager, HealthCheck(m) PROVE NoForgottenChild'
  BY <1>2 DEF HealthCheck
<1>3. CASE AppStep
  <2> USE DEF Boot, Stop
  <2>1. CASE SplashFinds BY <2>1 DEF SplashFinds
  <2>2. CASE SplashStarts BY <2>2 DEF SplashStarts, Unused, Born
  <2>3. CASE SplashGivesUp BY <2>3 DEF SplashGivesUp
  <2>4. CASE StartNow BY <2>4 DEF StartNow
  <2>5. CASE SetupDone BY <2>5 DEF SetupDone
  <2>6. CASE Skip BY <2>6 DEF Skip, Cancelled, Forget
  <2>7. CASE Connects BY <2>7 DEF Connects
  <2>8. CASE ConnectFails BY <2>8, StopEffect DEF ConnectFails
  <2>9. CASE BootFails BY <2>9 DEF BootFails
  <2>10. CASE RestartHeld BY <2>10, StopEffect DEF RestartHeld
  <2>11. CASE RestartSpare BY <2>11 DEF RestartSpare
  <2>12. CASE RestartCancelled BY <2>12 DEF RestartCancelled, Cancelled, Forget
  <2>13. CASE SpareDone BY <2>13 DEF SpareDone
  <2>14. CASE Quit BY <2>14 DEF Quit
  <2>15. CASE Exit BY <2>15, StopEffect DEF Exit
  <2>16. CASE Closed BY <2>16 DEF Closed
  <2> QED BY <1>3, <2>1, <2>2, <2>3, <2>4, <2>5, <2>6, <2>7, <2>8, <2>9, <2>10,
             <2>11, <2>12, <2>13, <2>14, <2>15, <2>16 DEF AppStep
<1>4. ASSUME NEW d \in Daemon, Serves(d) \/ Obeys(d) \/ Fails(d) PROVE NoForgottenChild'
  BY <1>4 DEF Serves, Obeys, Fails
<1>5. CASE UNCHANGED vars BY <1>5 DEF vars
<1> QED BY <1>1, <1>2, <1>3, <1>4, <1>5 DEF Next

\* The state of processes, managers, tasks and app has its types (TypeOK).
THEOREM ManagerTypes == Spec => []TypeOK
<1>1. ChildInv /\ [Next]_vars => ChildInv'
  BY NextType, NextStage, NextSettled, NextChild DEF ChildInv
<1>2. ChildInv => TypeOK
  BY DEF ChildInv
<1> QED BY InitChild, <1>1, <1>2, PTL DEF Spec

\* No process that a manager has spawned is left running with nobody to stop
\* it: NoForgottenChild, for every number of processes, restarts and failures.
THEOREM ChildrenAreKept == Spec => []NoForgottenChild
<1>1. ChildInv /\ [Next]_vars => ChildInv'
  BY NextType, NextStage, NextSettled, NextChild DEF ChildInv
<1>2. ChildInv => NoForgottenChild
  BY DEF ChildInv
<1> QED BY InitChild, <1>1, <1>2, PTL DEF Spec
=============================================================================
