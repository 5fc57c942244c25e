----------------------------- MODULE DeviceViews -----------------------------
(***************************************************************************)
(* The app's device cache (tui/services/device_cache.py) and the Nodes     *)
(* screen that shows it (tui/screens/exploration.py): refreshes overlap,   *)
(* those of the screen are exclusive and cancelled when it is suspended,   *)
(* and the tables follow the messages the cache posts.  A node is known by *)
(* its last announce; whether it counts as lost is a matter of time.       *)
(***************************************************************************)
EXTENDS Naturals, FiniteSets

CONSTANTS
    Device,        \* the nodes of the mesh
    MaxAnnounces,  \* bound: announces of a node
    MaxErrors,     \* bound: fetches that fail
    MaxFetches     \* bound: fetches of the cache's own timers at once

ASSUME ViewsAssumption ==
    MaxAnnounces \in Nat \ {0} /\ MaxErrors \in Nat /\ MaxFetches \in Nat \ {0}

VARIABLES
    mesh,        \* what the daemon knows: each node's last announce, 0 before one
    silent,      \* the nodes that count as lost
    errors,      \* fetches that failed
    _devices,    \* the cache
    started,     \* "no", "painting", "priming", "loading" or "yes"
    timers,      \* the timers of the cache that run: the follow-up, the interval
    fetches,     \* the cache's own fetches under way, a set of answers
    screenFetch, \* the screen's: _node_refresh_worker
    updated,     \* DevicesUpdated is on its way to the app
    screen,      \* "gone", "active" or "suspended"
    rows,        \* the table as it was built: each node's announce, 0 for no row
    hide_lost

cacheVars == <<_devices, started, timers, fetches, updated>>
screenVars == <<screenFetch, screen, rows, hide_lost>>
meshVars == <<mesh, silent, errors>>
viewsVars == <<cacheVars, screenVars, meshVars>>

Nodes == [Device -> 0..MaxAnnounces]
NoNodes == [d \in Device |-> 0]
NoFetch == <<"none">>
Asked == <<"asked">>

ViewsTypeOK ==
    /\ mesh \in Nodes /\ _devices \in Nodes /\ rows \in Nodes
    /\ silent \subseteq Device /\ errors \in 0..MaxErrors
    /\ started \in {"no", "painting", "priming", "loading", "yes"}
    /\ timers \subseteq {"followup", "interval"}
    /\ screenFetch \in {NoFetch, Asked, <<"failed">>} \cup ({"list"} \X Nodes)
    /\ \A f \in fetches : f[1] \in {"asked", "failed", "list"} /\ f[2] \in {"initial", "timer"}
    /\ updated \in BOOLEAN /\ hide_lost \in BOOLEAN
    /\ screen \in {"gone", "active", "suspended"}

ViewsInit ==
    /\ mesh = NoNodes /\ silent = {} /\ errors = 0
    /\ _devices = NoNodes /\ started = "no" /\ timers = {} /\ fetches = {}
    /\ updated = FALSE
    /\ screenFetch = NoFetch /\ screen = "gone" /\ rows = NoNodes /\ hide_lost = TRUE

-----------------------------------------------------------------------------
(* The mesh.                                                                *)

Announces(d) ==
    /\ mesh[d] < MaxAnnounces
    /\ mesh' = [mesh EXCEPT ![d] = @ + 1]
    /\ silent' = silent \ {d}
    /\ UNCHANGED <<errors, cacheVars, screenVars>>

\* 15 minutes without an announce.
FallsSilent(d) ==
    /\ mesh[d] > 0
    /\ silent' = silent \cup {d}
    /\ UNCHANGED <<mesh, errors, cacheVars, screenVars>>

-----------------------------------------------------------------------------
(* The cache.                                                               *)

\* Mutant of ListChanged: the nodes are compared, and not what is known of them.
MembersChanged(new) == \E d \in Device : (new[d] = 0) # (_devices[d] = 0)

\* _list_changed compares the fingerprints.
ListChanged(new) == new # _devices

\* _do_refresh from the answer on: a list that is the same is not posted.
Refreshed(new) ==
    IF ListChanged(new) THEN _devices' = new /\ updated' = TRUE
    ELSE UNCHANGED <<_devices, updated>>

\* start, after the dashboard is painted.
Start ==
    /\ started = "no"
    /\ started' = "painting"
    /\ UNCHANGED <<_devices, timers, fetches, updated, screenVars, meshVars>>

\* _schedule_initial_load: the prime timer; _run_initial_refresh: the worker.
ScheduleInitialLoad ==
    /\ started = "painting"
    /\ started' = "priming"
    /\ UNCHANGED <<_devices, timers, fetches, updated, screenVars, meshVars>>

RunInitialRefresh ==
    /\ started = "priming"
    /\ started' = "loading"
    /\ fetches' = fetches \cup {<<"asked", "initial">>}
    /\ UNCHANGED <<_devices, timers, updated, screenVars, meshVars>>

\* The follow-up, once, and the interval start another refresh.
TimerFires(t) ==
    /\ t \in timers /\ Cardinality(fetches) < MaxFetches
    /\ <<"asked", "timer">> \notin fetches
    /\ fetches' = fetches \cup {<<"asked", "timer">>}
    /\ timers' = timers \ ({t} \ {"interval"})
    /\ UNCHANGED <<_devices, started, updated, screenVars, meshVars>>

\* The daemon reads its nodes for a fetch, or the fetch fails.
Answers(f) ==
    /\ f \in fetches /\ f[1] = "asked"
    /\ \/ fetches' = (fetches \ {f}) \cup {<<"list", f[2], mesh>>} /\ UNCHANGED errors
       \/ /\ errors < MaxErrors /\ errors' = errors + 1
          /\ fetches' = (fetches \ {f}) \cup {<<"failed", f[2]>>}
    /\ UNCHANGED <<mesh, silent, _devices, started, timers, updated, screenVars>>

\* Mutant of FetchReturns: nothing is scheduled if the first fetch failed.
FetchReturnsStrict(f) ==
    /\ f \in fetches /\ f[1] # "asked"
    /\ fetches' = fetches \ {f}
    /\ IF f[1] = "list" THEN Refreshed(f[3]) ELSE UNCHANGED <<_devices, updated>>
    /\ IF f[2] = "initial" /\ f[1] = "list"
       THEN timers' = {"followup", "interval"} /\ started' = "yes"
       ELSE UNCHANGED <<timers, started>>
    /\ UNCHANGED <<screenVars, meshVars>>

\* The answer is taken over, in the order the answers come back; the first
\* load then starts the follow-up and the interval, if it failed, too.
FetchReturns(f) ==
    /\ f \in fetches /\ f[1] # "asked"
    /\ fetches' = fetches \ {f}
    /\ IF f[1] = "list" THEN Refreshed(f[3]) ELSE UNCHANGED <<_devices, updated>>
    /\ IF f[2] = "initial"
       THEN timers' = {"followup", "interval"} /\ started' = "yes"
       ELSE UNCHANGED <<timers, started>>
    /\ UNCHANGED <<screenVars, meshVars>>

-----------------------------------------------------------------------------
(* The screen.                                                              *)

\* _rebuild_table: lost nodes are hidden, as they are when it is built.
Built(hide) == [d \in Device |-> IF hide /\ d \in silent THEN 0 ELSE _devices[d]]

\* _start_node_refresh: it takes the place of the one under way.
OnMount ==
    /\ screen = "gone" /\ started # "no"
    /\ screen' = "active"
    /\ rows' = Built(hide_lost)
    /\ screenFetch' = Asked
    /\ UNCHANGED <<cacheVars, meshVars, hide_lost>>

OnScreenSuspend ==
    /\ screen = "active"
    /\ screen' = "suspended"
    /\ screenFetch' = NoFetch
    /\ UNCHANGED <<cacheVars, meshVars, rows, hide_lost>>

\* Mutant of OnScreenResume: the tables wait for the next message.
OnScreenResumeLazily ==
    /\ screen = "suspended"
    /\ screen' = "active"
    /\ screenFetch' = Asked
    /\ UNCHANGED <<cacheVars, meshVars, rows, hide_lost>>

OnScreenResume ==
    /\ screen = "suspended"
    /\ screen' = "active"
    /\ rows' = Built(hide_lost)
    /\ screenFetch' = Asked
    /\ UNCHANGED <<cacheVars, meshVars, hide_lost>>

\* A new screen hides lost nodes.
OnUnmount ==
    /\ screen # "gone"
    /\ screen' = "gone"
    /\ screenFetch' = NoFetch
    /\ rows' = NoNodes
    /\ hide_lost' = TRUE
    /\ UNCHANGED <<cacheVars, meshVars>>

\* The timer, or a node_changed event that is no burst: the refresh under way
\* is cancelled.
StartNodeRefresh ==
    /\ screen = "active"
    /\ screenFetch' = Asked
    /\ UNCHANGED <<cacheVars, meshVars, screen, rows, hide_lost>>

ScreenAnswered ==
    /\ screenFetch = Asked
    /\ \/ screenFetch' = <<"list", mesh>> /\ UNCHANGED errors
       \/ /\ errors < MaxErrors /\ errors' = errors + 1
          /\ screenFetch' = <<"failed">>
    /\ UNCHANGED <<mesh, silent, cacheVars, screen, rows, hide_lost>>

ScreenRefreshed ==
    /\ screenFetch # NoFetch /\ screenFetch # Asked
    /\ IF screenFetch[1] = "list" THEN Refreshed(screenFetch[2])
       ELSE UNCHANGED <<_devices, updated>>
    /\ screenFetch' = NoFetch
    /\ UNCHANGED <<started, timers, fetches, screen, rows, hide_lost, meshVars>>

\* The app hands the message on to the screen that is shown; its handler reads
\* the cache as it is by then.
DevicesUpdated ==
    /\ updated
    /\ updated' = FALSE
    /\ rows' = IF screen = "active" THEN Built(hide_lost) ELSE rows
    /\ UNCHANGED <<_devices, started, timers, fetches, screenFetch, screen, hide_lost,
                   meshVars>>

ToggleHideLost ==
    /\ screen = "active"
    /\ hide_lost' = ~hide_lost
    /\ rows' = Built(~hide_lost)
    /\ UNCHANGED <<cacheVars, meshVars, screenFetch, screen>>

\* R: the tables only.
ActionRefresh ==
    /\ screen = "active"
    /\ rows' = Built(hide_lost)
    /\ UNCHANGED <<cacheVars, meshVars, screenFetch, screen, hide_lost>>

-----------------------------------------------------------------------------
CacheStep ==
    \/ ScheduleInitialLoad \/ RunInitialRefresh
    \/ \E t \in timers : TimerFires(t)
    \/ \E f \in fetches : Answers(f) \/ FetchReturns(f)

ScreenStep ==
    \/ OnMount \/ OnScreenSuspend \/ OnScreenResume \/ OnUnmount
    \/ StartNodeRefresh \/ ToggleHideLost \/ ActionRefresh

ViewsNext ==
    \/ \E d \in Device : Announces(d) \/ FallsSilent(d)
    \/ Start \/ CacheStep \/ ScreenStep
    \/ ScreenAnswered \/ ScreenRefreshed \/ DevicesUpdated

\* The timers fire, the daemon answers, workers and messages get their turn.
\* Nothing is assumed of the screen, whose refreshes may be cancelled for ever.
ViewsFairness ==
    /\ WF_viewsVars(ScheduleInitialLoad) /\ WF_viewsVars(RunInitialRefresh)
    /\ WF_viewsVars(TimerFires("interval"))
    /\ WF_viewsVars(\E f \in fetches : Answers(f))
    /\ WF_viewsVars(\E f \in fetches : FetchReturns(f))
    /\ WF_viewsVars(DevicesUpdated)

ViewsSpec == ViewsInit /\ [][ViewsNext]_viewsVars /\ ViewsFairness

-----------------------------------------------------------------------------
(* Properties.                                                             *)

\* What the screen shows while no message is on its way is what the cache holds,
\* whatever happened while it was suspended; a row can only be missing because
\* lost nodes are hidden.
TablesFollowCache ==
    screen = "active" /\ ~updated =>
        \A d \in Device : rows[d] = _devices[d] \/ (hide_lost /\ rows[d] = 0)

\* A node that announces is in its row at last, though it was lost and hidden,
\* a fetch failed, and the screen's own refreshes are all cancelled.
AnnounceIsShown ==
    \A d \in Device, n \in 1..MaxAnnounces :
        mesh[d] = n /\ started # "no" ~>
            \/ mesh[d] # n \/ d \in silent
            \/ _devices[d] = n /\ (screen = "active" => rows[d] = n)
=============================================================================
