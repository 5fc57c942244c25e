----------------------------- MODULE DeviceDetail -----------------------------
(***************************************************************************)
(* The detail screen of a device (tui/screens/mesh_device_detail.py): the  *)
(* device is looked for, its status asked for over a direct link, or by    *)
(* RPC, and cached; and the commands that need two taps                    *)
(* (tui/widgets/command_widget.py).  A worker group holds one worker; the  *)
(* screen's workers end when it is suspended.                              *)
(***************************************************************************)
EXTENDS Naturals, FiniteSets

CONSTANTS
    Button,      \* the buttons that need two taps
    MaxAnswers,  \* bound: status answers of the device
    MaxVisits,   \* bound: suspensions
    MaxTaps      \* bound: taps on a button

ASSUME DetailAssumption == {MaxAnswers, MaxVisits, MaxTaps} \subseteq Nat

VARIABLES
    view,     \* the screen: "new", "shown", "suspended" or "gone"
    device,   \* "unknown", "found" or "missing"
    lookup,   \* the worker that looks for the device runs
    due,      \* a refresh follows the next drawing
    refresh,  \* the worker that asks for the status: where it is
    linkWork, \* the worker that makes a direct link
    linked,   \* what the widget knows of the link
    spinner,  \* status_widget.loading
    status,   \* the answer that is shown, by its age
    cached,   \* the answer of the cache, 0 when there is none or it has expired
    answers,  \* answers so far
    visits,   \* suspensions so far
    armed,    \* the buttons that wait for the second tap
    timers,   \* of each button: the arming its timer is for, 0 when it has none
    late,     \* timer events on their way to the widget
    taps,     \* of each button
    sent,     \* commands that were sent
    voided    \* taps a time-out has voided

detailVars == <<view, device, lookup, due, refresh, linkWork, linked, spinner, status,
                cached, answers, visits>>
tapVars == <<armed, timers, late, taps, sent, voided>>
deviceVars == <<detailVars, tapVars>>

DetailTypeOK ==
    /\ view \in {"new", "shown", "suspended", "gone"} /\ device \in {"unknown", "found", "missing"}
    /\ {lookup, due, linked, spinner} \subseteq BOOLEAN
    /\ refresh \in {"idle", "begun", "link", "query", "rpc"} /\ linkWork \in {"idle", "asks", "status"}
    /\ status \in 0..answers /\ cached \in 0..answers /\ answers \in 0..MaxAnswers
    /\ visits \in 0..MaxVisits
    /\ armed \subseteq Button /\ late \subseteq Button
    /\ timers \in [Button -> 0..MaxTaps] /\ taps \in [Button -> 0..MaxTaps]
    /\ sent \in [Button -> 0..MaxTaps] /\ voided \in [Button -> 0..MaxTaps]

DetailInit ==
    /\ view = "new" /\ device = "unknown" /\ lookup = FALSE /\ due = FALSE
    /\ refresh = "idle" /\ linkWork = "idle" /\ linked = FALSE /\ spinner = FALSE
    /\ status = 0 /\ cached = 0 /\ answers = 0 /\ visits = 0
    /\ armed = {} /\ late = {}
    /\ timers = [b \in Button |-> 0] /\ taps = [b \in Button |-> 0]
    /\ sent = [b \in Button |-> 0] /\ voided = [b \in Button |-> 0]

-----------------------------------------------------------------------------
(* The screen comes and goes.                                               *)

\* A device that is not found yet is looked for first.
Begins(known) ==
    IF known THEN refresh' = "begun" /\ UNCHANGED lookup ELSE lookup' = TRUE /\ UNCHANGED refresh
StopsWork == lookup' = FALSE /\ refresh' = "idle" /\ linkWork' = "idle"

DetailMount ==
    /\ view = "new" /\ view' = "shown"
    /\ device' \in {"unknown", "found"}
    /\ Begins(device' = "found")
    /\ UNCHANGED <<due, linkWork, linked, spinner, status, cached, answers, visits, tapVars>>

DetailSuspend ==
    /\ view = "shown" /\ visits < MaxVisits
    /\ view' = "suspended" /\ visits' = visits + 1
    /\ StopsWork
    /\ UNCHANGED <<device, due, linked, spinner, status, cached, answers, tapVars>>

DetailResume ==
    /\ view = "suspended" /\ view' = "shown"
    /\ Begins(device = "found")
    /\ UNCHANGED <<device, due, linkWork, linked, spinner, status, cached, answers, visits, tapVars>>

DetailUnmount ==
    /\ view \in {"shown", "suspended"} /\ view' = "gone"
    /\ StopsWork /\ due' = FALSE
    /\ armed' = {} /\ timers' = [b \in Button |-> 0] /\ late' = {}
    /\ UNCHANGED <<device, linked, spinner, status, cached, answers, visits, taps, sent, voided>>

\* Live, or among the stored nodes: the screen is composed anew.
AsyncLoadDevice ==
    /\ lookup /\ lookup' = FALSE
    /\ \/ device' = "found" /\ due' = TRUE
       \/ device' = "missing" /\ UNCHANGED due
    /\ UNCHANGED <<view, refresh, linkWork, linked, spinner, status, cached, answers, visits, tapVars>>

\* Whether the screen is shown by then or not.
AfterRefresh ==
    /\ due /\ view # "gone" /\ due' = FALSE
    /\ refresh' = "begun"
    /\ UNCHANGED <<view, device, lookup, linkWork, linked, spinner, status, cached, answers, visits, tapVars>>

\* The user asks for it.
RefreshStatus ==
    /\ view = "shown" /\ device = "found"
    /\ refresh' = "begun"
    /\ UNCHANGED <<view, device, lookup, due, linkWork, linked, spinner, status, cached, answers,
                   visits, tapVars>>

-----------------------------------------------------------------------------
(* _auto_fetch_status.                                                      *)

FetchBegins ==
    /\ refresh = "begun" /\ refresh' = "link" /\ spinner' = TRUE
    /\ UNCHANGED <<view, device, lookup, due, linkWork, linked, status, cached, answers, visits, tapVars>>

\* The state of the link is there, or the call failed; the cached answer is shown.
LinkStatusKnown ==
    /\ refresh = "link"
    /\ linked' \in BOOLEAN
    /\ IF cached # 0 THEN status' = cached /\ spinner' = FALSE ELSE UNCHANGED <<status, spinner>>
    /\ refresh' = IF linked' THEN "query" ELSE "rpc"
    /\ UNCHANGED <<view, device, lookup, due, linkWork, cached, answers, visits, tapVars>>

CacheStatus == cached' = answers'
StatusArrives ==
    /\ refresh \in {"query", "rpc"} /\ answers < MaxAnswers
    /\ answers' = answers + 1 /\ status' = answers' /\ CacheStatus
    /\ refresh' = "idle" /\ spinner' = FALSE
    /\ UNCHANGED <<view, device, lookup, due, linkWork, linked, visits, tapVars>>

StatusFails ==
    /\ refresh \in {"query", "rpc"}
    /\ IF refresh = "query" THEN refresh' = "rpc" /\ UNCHANGED spinner
                            ELSE refresh' = "idle" /\ spinner' = FALSE
    /\ UNCHANGED <<view, device, lookup, due, linkWork, linked, status, cached, answers, visits, tapVars>>

CacheExpires ==
    /\ cached # 0 /\ cached' = 0
    /\ UNCHANGED <<view, device, lookup, due, refresh, linkWork, linked, spinner, status, answers,
                   visits, tapVars>>

EstablishLink ==
    /\ view = "shown" /\ device = "found" /\ linkWork' = "asks"
    /\ UNCHANGED <<view, device, lookup, due, refresh, linked, spinner, status, cached, answers,
                   visits, tapVars>>

LinkAnswered ==
    /\ linkWork = "asks" /\ linkWork' \in {"status", "idle"}
    /\ UNCHANGED <<view, device, lookup, due, refresh, linked, spinner, status, cached, answers,
                   visits, tapVars>>

\* A link that is active starts a refresh in place of the one that runs.
LinkReported ==
    /\ linkWork = "status" /\ linkWork' = "idle"
    /\ linked' \in BOOLEAN
    /\ \/ refresh' = "begun"
       \/ UNCHANGED refresh
    /\ UNCHANGED <<view, device, lookup, due, spinner, status, cached, answers, visits, tapVars>>

-----------------------------------------------------------------------------
(* Two taps.                                                                *)

Bump(f, b) == [f EXCEPT ![b] = @ + 1]
Disarm(b) == armed' = armed \ {b} /\ timers' = [timers EXCEPT ![b] = 0]

\* The second tap disarms, and stops the timer, before it sends.
Tap(b) ==
    /\ view = "shown" /\ device = "found" /\ taps[b] < MaxTaps
    /\ taps' = Bump(taps, b)
    /\ IF b \in armed
       THEN Disarm(b) /\ sent' = Bump(sent, b)
       ELSE /\ armed' = armed \cup {b}
            /\ timers' = [timers EXCEPT ![b] = taps'[b]]
            /\ UNCHANGED sent
    /\ UNCHANGED <<late, voided, detailVars>>

\* The timer puts an event in the queue; a tap may overtake it.
TimerFires(b) ==
    /\ timers[b] # 0 /\ b \notin late
    /\ late' = late \cup {b}
    /\ UNCHANGED <<armed, timers, taps, sent, voided, detailVars>>

\* Whatever arming it was for, the button is disarmed.
DisarmLate(b) ==
    /\ b \in late /\ late' = late \ {b}
    /\ voided' = IF b \in armed THEN Bump(voided, b) ELSE voided
    /\ Disarm(b)
    /\ UNCHANGED <<taps, sent, detailVars>>

DetailNext ==
    \/ DetailMount \/ DetailSuspend \/ DetailResume \/ DetailUnmount
    \/ AsyncLoadDevice \/ AfterRefresh \/ RefreshStatus
    \/ FetchBegins \/ LinkStatusKnown \/ StatusArrives \/ StatusFails \/ CacheExpires
    \/ EstablishLink \/ LinkAnswered \/ LinkReported
    \/ \E b \in Button : Tap(b) \/ TimerFires(b) \/ DisarmLate(b)

DetailSpec == DetailInit /\ [][DetailNext]_deviceVars

-----------------------------------------------------------------------------
(* Properties.                                                             *)

\* A screen that shows a refresh under way has one, whatever was suspended,
\* cancelled or begun twice.
SpinnerHasWorker == view = "shown" /\ spinner => refresh # "idle"

\* A tap is part of one command at most, or voided: nothing is sent for a single
\* tap, however timers and taps interleave.
TwoTapsEach == \A b \in Button :
    2 * sent[b] + voided[b] + Cardinality(armed \cap {b}) = taps[b] \/ view = "gone"

\* What is shown is never replaced by an older answer, nor by none: the cache
\* never holds less than what was shown last.
StatusNeverAges == cached # 0 => status <= cached
===============================================================================
