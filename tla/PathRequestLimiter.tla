-------------------------- MODULE PathRequestLimiter --------------------------
(***************************************************************************)
(* The limiter of path requests (services/rns_limits.py): a table of the   *)
(* last request per destination.  The callers run on one thread; the clock *)
(* does not go back.  Time is counted in units the intervals are multiples *)
(* of.                                                                     *)
(***************************************************************************)
EXTENDS Naturals, FiniteSets

CONSTANTS
    Destination,
    MIN_PATH_REQUEST_INTERVAL,
    MAX_PATH_REQUESTS_PER_WINDOW,
    PATH_REQUEST_WINDOW

ASSUME LimiterAssumption ==
    /\ MIN_PATH_REQUEST_INTERVAL \in Nat \ {0}
    /\ MAX_PATH_REQUESTS_PER_WINDOW \in Nat
    /\ PATH_REQUEST_WINDOW \in Nat
    /\ MIN_PATH_REQUEST_INTERVAL <= PATH_REQUEST_WINDOW

VARIABLES
    now,             \* time.time()
    last_requests,   \* _last_path_requests: destination to time
    issued           \* all path requests RNS was given: <<destination, time>>

limiterVars == <<now, last_requests, issued>>

LimiterTypeOK ==
    /\ now \in Nat
    /\ DOMAIN last_requests \subseteq Destination
    /\ \A d \in DOMAIN last_requests : last_requests[d] \in Nat
    /\ issued \subseteq Destination \X Nat

\* The process starts at some time t.
LimiterInit(t) ==
    /\ now = t
    /\ last_requests = [d \in {} |-> 0]
    /\ issued = {}

\* Mutant of Fresh: entries go after the minimum interval.
FreshShort ==
    {d \in DOMAIN last_requests : last_requests[d] + MIN_PATH_REQUEST_INTERVAL >= now}

\* Entries the comprehension keeps.
Fresh == {d \in DOMAIN last_requests : last_requests[d] + PATH_REQUEST_WINDOW >= now}

\* Mutants of Allowed: a repeated request is let through; one more than the
\* budget is.
AllowedAgain(d) == Cardinality(Fresh) < MAX_PATH_REQUESTS_PER_WINDOW

Allowed(d) ==
    /\ d \in Fresh => now - last_requests[d] >= MIN_PATH_REQUEST_INTERVAL
    /\ Cardinality(Fresh) < MAX_PATH_REQUESTS_PER_WINDOW

\* request_path_once, granted or suppressed.
RequestPath(d) ==
    /\ IF Allowed(d)
       THEN /\ last_requests' = [k \in Fresh \union {d} |->
                                    IF k = d THEN now ELSE last_requests[k]]
            /\ issued' = issued \union {<<d, now>>}
       ELSE /\ last_requests' = [k \in Fresh |-> last_requests[k]]
            /\ UNCHANGED issued
    /\ UNCHANGED now

Tick ==
    /\ now' = now + 1
    /\ UNCHANGED <<last_requests, issued>>

LimiterNext == Tick \/ \E d \in Destination : RequestPath(d)

LimiterSpec == (\E t \in Nat : LimiterInit(t)) /\ [][LimiterNext]_limiterVars

-----------------------------------------------------------------------------
(* Properties.                                                             *)

\* No destination is asked for twice within the minimum interval, even when
\* its entry has been pruned in between.
Spaced ==
    \A r, s \in issued :
        r[1] = s[1] /\ r[2] < s[2] => s[2] - r[2] >= MIN_PATH_REQUEST_INTERVAL

\* Whatever is requested and pruned, and when: the destinations requested
\* within one window are at most the budget.
Recent == {r[1] : r \in {q \in issued : q[2] + PATH_REQUEST_WINDOW >= now}}
BudgetKept == Cardinality(Recent) <= MAX_PATH_REQUESTS_PER_WINDOW

\* Path requests of one destination keep their distance, and those of all
\* destinations within a window their budget, whatever is pruned and when.
RequestsBounded == Spaced /\ BudgetKept
=============================================================================
