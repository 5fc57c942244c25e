------------------------------ MODULE PageBrowser ------------------------------
(***************************************************************************)
(* The page browser (tui/widgets/page_browser.py): pages of mesh nodes and *)
(* of the web, with a history.  A new request cancels the one before in    *)
(* its worker group; what is typed in the URL dialog has a group of its    *)
(* own, and both groups write the same page.                               *)
(***************************************************************************)
EXTENDS Naturals, Sequences

CONSTANTS
    Node,    \* nodes that serve pages
    Page,    \* paths on a node
    Url,     \* addresses in the web
    Offers,  \* the transports of the selected node: a sequence of nodes and addresses
    MaxAsks  \* bound: requests of the user

ASSUME BrowserAssumption ==
    /\ Offers \in Seq(Node \cup Url) /\ MaxAsks \in Nat
    /\ (Node \cup {"", "web"}) \cap (Page \cup Url) = {} /\ "index" \in Page

Web == "web"
NoSite == ""
Site == Node \cup {Web, NoSite}
Path == Page \cup Url \cup {NoSite}
Group == {"default", "page-load"}

VARIABLES
    pane,     \* the widget: "new", "open" or "gone"
    site,     \* destination_hash, or the web
    path,     \* current_path
    home,     \* the site that path belongs to
    history,  \* paths, each with the site it belongs to
    loads,    \* the load of each worker group
    lane,     \* the execution lane: "none", "open" or "closing"
    shown,    \* the page that is shown
    outcome,  \* of the load that ended last, since the last request
    asked,    \* the page that was asked for last
    transport, \* index of the active transport
    raced,    \* loads of both groups run, or ran, for different pages
    mixed,    \* a path was put in the history while it belonged to another site
    asks      \* requests so far

browserVars == <<pane, site, path, home, history, loads, lane, shown, outcome, asked,
                 transport, raced, mixed, asks>>

PageAt(s, p) == [site |-> s, path |-> p]
Load == [phase : {"idle", "start", "lane", "fetch", "cache"}, site : Site, path : Path, form : BOOLEAN]
Idle == [phase |-> "idle", site |-> NoSite, path |-> NoSite, form |-> FALSE]
Runs(g) == loads[g].phase # "idle"

BrowserTypeOK ==
    /\ pane \in {"new", "open", "gone"} /\ {site, home} \subseteq Site /\ path \in Path
    /\ history \in Seq([site : Site, path : Page \cup Url]) /\ loads \in [Group -> Load]
    /\ lane \in {"none", "open", "closing"} /\ outcome \in {"none", "ok", "failed"}
    /\ {shown, asked} \subseteq [site : Site, path : Path]
    /\ transport \in 0..Len(Offers) /\ raced \in BOOLEAN /\ mixed \in BOOLEAN

BrowserInit ==
    /\ pane = "new" /\ site = NoSite /\ path = "index" /\ home = NoSite /\ history = <<>>
    /\ loads = [g \in Group |-> Idle] /\ lane = "none"
    /\ shown = PageAt(NoSite, NoSite) /\ outcome = "none" /\ asked = PageAt(NoSite, NoSite)
    /\ transport = 0 /\ raced = FALSE /\ mixed = FALSE /\ asks = 0

-----------------------------------------------------------------------------
(* Requests.                                                                *)

\* The worker of the group is replaced.
Begin(g, p, form) ==
    loads' = [loads EXCEPT ![g] = [Idle EXCEPT !.phase = "start", !.path = p, !.form = form]]
Raced(g) == raced' = \E h \in Group \ {g} : Runs(h)
Asks(s, p) == pane = "open" /\ asks < MaxAsks /\ asks' = asks + 1 /\ asked' = PageAt(s, p) /\ outcome' = "none"
Unmoved == UNCHANGED <<pane, lane, shown>>

\* Without a target nothing is loaded.
BrowserMount(s) ==
    /\ pane = "new" /\ pane' = "open"
    /\ site' = s /\ home' = s
    /\ IF s = NoSite THEN UNCHANGED <<loads, asked>>
                     ELSE Begin("default", "index", FALSE) /\ asked' = PageAt(s, "index")
    /\ UNCHANGED <<path, history, lane, shown, outcome, transport, raced, mixed, asks>>

Moves(s, p) ==
    /\ Asks(s, p)
    /\ site' = s /\ path' = p /\ home' = s /\ history' = <<>> /\ mixed' = FALSE
    /\ Unmoved

\* Mutant of SetDestination: the history stays.
SetDestinationKeeps(n) ==
    /\ Asks(n, "index")
    /\ site' = n /\ path' = "index" /\ home' = n
    /\ Begin("default", "index", FALSE) /\ Raced("default")
    /\ Unmoved /\ UNCHANGED <<history, mixed, transport>>

SetDestination(n) ==
    /\ Moves(n, "index")
    /\ Begin("default", "index", FALSE) /\ Raced("default")
    /\ UNCHANGED transport

SetExternalUrl(u) ==
    /\ Moves(Web, u)
    /\ Begin("default", u, FALSE) /\ Raced("default")
    /\ UNCHANGED transport

\* The current path stays the one of the transport before until the load is done.
CycleTransport ==
    LET i == (transport % Len(Offers)) + 1 IN
    /\ Len(Offers) > 1
    /\ LET s == IF Offers[i] \in Node THEN Offers[i] ELSE Web
           p == IF Offers[i] \in Node THEN "index" ELSE Offers[i]
       IN Asks(s, p) /\ site' = s /\ Begin("default", p, FALSE)
    /\ transport' = i /\ history' = <<>> /\ mixed' = FALSE
    /\ Raced("default")
    /\ Unmoved /\ UNCHANGED <<path, home>>

\* Mutant of Navigate: a page that is not there goes into the history, too.
NavigateFromNowhere(p, form) ==
    /\ form => site # Web
    /\ Asks(site, p)
    /\ history' = Append(history, PageAt(home, path))
    /\ mixed' = (mixed \/ home # site)
    /\ Begin("default", p, form) /\ Raced("default")
    /\ Unmoved /\ UNCHANGED <<site, path, home, transport>>

\* A link, with a form or without.  Forms are for nodes.
Navigate(p, form) ==
    /\ form => site # Web
    /\ Asks(site, p)
    /\ IF path = NoSite THEN UNCHANGED <<history, mixed>>
       ELSE /\ history' = Append(history, PageAt(home, path))
            /\ mixed' = (mixed \/ home # site)
    /\ Begin("default", p, form) /\ Raced("default")
    /\ Unmoved /\ UNCHANGED <<site, path, home, transport>>

GoBack ==
    LET p == history[Len(history)].path IN
    /\ history # <<>>
    /\ Asks(site, p)
    /\ history' = SubSeq(history, 1, Len(history) - 1)
    /\ Begin("default", p, FALSE) /\ Raced("default")
    /\ Unmoved /\ UNCHANGED <<site, path, home, transport, mixed>>

Reload ==
    /\ Asks(site, path)
    /\ Begin("default", path, FALSE) /\ Raced("default")
    /\ Unmoved /\ UNCHANGED <<site, path, home, history, transport, mixed>>

\* The dialog: a web address is loaded by both groups; what is typed for the
\* node that is shown, by the second alone, without a trace in the history.
HandleUrl(p) ==
    /\ CASE p \in Url ->
              /\ Moves(Web, p)
              /\ loads' = [g \in Group |-> [Idle EXCEPT !.phase = "start", !.path = p]]
              /\ UNCHANGED raced
         [] p \notin Url /\ site = Web ->
              /\ Moves(NoSite, NoSite)
              /\ loads' = [g \in Group |-> [Idle EXCEPT !.phase = "start",
                                              !.path = IF g = "default" THEN NoSite ELSE p]]
              /\ UNCHANGED raced
         [] OTHER ->
              /\ Asks(site, p)
              /\ Begin("page-load", p, FALSE) /\ Raced("page-load")
              /\ Unmoved /\ UNCHANGED <<site, path, home, history, mixed>>
    /\ UNCHANGED transport

-----------------------------------------------------------------------------
(* A load.                                                                  *)

Becomes(g, phase, s) == loads' = [loads EXCEPT ![g].phase = phase, ![g].site = s]
Ends(g, o) == loads' = [loads EXCEPT ![g] = Idle] /\ outcome' = o
Elsewhere == UNCHANGED <<pane, site, history, asked, transport, raced, mixed, asks>>

\* The lane is there, or it is connected first.  Forms are refused in the web.
LoadPage(g) ==
    /\ loads[g].phase = "start"
    /\ IF loads[g].form /\ site = Web THEN Ends(g, "failed")
       ELSE /\ IF lane = "open" THEN Becomes(g, "fetch", site) ELSE Becomes(g, "lane", NoSite)
            /\ UNCHANGED outcome
    /\ UNCHANGED <<path, home, lane, shown>> /\ Elsewhere

\* The destination is the one of now.
GetPageBridge(g, ok) ==
    /\ loads[g].phase = "lane"
    /\ IF ok THEN lane' = "open" /\ Becomes(g, "fetch", site) /\ UNCHANGED outcome
             ELSE Ends(g, "failed") /\ UNCHANGED lane
    /\ UNCHANGED <<path, home, shown>> /\ Elsewhere

IsServed(s, p) == s # NoSite /\ (s = Web <=> p \in Url) /\ p # NoSite

Shows(s, p) == shown' = PageAt(s, p) /\ path' = p /\ home' = s

\* The page, or the copy the daemon keeps of it.
PageArrives(g) ==
    LET l == loads[g] IN
    /\ l.phase = "fetch" /\ IsServed(l.site, l.path)
    /\ Shows(l.site, l.path) /\ Ends(g, "ok")
    /\ UNCHANGED lane /\ Elsewhere

SetError(g) ==
    /\ loads[g].phase \in {"fetch", "cache"}
    /\ Ends(g, "failed")
    /\ UNCHANGED <<path, home, lane, shown>> /\ Elsewhere

\* The call itself failed: the copy is asked for, of the destination of now.
FetchRaises(g) ==
    /\ loads[g].phase = "fetch" /\ ~loads[g].form /\ site # Web
    /\ Becomes(g, "cache", site)
    /\ UNCHANGED <<path, home, lane, shown, outcome>> /\ Elsewhere

ShowCachedPage(g) ==
    LET l == loads[g] IN
    /\ l.phase = "cache" /\ IsServed(l.site, l.path)
    /\ Shows(l.site, l.path) /\ Ends(g, "ok")
    /\ UNCHANGED lane /\ Elsewhere

\* The workers are cancelled first, then the lane is disconnected.
BrowserUnmount ==
    /\ pane = "open" /\ pane' = "gone"
    /\ loads' = [g \in Group |-> Idle]
    /\ lane' = IF lane = "open" THEN "closing" ELSE lane
    /\ UNCHANGED <<site, path, home, history, shown, outcome, asked, transport, raced, mixed, asks>>

LaneCloses ==
    /\ lane = "closing" /\ lane' = "none"
    /\ UNCHANGED <<pane, site, path, home, history, loads, shown, outcome, asked, transport,
                   raced, mixed, asks>>

BrowserNext ==
    \/ CycleTransport \/ GoBack \/ Reload \/ BrowserUnmount \/ LaneCloses
    \/ \E s \in Node \cup {NoSite} : BrowserMount(s)
    \/ \E n \in Node : SetDestination(n)
    \/ \E u \in Url : SetExternalUrl(u)
    \/ \E p \in Page, form \in BOOLEAN : site # Web /\ Navigate(p, form)
    \/ \E p \in Url : site = Web /\ Navigate(p, FALSE)
    \/ \E p \in Page \cup Url : HandleUrl(p)
    \/ \E g \in Group : \/ LoadPage(g) \/ \E ok \in BOOLEAN : GetPageBridge(g, ok)
                        \/ PageArrives(g) \/ SetError(g) \/ FetchRaises(g) \/ ShowCachedPage(g)

BrowserSpec == BrowserInit /\ [][BrowserNext]_browserVars

-----------------------------------------------------------------------------
(* Properties.                                                             *)

Quiet == \A g \in Group : ~Runs(g)

\* When the loads are over and the last one got its page, that page is the one
\* asked for last, whatever was cancelled on the way: unless both groups loaded.
\* And a page that is shown is the one that Reload reloads, on the same site.
PageIsTrue ==
    Quiet /\ ~raced /\ outcome = "ok" => shown = asked /\ PageAt(site, path) = asked

\* Back leads to a page of the site that is shown, unless a path was recorded
\* between a change of transport and the first page of it.
BackIsHome == ~mixed => \A i \in 1..Len(history) : history[i].site = site

\* Even when both groups load, the path is the one of the page that came last;
\* and a closed browser has no load that could change it, and no lane.
PathIsShown ==
    /\ outcome = "ok" /\ Quiet => path = shown.path
    /\ pane = "gone" => Quiet /\ lane # "open"
===============================================================================
