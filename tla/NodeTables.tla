------------------------------- MODULE NodeTables -------------------------------
(***************************************************************************)
(* The tables of the Nodes screen (tui/screens/exploration.py): one per tab,  *)
(* filled from the cache by the kind of node, each with its own filters, order *)
(* and cursor, and one search bar for all.  What the widgets post reaches the   *)
(* screen later, in order.  The tables for infrastructure and other nodes go    *)
(* like the one for LXMF; one tab has none.  How the cache is filled and the     *)
(* screen suspended is in DeviceViews.                                           *)
(***************************************************************************)
EXTENDS Naturals, Sequences, FiniteSets, SequencesExt

CONSTANTS Ranked,     \* the destinations, in the order of their names
          TypeOf, WhoseIs, \* of each destination: the type and the identity
          WithPages,  \* Styrene nodes that name a destination with pages
          Matching,   \* those that match the text that is searched for
          MaxPosts, MaxActs, MaxNews \* bounds: messages under way, acts of the user, changes

Endpoint == ToSet(Ranked)
Table == {"styrene", "lxmf", "pages"}
NoNode == "None"
Text == {"", "query"}

ASSUME TablesAssumption ==
    /\ Ranked \in Seq(Endpoint) /\ IsInjective(Ranked)
    /\ TypeOf \in [Endpoint -> Table] /\ WithPages \subseteq Endpoint /\ Matching \subseteq Endpoint
    /\ MaxPosts \in Nat /\ MaxActs \in Nat /\ MaxNews \in Nat

VARIABLES
    cachedNodes, recency, statusOf, \* the nodes of the cache, by their last announces, and how they count now
    table,      \* of each: what it holds, its filters and order, its rows and cursor
    tab, searchBar, \* the tab that is open; the bar: whether it is shown, and its text
    posted,     \* messages to the screen
    detail,     \* what was opened: the row's key, and what the screen made of it
    inFront,    \* the screen is
    acts, news, \* counters
    strayed, disturbed, wanted \* a tab was left with the bar hidden; a table or the tab has changed
                               \* since a row was selected; of each table: the node of its cursor

endpointVars == <<cachedNodes, recency, statusOf>>
tablesVars == <<endpointVars, table, tab, searchBar, posted, detail, inFront, acts, news,
                strayed, disturbed, wanted>>

NoDetail == [key |-> NoNode, node |-> NoNode, whose |-> NoNode]
EmptyTable == [holds |-> {}, filter |-> "", lost |-> TRUE, stale |-> FALSE, by |-> "announce", reverse |-> TRUE,
               rows |-> <<>>, cursor |-> 0]
KeyOf(r) == IF r.rows = <<>> THEN NoNode ELSE r.rows[r.cursor]

TablesTypeOK ==
    /\ cachedNodes \subseteq Endpoint /\ ToSet(recency) = Endpoint
    /\ statusOf \in [Endpoint -> {"active", "stale", "lost"}]
    /\ \A t \in Table :
          /\ table[t].holds \subseteq Endpoint /\ table[t].filter \in Text
          /\ table[t].lost \in BOOLEAN /\ table[t].stale \in BOOLEAN
          /\ table[t].by \in {"announce", "name"} /\ table[t].reverse \in BOOLEAN
          /\ IF table[t].rows = <<>> THEN table[t].cursor = 0 ELSE table[t].cursor \in DOMAIN table[t].rows
          /\ wanted[t] \in Endpoint \cup {NoNode}
    /\ tab \in Table \cup {"diagnostics"} /\ searchBar.shown \in BOOLEAN /\ searchBar.text \in Text
    /\ Len(posted) <= MaxPosts + 1
    /\ detail.node \in Endpoint \cup {NoNode} /\ inFront \in BOOLEAN
    /\ acts \in 0..MaxActs /\ news \in 0..MaxNews /\ strayed \in BOOLEAN /\ disturbed \in BOOLEAN

-----------------------------------------------------------------------------
(* Building a table.                                                       *)

PlaceIn(order, d) == CHOOSE i \in DOMAIN order : order[i] = d

\* _sort_devices; the order within equals is that of the list.
Before(r, c, d) ==
    LET order == IF r.by = "name" THEN Ranked ELSE recency IN
    IF r.reverse THEN PlaceIn(order, d) < PlaceIn(order, c) ELSE PlaceIn(order, c) < PlaceIn(order, d)

\* In its place stands the node with as many before it.
Arranged(r, nodes) ==
    [i \in 1..Cardinality(nodes) |->
        CHOOSE d \in nodes : Cardinality({c \in nodes : Before(r, c, d)}) = i - 1]

Visible(r, d) ==
    /\ r.lost => statusOf[d] # "lost"
    /\ r.stale => statusOf[d] # "stale"
    /\ r.filter # "" => d \in Matching

\* Mutant of Rebuilt: the cursor stays on its line.
RebuiltInPlace(r) ==
    LET rows == Arranged(r, {d \in r.holds : Visible(r, d)}) IN
    [r EXCEPT !.rows = rows,
              !.cursor = IF @ \in DOMAIN rows THEN @ ELSE IF rows = <<>> THEN 0 ELSE 1]

\* _rebuild_table: the cursor goes to the node it was on, or to the first row.
Rebuilt(r) ==
    LET rows == Arranged(r, {d \in r.holds : Visible(r, d)})
        same == {i \in DOMAIN rows : rows[i] = KeyOf(r)} IN
    [r EXCEPT !.rows = rows,
              !.cursor = IF rows = <<>> THEN 0 ELSE IF same = {} THEN 1 ELSE CHOOSE i \in same : TRUE]

\* build_styrene_fleet_projection: of the Styrene nodes of an identity the one that was
\* announced last.
Fleet(styrene) ==
    LET Later(c, d) == \E i, j \in DOMAIN recency : recency[i] = d /\ recency[j] = c /\ i < j IN
    {d \in styrene : \A c \in styrene : WhoseIs[c] = WhoseIs[d] => ~Later(c, d)}

\* _load_all_devices and the lists of _refresh_announce_tables: no LXMF shadows of
\* Styrene nodes, and those with pages in two tables.
Holds(t) ==
    LET styrene == {d \in cachedNodes : TypeOf[d] = "styrene"} IN
    CASE t = "styrene" -> Fleet(styrene)
      [] t = "pages" -> {d \in cachedNodes : TypeOf[d] = "pages"} \cup (styrene \cap WithPages)
      [] OTHER -> {d \in cachedNodes : TypeOf[d] = t /\ \A c \in styrene : WhoseIs[c] # WhoseIs[d]}

\* Mutant of Loaded: the tables that are not open are left for later.
LoadedIfOpen == [t \in Table |-> IF t = tab THEN Rebuilt([table[t] EXCEPT !.holds = Holds(t)]) ELSE table[t]]
Loaded == [t \in Table |-> Rebuilt([table[t] EXCEPT !.holds = Holds(t)])]

\* What the user has the cursor on stays wanted as long as it is a row.
Follows(new) ==
    /\ table' = new
    /\ wanted' = [t \in Table |-> IF wanted[t] \in ToSet(new[t].rows) THEN wanted[t]
                                  ELSE IF new[t].rows = <<>> THEN NoNode ELSE new[t].rows[1]]
Posts(m) == Len(posted) < MaxPosts /\ posted' = Append(posted, m)
Acts == inFront /\ acts < MaxActs /\ acts' = acts + 1
OnTable(r) == tab \in Table /\ Follows([table EXCEPT ![tab] = Rebuilt(r)])

TablesInit ==
    /\ cachedNodes = Endpoint /\ recency = Ranked /\ statusOf = [d \in Endpoint |-> "active"]
    /\ LET first(t) == Arranged(EmptyTable, Holds(t)) IN
       /\ table = [t \in Table |-> [EmptyTable EXCEPT !.holds = Holds(t), !.rows = first(t),
                                                      !.cursor = IF Holds(t) = {} THEN 0 ELSE 1]]
       /\ wanted = [t \in Table |-> IF Holds(t) = {} THEN NoNode ELSE first(t)[1]]
    /\ tab = "styrene" /\ searchBar = [shown |-> FALSE, text |-> ""]
    /\ posted = <<>> /\ detail = NoDetail /\ inFront = TRUE
    /\ acts = 0 /\ news = 0 /\ strayed = FALSE /\ disturbed = FALSE

-----------------------------------------------------------------------------
(* The mesh, the cache and the clock.                                      *)

\* A node announces itself, or is forgotten; the cache says so.
CacheChanges(d) ==
    /\ news < MaxNews /\ news' = news + 1 /\ Posts([kind |-> "updated"])
    /\ \/ /\ cachedNodes' = cachedNodes \cup {d} /\ recency' = Append(RemoveAt(recency, PlaceIn(recency, d)), d)
          /\ statusOf' = [statusOf EXCEPT ![d] = "active"]
       \/ d \in cachedNodes /\ cachedNodes' = cachedNodes \ {d} /\ UNCHANGED <<recency, statusOf>>
    /\ UNCHANGED <<table, tab, searchBar, detail, inFront, acts, strayed, disturbed, wanted>>

\* How a node counts is a matter of time, and no message says so.
NodeAges(d) ==
    /\ news < MaxNews /\ news' = news + 1
    /\ \/ statusOf[d] = "active" /\ statusOf' = [statusOf EXCEPT ![d] = "stale"]
       \/ statusOf[d] \in {"active", "stale"} /\ statusOf' = [statusOf EXCEPT ![d] = "lost"]
    /\ UNCHANGED <<cachedNodes, recency, table, tab, searchBar, posted, detail, inFront, acts, strayed, disturbed, wanted>>

-----------------------------------------------------------------------------
(* The user.                                                               *)

ShowSearch ==
    /\ Acts /\ searchBar' = [searchBar EXCEPT !.shown = TRUE]
    /\ UNCHANGED <<endpointVars, table, tab, posted, detail, inFront, news, strayed, disturbed, wanted>>

TypeText(text) ==
    /\ Acts /\ searchBar.shown /\ searchBar.text # text
    /\ searchBar' = [searchBar EXCEPT !.text = text] /\ Posts([kind |-> "changed", text |-> text])
    /\ UNCHANGED <<endpointVars, table, tab, detail, inFront, news, strayed, disturbed, wanted>>

SubmitText ==
    /\ Acts /\ searchBar.shown /\ Posts([kind |-> "submitted"])
    /\ UNCHANGED <<endpointVars, table, tab, searchBar, detail, inFront, news, strayed, disturbed, wanted>>

\* What was typed is cleared with the bar, which posts a change; of the tables, only
\* the one that is open.
DismissSearch ==
    /\ Acts /\ searchBar.shown /\ searchBar' = [shown |-> FALSE, text |-> ""]
    /\ IF searchBar.text = "" THEN UNCHANGED posted ELSE Posts([kind |-> "changed", text |-> ""])
    /\ \/ OnTable([table[tab] EXCEPT !.filter = ""]) /\ disturbed' = TRUE
       \/ tab \notin Table /\ UNCHANGED <<table, wanted, disturbed>>
    /\ strayed' = (strayed \/ \E i \in DOMAIN posted : posted[i].kind = "activated")
    /\ UNCHANGED <<endpointVars, tab, detail, inFront, news>>

SwitchTab(t) ==
    /\ Acts /\ t # tab /\ tab' = t /\ disturbed' = TRUE
    /\ Posts([kind |-> "activated",
              early |-> \E i \in DOMAIN posted : posted[i].kind \in {"changed", "submitted"}])
    /\ UNCHANGED <<endpointVars, table, searchBar, detail, inFront, news, strayed, wanted>>

\* A click on a column: another order, or the same the other way.
SortBy(column) ==
    /\ Acts
    /\ LET r == table[tab] IN
       OnTable([r EXCEPT !.by = column, !.reverse = IF r.by = column THEN ~r.reverse ELSE column = "announce"])
    /\ UNCHANGED <<endpointVars, tab, searchBar, posted, detail, inFront, news, strayed, disturbed>>

Toggle ==
    /\ Acts
    /\ LET r == table[tab] IN
       OnTable([r EXCEPT !.lost = ~r.lost]) \/ OnTable([r EXCEPT !.stale = ~r.stale])
    /\ UNCHANGED <<endpointVars, tab, searchBar, posted, detail, inFront, news, strayed, disturbed>>

MoveCursor(i) ==
    /\ Acts /\ tab \in Table /\ i \in DOMAIN table[tab].rows /\ i # table[tab].cursor
    /\ table' = [table EXCEPT ![tab].cursor = i] /\ wanted' = [wanted EXCEPT ![tab] = table[tab].rows[i]]
    /\ UNCHANGED <<endpointVars, tab, searchBar, posted, detail, inFront, news, strayed, disturbed>>

\* Enter in the table: the row it is on, which for the line of an empty table is none.
SelectRow ==
    /\ Acts /\ tab \in Table /\ table[tab].rows # <<>>
    /\ Posts([kind |-> "selected", key |-> KeyOf(table[tab]), from |-> tab])
    /\ disturbed' = (disturbed /\ \E i \in DOMAIN posted : posted[i].kind = "selected")
    /\ UNCHANGED <<endpointVars, table, tab, searchBar, detail, inFront, news, strayed, wanted>>

\* _find_device_by_selection_key, in the table that is open now; a key that is not
\* found is taken for an identity.
OpensNode(key) ==
    LET node == IF tab \in Table /\ key \in table[tab].holds THEN key ELSE NoNode IN
    /\ detail' = [key |-> key, node |-> node, whose |-> IF node = NoNode THEN key ELSE WhoseIs[node]]
    /\ inFront' = FALSE

\* Enter or c beside the table: the line of an empty table has the key "None" here.
SelectDevice ==
    /\ Acts /\ tab \in Table /\ OpensNode(KeyOf(table[tab]))
    /\ UNCHANGED <<endpointVars, table, tab, searchBar, posted, news, strayed, disturbed, wanted>>

RefreshTables ==
    /\ Acts /\ Follows(Loaded) /\ disturbed' = TRUE
    /\ UNCHANGED <<endpointVars, tab, searchBar, posted, detail, inFront, news, strayed>>

\* The detail screen is left: on_screen_resume.
ComesBack ==
    /\ ~inFront /\ inFront' = TRUE /\ Follows(Loaded) /\ disturbed' = TRUE /\ detail' = NoDetail
    /\ UNCHANGED <<endpointVars, tab, searchBar, posted, acts, news, strayed>>

-----------------------------------------------------------------------------
(* The messages.                                                           *)

Handles(kind) == posted # <<>> /\ Head(posted).kind = kind

DevicesUpdated ==
    /\ Handles("updated") /\ posted' = Tail(posted) /\ Follows(Loaded) /\ disturbed' = TRUE
    /\ UNCHANGED <<endpointVars, tab, searchBar, detail, inFront, acts, news, strayed>>

\* The text goes to the table that is open by now.
InputChanged ==
    /\ Handles("changed") /\ posted' = Tail(posted)
    /\ \/ OnTable([table[tab] EXCEPT !.filter = Head(posted).text])
       \/ tab \notin Table /\ UNCHANGED <<table, wanted>>
    /\ UNCHANGED <<endpointVars, tab, searchBar, detail, inFront, acts, news, strayed, disturbed>>

InputSubmitted ==
    /\ Handles("submitted") /\ posted' = Tail(posted) /\ searchBar' = [searchBar EXCEPT !.shown = FALSE]
    /\ UNCHANGED <<endpointVars, table, tab, detail, inFront, acts, news, strayed, disturbed, wanted>>

\* Mutant of TabActivated: what the tables filter by stays.
TabActivatedKeeps ==
    /\ Handles("activated")
    /\ searchBar' = [searchBar EXCEPT !.text = IF searchBar.shown THEN "" ELSE @] /\ strayed' = strayed
    /\ posted' = Tail(posted)
    /\ UNCHANGED <<endpointVars, tab, detail, inFront, acts, news, disturbed, table, wanted>>

\* With the bar shown, everything that was searched for is cleared; a bar that was
\* hidden with its text keeps it, and so does the table.
TabActivated ==
    /\ Handles("activated")
    /\ IF searchBar.shown
       THEN /\ searchBar' = [searchBar EXCEPT !.text = ""] /\ UNCHANGED strayed
            /\ Follows([t \in Table |-> Rebuilt([table[t] EXCEPT !.filter = ""])])
            /\ posted' = IF searchBar.text = "" THEN Tail(posted)
                         ELSE Append(Tail(posted), [kind |-> "changed", text |-> ""])
       ELSE /\ strayed' = (strayed \/ searchBar.text # "" \/ Head(posted).early) /\ posted' = Tail(posted)
            /\ UNCHANGED <<searchBar, table, wanted>>
    /\ UNCHANGED <<endpointVars, tab, detail, inFront, acts, news, disturbed>>

\* A node of the pages' table goes to the browser below it, any other to its screen.
RowSelected ==
    /\ Handles("selected") /\ posted' = Tail(posted)
    /\ IF Head(posted).from = "pages"
       THEN /\ LET key == Head(posted).key IN
               detail' = IF tab \in Table /\ key \in table[tab].holds
                         THEN [key |-> key, node |-> key, whose |-> WhoseIs[key]] ELSE detail
            /\ UNCHANGED inFront
       ELSE OpensNode(Head(posted).key)
    /\ UNCHANGED <<endpointVars, table, tab, searchBar, acts, news, strayed, disturbed, wanted>>

TablesNext ==
    \/ \E d \in Endpoint : CacheChanges(d) \/ NodeAges(d)
    \/ \E text \in Text : TypeText(text)
    \/ \E t \in Table \cup {"diagnostics"} : SwitchTab(t)
    \/ \E column \in {"announce", "name"} : SortBy(column)
    \/ \E i \in 1..Len(Ranked) : MoveCursor(i)
    \/ ShowSearch \/ SubmitText \/ DismissSearch \/ Toggle \/ SelectRow \/ SelectDevice \/ RefreshTables \/ ComesBack
    \/ DevicesUpdated \/ InputChanged \/ InputSubmitted \/ TabActivated \/ RowSelected

TablesSpec == TablesInit /\ [][TablesNext]_tablesVars

-----------------------------------------------------------------------------
(* Properties.                                                             *)

\* When no message is under way, the table that is open is filtered by what the bar says
\* and no other is, whichever tabs were opened while it was typed, sent or cleared;
\* only a tab that is left while the bar is hidden with its text, or as it is
\* hidden before what was posted has arrived, keeps its filter.
FilterIsBar ==
    posted = <<>> /\ ~strayed =>
        \A t \in Table : table[t].filter = IF t = tab THEN searchBar.text ELSE ""

\* What is opened is the node whose row was selected, with its identity, if the tables
\* and the tab stayed as they were until the message came; a destination is
\* opened as if it were an identity only when they did not, or the table was empty.
OpenedIsSelected ==
    detail # NoDetail =>
        \/ detail.node = detail.key /\ detail.whose = WhoseIs[detail.key]
        \/ detail.key = NoNode \/ disturbed

\* A node is in one of the tables only once, none of the tables shows the messaging
\* destination of a Styrene node as a peer of its own, and all tables show the
\* same state of the cache.
TablesAgree ==
    /\ \A t \in Table : IsInjective(table[t].rows) /\ ToSet(table[t].rows) \subseteq table[t].holds
    /\ \A c \in table["styrene"].holds, d \in table["lxmf"].holds : WhoseIs[c] # WhoseIs[d]
    /\ \A c, d \in table["styrene"].holds : WhoseIs[c] = WhoseIs[d] => c = d
    /\ \A d \in table["pages"].holds : TypeOf[d] = "styrene" =>
          \E c \in table["styrene"].holds : WhoseIs[c] = WhoseIs[d]

\* However a table is filled, filtered and sorted, the cursor stays on the node it was on
\* as long as that has a row.
CursorStaysOnNode == \A t \in Table : KeyOf(table[t]) = wanted[t]
=================================================================================
