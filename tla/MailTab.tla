-------------------------------- MODULE MailTab --------------------------------
(***************************************************************************)
(* The exchange screen (tui/screens/exchange.py) and the host of its tabs   *)
(* (tui/lifecycle/screen_content.py): the list of conversations, which      *)
(* loads, searches, deletions and syncs write in whatever order they end,   *)
(* and the switch for automatic replies.  A step is what runs between two   *)
(* awaits; the daemon handles a request at any time between.  The tabs      *)
(* other than mail have no work that waits and is kept apart here.          *)
(***************************************************************************)
EXTENDS Naturals, FiniteSets

CONSTANTS
    Correspondent,  \* peers with whom there may be a conversation
    Nobody,
    Job,            \* bound: workers of the screen at once
    MaxPresses,     \* bound: keys the user presses
    MaxLetters,     \* bound: messages that come
    MaxRefusals     \* bound: requests that fail

ASSUME MailAssumption ==
    /\ Nobody \notin Correspondent /\ {MaxPresses, MaxLetters, MaxRefusals} \subseteq Nat
    /\ IsFiniteSet(Job) /\ Cardinality(Job) >= 2

VARIABLES
    inbox,           \* the daemon's conversations
    reply_mode,      \* its automatic replies
    open_tab,        \* active_slot_id; "ended" when the program has
    front,           \* the screen is on top
    work,            \* the workers
    listing,         \* #conversation-table: of which kind, and its rows
    indexed,         \* _mail_index
    delete_pending, delete_timer,
    search_active, compose_active,
    switch,          \* #ooo-switch
    presses, letters, refusals,
    overlapped,      \* workers that list something were under way together
    unsure,          \* a request about replies failed, or two of them crossed
    chosen,          \* the mode of replies the user chose
    confirm,         \* the peer of the last "d", while its time has not run out
    unconfirmed      \* deletions without one

mailVars == <<inbox, reply_mode, open_tab, front, work, listing, indexed, delete_pending, delete_timer,
              search_active, compose_active, switch, presses, letters, refusals,
              overlapped, unsure, chosen, confirm, unconfirmed>>

Lists == {"load", "reload", "search", "delete", "sync"}
Replies == {"auto", "toggle"}
Mode == {"disabled", "template", "chatbot"}
Work == [job : Lists \cup Replies \cup {"none", "open"}, heard : BOOLEAN, ok : BOOLEAN, mode : Mode,
         asks : {"nothing", "conversations", "mode", "set", "hits", "delete", "sync", "name"},
         peer : Correspondent \cup {Nobody}, rows : SUBSET Correspondent]
Asking(job, request) == [job |-> job, asks |-> request, peer |-> Nobody, heard |-> FALSE, ok |-> FALSE, rows |-> {},
                         mode |-> "disabled"]
NoWork == Asking("none", "nothing")

MailTypeOK ==
    /\ inbox \subseteq Correspondent /\ {reply_mode, chosen} \subseteq Mode
    /\ open_tab \in {"none", "mail", "contacts", "ended"} /\ front \in BOOLEAN
    /\ work \in [Job -> Work]
    /\ listing \in [kind : {"loading", "threads", "hits"}, rows : SUBSET Correspondent]
    /\ indexed \subseteq Correspondent /\ unconfirmed \subseteq Correspondent
    /\ {delete_pending, confirm} \subseteq Correspondent \cup {Nobody}
    /\ {delete_timer, search_active, compose_active, switch, overlapped, unsure} \subseteq BOOLEAN
    /\ presses \in 0..MaxPresses /\ letters \in 0..MaxLetters /\ refusals \in 0..MaxRefusals

MailInit ==
    /\ inbox \in SUBSET Correspondent /\ reply_mode \in Mode /\ chosen = reply_mode
    /\ open_tab = "none" /\ front = FALSE /\ work = [j \in Job |-> NoWork]
    /\ listing = [kind |-> "loading", rows |-> {}] /\ indexed = {}
    /\ delete_pending = Nobody /\ delete_timer = FALSE
    /\ search_active = FALSE /\ compose_active = FALSE /\ switch = FALSE
    /\ presses = 0 /\ letters = 0 /\ refusals = 0
    /\ overlapped = FALSE /\ unsure = FALSE /\ confirm = Nobody /\ unconfirmed = {}

-----------------------------------------------------------------------------
(* Workers.                                                                *)

Working(w, kinds) == {j \in Job : w[j].job \in kinds}
MailQuiet == Working(work, Lists) = {}

FreeJob(w) == Working(w, {"none"})

\* One that is not exclusive.
Begun(w, j, record) == [w EXCEPT ![j] = record]
Added(w, record) == Begun(w, CHOOSE j \in FreeJob(w) : TRUE, record)

Cancelled(w, kinds) == [j \in Job |-> IF w[j].job \in kinds THEN NoWork ELSE w[j]]

\* Each replaces the one before.
Activated(w) ==
    LET left == Cancelled(w, {"load", "auto"})
        a == CHOOSE j \in FreeJob(left) : TRUE
        b == CHOOSE j \in FreeJob(left) \ {a} : TRUE
    IN Begun(Begun(left, a, Asking("load", "conversations")), b, Asking("auto", "mode"))

Room(w) == Cardinality(FreeJob(Cancelled(w, {"load", "auto"}))) >= 2

Deactivated(w) == Cancelled(w, {"load", "auto"})

userKeeps == <<inbox, reply_mode, letters, refusals, chosen>>
deleteVars == <<delete_pending, delete_timer, confirm, unconfirmed>>
listingVars == <<listing, indexed, switch>>

-----------------------------------------------------------------------------
(* The screen and its tabs.                                                *)

OnMount ==
    /\ open_tab = "none" /\ open_tab' = "mail" /\ front' = TRUE
    /\ work' = Activated(work)
    /\ UNCHANGED <<userKeeps, deleteVars, listingVars, search_active, compose_active, presses>>

OnScreenResume ==
    /\ open_tab \notin {"none", "ended"} /\ front' = TRUE
    /\ IF open_tab = "mail" THEN Room(work) /\ work' = Activated(work) ELSE UNCHANGED work
    /\ UNCHANGED <<userKeeps, deleteVars, listingVars, search_active, compose_active, presses, open_tab>>

\* The timer stops, and what it would have taken back stays.
OnScreenSuspend ==
    /\ front /\ front' = FALSE /\ presses < MaxPresses /\ presses' = presses + 1
    /\ IF open_tab = "mail" THEN work' = Deactivated(work) /\ delete_timer' = FALSE
       ELSE UNCHANGED <<work, delete_timer>>
    /\ UNCHANGED <<userKeeps, listingVars, search_active, compose_active, open_tab, delete_pending, confirm, unconfirmed>>

OnTabActivated(t) ==
    /\ front /\ open_tab \notin {"none", t} /\ open_tab' = t
    /\ presses < MaxPresses /\ presses' = presses + 1
    /\ IF t = "mail" THEN Room(work) /\ work' = Activated(work) /\ UNCHANGED delete_timer
       ELSE work' = Deactivated(work) /\ delete_timer' = FALSE
    /\ UNCHANGED <<userKeeps, listingVars, search_active, compose_active, front, delete_pending, confirm, unconfirmed>>

-----------------------------------------------------------------------------
(* The daemon.                                                             *)

MessageArrives(p) ==
    /\ letters < MaxLetters /\ letters' = letters + 1 /\ p \notin inbox /\ inbox' = inbox \cup {p}
    /\ UNCHANGED <<reply_mode, open_tab, front, work, deleteVars, listingVars, search_active, compose_active,
                   presses, refusals, chosen>>

DaemonHandles(j) ==
    /\ work[j].asks # "nothing" /\ ~work[j].heard
    /\ \/ /\ refusals < MaxRefusals /\ refusals' = refusals + 1
          /\ work' = [work EXCEPT ![j].heard = TRUE] /\ UNCHANGED <<inbox, reply_mode>>
       \/ /\ UNCHANGED refusals
          /\ inbox' = IF work[j].asks = "delete" THEN inbox \ {work[j].peer} ELSE inbox
          /\ reply_mode' = IF work[j].asks = "set" THEN work[j].mode ELSE reply_mode
          /\ \E rows \in CASE work[j].asks = "conversations" -> {inbox}
                           [] work[j].asks = "hits" -> SUBSET inbox
                           [] OTHER -> {{}} :
                work' = [work EXCEPT ![j].heard = TRUE, ![j].ok = TRUE, ![j].rows = rows,
                                     ![j].mode = IF work[j].asks = "mode" THEN reply_mode ELSE @]
    /\ UNCHANGED <<open_tab, front, deleteVars, listingVars, search_active, compose_active, presses, letters, chosen>>

-----------------------------------------------------------------------------
(* What the workers do with an answer.                                      *)

workerKeeps == <<inbox, reply_mode, open_tab, search_active, presses, letters, refusals, chosen>>

\* A load that fails leaves an empty list.
LoadConversations(j) ==
    /\ work[j].job \in Lists /\ work[j].asks = "conversations" /\ work[j].heard
    /\ listing' = [kind |-> "threads", rows |-> work[j].rows] /\ indexed' = work[j].rows
    /\ work' = Begun(work, j, NoWork)
    /\ UNCHANGED <<workerKeeps, deleteVars, front, compose_active, switch>>

ExecuteDelete(j) ==
    /\ work[j].job = "delete"
    /\ \/ \* It starts.
          /\ work[j].asks = "nothing" /\ delete_pending' = Nobody /\ confirm' = Nobody
          /\ work' = Begun(work, j, [work[j] EXCEPT !.asks = "delete"])
       \/ /\ work[j].asks = "delete" /\ work[j].heard
          /\ work' = Begun(work, j, IF work[j].ok THEN Asking("delete", "conversations") ELSE NoWork)
          /\ UNCHANGED <<delete_pending, confirm>>
    /\ UNCHANGED <<workerKeeps, listingVars, front, compose_active, delete_timer, unconfirmed>>

\* The list is loaded two seconds later, if there is a propagation node.
ExecuteSync(j) ==
    /\ work[j].asks = "sync" /\ work[j].heard
    /\ \E synced \in BOOLEAN :
          work' = Begun(work, j, IF work[j].ok /\ synced THEN Asking("sync", "conversations") ELSE NoWork)
    /\ UNCHANGED <<workerKeeps, deleteVars, listingVars, front, compose_active>>

\* Two results of one peer are two rows with one key: the program ends.
ExecuteSearch(j) ==
    /\ work[j].asks = "hits" /\ work[j].heard
    /\ \/ /\ listing' = IF work[j].ok THEN [kind |-> "hits", rows |-> work[j].rows] ELSE listing
          /\ work' = Begun(work, j, NoWork) /\ UNCHANGED <<open_tab, front>>
       \/ /\ work[j].rows # {} /\ open_tab' = "ended" /\ front' = FALSE
          /\ work' = [k \in Job |-> NoWork] /\ UNCHANGED listing
    /\ UNCHANGED <<inbox, reply_mode, search_active, presses, letters, refusals, chosen, deleteVars,
                   compose_active, indexed, switch>>

\* A switch that changes says so, and then the mode is set, whoever changed it.
LoadAutoReply(j) ==
    /\ work[j].asks = "mode" /\ work[j].heard
    /\ LET on == IF work[j].ok THEN work[j].mode # "disabled" ELSE switch
       IN /\ switch' = on
          /\ work' = Begun(work, j, IF on = switch THEN NoWork
                                    ELSE [Asking("toggle", "set") EXCEPT !.mode = IF on THEN "template" ELSE "disabled"])
    /\ UNCHANGED <<workerKeeps, deleteVars, listing, indexed, front, compose_active>>

ToggleAutoReply(j) ==
    /\ work[j].asks = "set" /\ work[j].heard /\ work' = Begun(work, j, NoWork)
    /\ UNCHANGED <<workerKeeps, deleteVars, listingVars, front, compose_active>>

\* The conversation comes on top, wherever the user is by now.
ResolveAndOpen(j) ==
    /\ work[j].asks = "name" /\ work[j].heard
    /\ \E found \in BOOLEAN :
          IF work[j].ok /\ found
          THEN /\ front' = FALSE /\ compose_active' = FALSE
               /\ work' = Begun(IF open_tab = "mail" THEN Deactivated(work) ELSE work, j, NoWork)
               /\ delete_timer' = (delete_timer /\ open_tab # "mail")
          ELSE work' = Begun(work, j, NoWork) /\ UNCHANGED <<front, compose_active, delete_timer>>
    /\ UNCHANGED <<workerKeeps, listingVars, delete_pending, confirm, unconfirmed>>

-----------------------------------------------------------------------------
(* The user.                                                               *)

\* Keys go to the screen whichever tab is open.
Pressed == front /\ presses < MaxPresses /\ presses' = presses + 1 /\ FreeJob(work) # {}

\* The selected row is one of the list; only one that is indexed has a thread.
ActionDelete(p) ==
    /\ Pressed /\ p \in listing.rows /\ p \in indexed
    /\ IF delete_pending = p
       THEN /\ delete_timer' = FALSE
            /\ work' = Added(work, [Asking("delete", "nothing") EXCEPT !.peer = p])
            /\ unconfirmed' = IF confirm = p THEN unconfirmed ELSE unconfirmed \cup {p}
            /\ UNCHANGED <<delete_pending, confirm>>
       ELSE /\ delete_pending' = p /\ confirm' = p /\ delete_timer' = TRUE
            /\ UNCHANGED <<work, unconfirmed>>
    /\ UNCHANGED <<userKeeps, listingVars, search_active, compose_active, open_tab, front>>

\* Mutant of CancelDeletePending: the key stays armed.
CancelDeletePendingNot ==
    /\ delete_timer /\ delete_timer' = FALSE /\ confirm' = Nobody
    /\ UNCHANGED <<userKeeps, listingVars, search_active, compose_active, open_tab, front, work, presses, unconfirmed,
                   delete_pending>>

\* Three seconds after the first "d", unless the tab was left.
CancelDeletePending ==
    /\ delete_timer /\ delete_timer' = FALSE /\ delete_pending' = Nobody /\ confirm' = Nobody
    /\ UNCHANGED <<userKeeps, listingVars, search_active, compose_active, open_tab, front, work, presses, unconfirmed>>

OpenSearch ==
    /\ Pressed /\ ~search_active /\ search_active' = TRUE
    /\ UNCHANGED <<userKeeps, deleteVars, listingVars, compose_active, open_tab, front, work>>

\* Mutant of CloseSearch: the bar goes and the results stay.
CloseSearchOnly ==
    /\ Pressed /\ search_active /\ search_active' = FALSE
    /\ UNCHANGED <<userKeeps, deleteVars, listingVars, compose_active, open_tab, front, work>>

\* By its key, or by escape once the compose bar is closed.
CloseSearch ==
    /\ Pressed /\ search_active /\ search_active' = FALSE
    /\ work' = Added(work, Asking("reload", "conversations"))
    /\ UNCHANGED <<userKeeps, deleteVars, listingVars, compose_active, open_tab, front>>

OpenCompose ==
    /\ Pressed /\ compose_active' = ~compose_active
    /\ UNCHANGED <<userKeeps, deleteVars, listingVars, search_active, open_tab, front, work>>

OnInputSubmitted ==
    /\ Pressed
    /\ \/ search_active /\ work' = Added(work, Asking("search", "hits"))
       \/ compose_active /\ work' = Added(work, Asking("open", "name"))
    /\ UNCHANGED <<userKeeps, deleteVars, listingVars, search_active, compose_active, open_tab, front>>

ActionSync ==
    /\ Pressed /\ work' = Added(work, Asking("sync", "sync"))
    /\ UNCHANGED <<userKeeps, deleteVars, listingVars, search_active, compose_active, open_tab, front>>

\* What is indexed is shown again, in place of the results of a search.
ActionCycleSort ==
    /\ Pressed /\ listing' = [kind |-> "threads", rows |-> indexed]
    /\ UNCHANGED <<userKeeps, deleteVars, indexed, switch, search_active, compose_active, open_tab, front, work>>

OnSwitchChanged ==
    /\ Pressed /\ open_tab = "mail" /\ switch' = ~switch
    /\ LET next == IF switch THEN "disabled" ELSE "template"
       IN /\ chosen' = next
          /\ work' = Added(work, [Asking("toggle", "set") EXCEPT !.mode = next])
    /\ UNCHANGED <<inbox, reply_mode, letters, refusals, deleteVars, listing, indexed, search_active, compose_active, open_tab, front>>

MailStep ==
    \/ OnMount \/ OnScreenResume \/ OnScreenSuspend \/ CancelDeletePending
    \/ \E t \in {"mail", "contacts"} : OnTabActivated(t)
    \/ \E p \in Correspondent : MessageArrives(p) \/ ActionDelete(p)
    \/ OpenSearch \/ CloseSearch \/ OpenCompose \/ OnInputSubmitted \/ ActionSync \/ ActionCycleSort
    \/ OnSwitchChanged
    \/ \E j \in Job : \/ DaemonHandles(j) \/ LoadConversations(j) \/ ExecuteDelete(j) \/ ExecuteSync(j)
                      \/ ExecuteSearch(j) \/ LoadAutoReply(j) \/ ToggleAutoReply(j) \/ ResolveAndOpen(j)

\* What has overlapped, crossed or failed once is not told apart any more.
MailNext ==
    /\ open_tab # "ended" /\ MailStep
    /\ overlapped' = (overlapped \/ Cardinality(Working(work', Lists)) > 1)
    /\ unsure' = (unsure \/ Cardinality(Working(work', Replies)) > 1
                  \/ \E j \in Working(work', Replies) : work'[j].heard /\ ~work'[j].ok)

MailSpec == MailInit /\ [][MailNext]_mailVars

-----------------------------------------------------------------------------
(* Properties.                                                             *)

\* A conversation is deleted only when "d" was pressed twice on it, the second time
\* before the first was taken back.
DeletionIsConfirmed == unconfirmed = {}

\* When nothing is under way and no two workers ever overlapped, the list holds no
\* conversation that was deleted, and results only while the search is open.
ListIsTrue ==
    front /\ open_tab = "mail" /\ MailQuiet /\ ~overlapped =>
        /\ listing.rows \subseteq inbox
        /\ listing.kind = "hits" => search_active

\* As long as requests about replies neither failed nor crossed, the switch is on exactly
\* if the daemon replies, and it replies as the user chose; but a chatbot becomes a
\* template when the screen shows it.
SwitchIsTrue ==
    open_tab = "mail" /\ front /\ ~unsure /\ Working(work, Replies) = {} =>
        /\ switch = (reply_mode # "disabled")
        /\ reply_mode = chosen \/ (chosen = "chatbot" /\ reply_mode = "template")
================================================================================
