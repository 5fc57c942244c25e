------------------------------ MODULE ChatWidget ------------------------------
(***************************************************************************)
(* The messages of the chat widget (tui/widgets/chat_widget.py): one       *)
(* conversation of the daemon's database, shown as bubbles.  Refreshes run *)
(* as workers that are not exclusive, so several may be under way; a step  *)
(* is what runs between two awaits.                                        *)
(***************************************************************************)
EXTENDS Naturals, SequencesExt

CONSTANTS
    Worker,        \* bound: refreshes at once
    MaxId,         \* bound: messages stored
    MaxEvents      \* bound: what the user does, and fetches that fail

ASSUME ChatAssumption ==
    MaxId \in Nat \ {0} /\ MaxEvents \in Nat

VARIABLES
    stored,       \* the daemon's messages, in their order
    lastId,       \* the last id given
    failures,     \* fetches that failed
    shown,        \* the bubbles; an optimistic one has id 0
    message_ids,  \* _message_ids
    pending,      \* _pending_messages holds something
    searched,     \* search results have taken the bubbles' place
    refresh,      \* _refresh_messages, by worker
    mounted,      \* the widget is
    initialize,   \* where _initialize stands
    subscribed,   \* _event_callback is registered with the bridge
    poll,         \* _poll_timer runs
    acts,         \* counts towards MaxEvents
    send,         \* the submission: where _send_message stands
    search,       \* _execute_search is under way
    delete,       \* _execute_delete: where it stands, and the id
    retry         \* the retry under way

daemonVars == <<stored, lastId, failures>>
viewVars == <<shown, message_ids, pending, searched>>
lifeVars == <<mounted, initialize, subscribed, poll>>
userVars == <<acts, send, search, delete, retry>>
chatVars == <<daemonVars, viewVars, refresh, lifeVars, userVars>>

Id == 1..MaxId
\* ours: it comes from the submission.
Bubble == [id : 0..MaxId, ours : BOOLEAN, failed : BOOLEAN]
Idle == [at |-> "idle", list |-> <<>>, rest |-> <<>>]
NoDelete == <<"idle">>
NoRetry == <<"idle">>

Ids(s) == [i \in DOMAIN s |-> s[i].id]
IndexOf(s, e) == SelectInSeq(s, LAMBDA x : x = e)
\* What s holds at the places K, in its order.
PartOf(s, K) ==
    [k \in 1..Cardinality(K) |-> s[CHOOSE i \in K : Cardinality({j \in K : j <= i}) = k]]
IsShown(id) == \E b \in ToSet(shown) : b.id = id
AllIdle == \A w \in Worker : refresh[w].at = "idle"

\* The daemon's messages stay in their order.
ChatTypeOK ==
    /\ ToSet(stored) \subseteq Bubble /\ ToSet(shown) \subseteq Bubble
    /\ \A i, j \in DOMAIN stored : i < j => stored[i].id < stored[j].id
    /\ lastId \in 0..MaxId /\ failures \in 0..MaxEvents
    /\ ToSet(message_ids) \subseteq Id /\ pending \in BOOLEAN /\ searched \in BOOLEAN
    /\ \A w \in Worker : refresh[w].at \in {"idle", "fetch", "answered", "rebuild", "mount"}
    /\ mounted \in BOOLEAN /\ subscribed \in BOOLEAN /\ poll \in BOOLEAN
    /\ initialize \in {"none", "refresh", "subscribe", "done"}
    /\ acts \in 0..MaxEvents /\ search \in BOOLEAN
    /\ send \in {"none", "sending", "stored", "sleep", "done"}
    /\ delete = NoDelete \/ delete \in {"asked", "deleted", "removed"} \X (0..MaxId)
    /\ retry = NoRetry \/ retry = <<"look">> \/ retry \in {"asked"} \X Id

\* A conversation of at most one message, which may have failed.
ChatInit ==
    /\ \E f \in BOOLEAN : stored \in {<<>>, <<[id |-> 1, ours |-> FALSE, failed |-> f]>>}
    /\ lastId = Len(stored) /\ failures = 0
    /\ shown = <<>> /\ message_ids = <<>> /\ pending = FALSE /\ searched = FALSE
    /\ refresh = [w \in Worker |-> Idle]
    /\ mounted = FALSE /\ initialize = "none" /\ subscribed = FALSE /\ poll = FALSE
    /\ acts = 0 /\ send = "none" /\ search = FALSE
    /\ delete = NoDelete /\ retry = NoRetry

-----------------------------------------------------------------------------
(* The daemon: the mesh changes the conversation.                           *)

Arrives ==
    /\ mounted /\ lastId < MaxId
    /\ lastId' = lastId + 1
    /\ stored' = Append(stored, [id |-> lastId + 1, ours |-> FALSE, failed |-> FALSE])
    /\ UNCHANGED <<failures, viewVars, refresh, lifeVars, userVars>>

\* A message of ours is given up.
DeliveryFails(i) ==
    /\ mounted /\ stored[i].ours
    /\ stored' = [stored EXCEPT ![i].failed = TRUE]
    /\ UNCHANGED <<lastId, failures, viewVars, refresh, lifeVars, userVars>>

-----------------------------------------------------------------------------
(* _refresh_messages.                                                       *)

Free(w) == mounted /\ refresh[w].at = "idle"
Starts(w) == refresh' = [refresh EXCEPT ![w] = [Idle EXCEPT !.at = "fetch"]]

\* The daemon reads the conversation; what it read is handled later.
Answer(w) ==
    /\ refresh[w].at = "fetch"
    /\ refresh' = [refresh EXCEPT ![w] = [Idle EXCEPT !.at = "answered", !.list = stored]]
    /\ UNCHANGED <<daemonVars, viewVars, lifeVars, userVars>>

\* The fetch fails: no messages.
FetchFails(w) ==
    /\ refresh[w].at = "fetch" /\ failures + acts < MaxEvents
    /\ failures' = failures + 1
    /\ refresh' = [refresh EXCEPT ![w] = [Idle EXCEPT !.at = "answered"]]
    /\ UNCHANGED <<stored, lastId, viewVars, lifeVars, userVars>>

\* Nothing is there but what is being sent.
Nothing(list) == list = <<>> /\ pending

\* The same messages: their statuses.
ShowStatuses(w) ==
    LET list == refresh[w].list IN
    /\ refresh[w].at = "answered"
    /\ Ids(list) = message_ids \/ Nothing(list)
    /\ shown' = [k \in DOMAIN shown |->
                    IF shown[k].id \in ToSet(Ids(list))
                    THEN list[IndexOf(Ids(list), shown[k].id)] ELSE shown[k]]
    /\ refresh' = [refresh EXCEPT ![w] = Idle]
    /\ UNCHANGED <<daemonVars, message_ids, pending, searched, lifeVars, userVars>>

\* The first load: the container is cleared, and then everything mounted.
ShowFirst(w) ==
    /\ refresh[w].at = "answered"
    /\ message_ids = <<>> /\ refresh[w].list # <<>>
    /\ shown' = <<>>
    /\ searched' = FALSE
    /\ refresh' = [refresh EXCEPT ![w].at = "rebuild"]
    /\ UNCHANGED <<daemonVars, message_ids, pending, lifeVars, userVars>>

Rebuild(w) ==
    /\ refresh[w].at = "rebuild"
    /\ message_ids' = Ids(refresh[w].list)
    /\ pending' = FALSE
    /\ refresh' = [refresh EXCEPT ![w] = [at |-> "mount", list |-> <<>>, rest |-> @.list]]
    /\ UNCHANGED <<daemonVars, shown, searched, lifeVars, userVars>>

\* A message is gone: it starts again with nothing.
ShowDeleted(w) ==
    LET list == refresh[w].list IN
    /\ refresh[w].at = "answered" /\ ~Nothing(list)
    /\ ~(ToSet(message_ids) \subseteq ToSet(Ids(list)))
    /\ message_ids' = <<>>
    /\ Starts(w)
    /\ UNCHANGED <<daemonVars, shown, pending, searched, lifeVars, userVars>>

\* Mutant of ShowNew: the ids are stored before the new ones are picked.
ShowNewLate(w) ==
    LET list == refresh[w].list IN
    /\ refresh[w].at = "answered"
    /\ message_ids # <<>> /\ Ids(list) # message_ids
    /\ ToSet(message_ids) \subseteq ToSet(Ids(list))
    /\ shown' = PartOf(shown, {k \in DOMAIN shown : shown[k].id # 0})
    /\ message_ids' = Ids(list)
    /\ pending' = FALSE
    /\ refresh' = [refresh EXCEPT ![w] = Idle]
    /\ UNCHANGED <<daemonVars, searched, lifeVars, userVars>>

\* New ones: the optimistic bubbles go, the new messages are to be mounted.
ShowNew(w) ==
    LET list == refresh[w].list
        old == ToSet(message_ids)
    IN
    /\ refresh[w].at = "answered"
    /\ message_ids # <<>> /\ Ids(list) # message_ids
    /\ old \subseteq ToSet(Ids(list))
    /\ shown' = PartOf(shown, {k \in DOMAIN shown : shown[k].id # 0})
    /\ refresh' = [refresh EXCEPT ![w].at = "mount",
                                  ![w].rest = PartOf(list, {k \in DOMAIN list : list[k].id \notin old})]
    /\ UNCHANGED <<daemonVars, message_ids, pending, searched, lifeVars, userVars>>

\* Each mount is awaited.
MountBubble(w) ==
    /\ refresh[w].at = "mount" /\ refresh[w].rest # <<>>
    /\ shown' = Append(shown, Head(refresh[w].rest))
    /\ refresh' = [refresh EXCEPT ![w].rest = Tail(@)]
    /\ UNCHANGED <<daemonVars, message_ids, pending, searched, lifeVars, userVars>>

\* Mutant of Mounted: the ids of the bubbles, with those of optimistic ones.
MountedShown(w) ==
    /\ refresh[w].at = "mount" /\ refresh[w].rest = <<>>
    /\ message_ids' = Ids(shown)
    /\ pending' = (refresh[w].list = <<>> /\ pending)
    /\ refresh' = [refresh EXCEPT ![w] = Idle]
    /\ UNCHANGED <<daemonVars, shown, searched, lifeVars, userVars>>

\* The ids are stored last, unless the first load has stored them.
Mounted(w) ==
    /\ refresh[w].at = "mount" /\ refresh[w].rest = <<>>
    /\ message_ids' = IF refresh[w].list = <<>> THEN message_ids ELSE Ids(refresh[w].list)
    /\ pending' = (refresh[w].list = <<>> /\ pending)
    /\ refresh' = [refresh EXCEPT ![w] = Idle]
    /\ UNCHANGED <<daemonVars, shown, searched, lifeVars, userVars>>

RefreshStep(w) ==
    \/ Answer(w) \/ ShowStatuses(w) \/ ShowFirst(w) \/ Rebuild(w)
    \/ ShowDeleted(w) \/ ShowNew(w) \/ MountBubble(w) \/ Mounted(w)

-----------------------------------------------------------------------------
(* The life of the widget.                                                  *)

ChatMount ==
    /\ ~mounted /\ initialize = "none"
    /\ mounted' = TRUE
    /\ initialize' = "refresh"
    /\ UNCHANGED <<daemonVars, viewVars, refresh, subscribed, poll, userVars>>

\* _initialize: the first refresh; then the subscription and the poll timer.
InitialRefresh(w) ==
    /\ Free(w) /\ initialize = "refresh"
    /\ initialize' = "subscribe"
    /\ Starts(w)
    /\ UNCHANGED <<daemonVars, viewVars, mounted, subscribed, poll, userVars>>

Subscribe(works) ==
    /\ mounted /\ initialize = "subscribe" /\ AllIdle
    /\ initialize' = "done"
    /\ subscribed' = works
    /\ poll' = TRUE
    /\ UNCHANGED <<daemonVars, viewVars, refresh, mounted, userVars>>

\* Mutant of PollFallback: it relies on the subscription.
PollUnlessSubscribed(w) ==
    /\ Free(w) /\ poll /\ ~subscribed
    /\ Starts(w)
    /\ UNCHANGED <<daemonVars, viewVars, lifeVars, userVars>>

\* The poll interval is over without an event.
PollFallback(w) ==
    /\ Free(w) /\ poll
    /\ Starts(w)
    /\ UNCHANGED <<daemonVars, viewVars, lifeVars, userVars>>

\* An event tells of a new message, at any time, or is lost.
OnMessageEvent(w) ==
    /\ Free(w) /\ subscribed
    /\ Starts(w)
    /\ UNCHANGED <<daemonVars, viewVars, lifeVars, userVars>>

\* A delivery_status event: the first bubble with the id.
UpdateBubbleStatus(m) ==
    /\ mounted /\ subscribed /\ IsShown(m.id)
    /\ shown' = [shown EXCEPT ![IndexOf(Ids(shown), m.id)].failed = m.failed]
    /\ UNCHANGED <<daemonVars, message_ids, pending, searched, refresh, lifeVars, userVars>>

\* Mutant of Unmount: the callback stays with the bridge.
UnmountKeepsCallback ==
    /\ mounted
    /\ mounted' = FALSE
    /\ poll' = FALSE
    /\ refresh' = [w \in Worker |-> Idle]
    /\ search' = FALSE /\ delete' = NoDelete /\ retry' = NoRetry
    /\ UNCHANGED <<daemonVars, viewVars, initialize, subscribed, acts, send>>

\* on_unmount releases timers and callbacks; Textual cancels the workers.
Unmount ==
    /\ mounted
    /\ mounted' = FALSE
    /\ subscribed' = FALSE
    /\ poll' = FALSE
    /\ refresh' = [w \in Worker |-> Idle]
    /\ search' = FALSE /\ delete' = NoDelete /\ retry' = NoRetry
    /\ UNCHANGED <<daemonVars, viewVars, initialize, acts, send>>

-----------------------------------------------------------------------------
(* What the user does.                                                      *)

Acts == mounted /\ failures + acts < MaxEvents /\ acts' = acts + 1

\* Enter: the bubble is shown at once.
Submit ==
    /\ Acts /\ send = "none"
    /\ pending' = TRUE
    /\ send' = "sending"
    /\ shown' = Append(shown, [id |-> 0, ours |-> TRUE, failed |-> FALSE])
    /\ UNCHANGED <<daemonVars, message_ids, searched, refresh, lifeVars, search, delete, retry>>

\* The daemon stores the message before it answers.
SendStores ==
    /\ mounted /\ send = "sending" /\ lastId < MaxId
    /\ send' = "stored"
    /\ lastId' = lastId + 1
    /\ stored' = Append(stored, [id |-> lastId + 1, ours |-> TRUE, failed |-> FALSE])
    /\ UNCHANGED <<failures, viewVars, refresh, lifeVars, acts, search, delete, retry>>

\* _update_optimistic_status: the last bubble that says so, with an id or not.
LastOfOurs ==
    {k \in DOMAIN shown : shown[k].ours /\ \A j \in DOMAIN shown : shown[j].ours => j <= k}

\* It is answered, or fails; a timeout says nothing about the daemon.
SendReturns(failed) ==
    /\ mounted
    /\ send = "stored" \/ (send = "sending" /\ failed)
    /\ shown' = [k \in DOMAIN shown |->
                    IF k \in LastOfOurs THEN [shown[k] EXCEPT !.failed = failed] ELSE shown[k]]
    /\ send' = "sleep"
    /\ UNCHANGED <<daemonVars, message_ids, pending, searched, refresh, lifeVars, acts, search,
                   delete, retry>>

SendRefreshes(w) ==
    /\ Free(w) /\ send = "sleep"
    /\ send' = "done"
    /\ Starts(w)
    /\ UNCHANGED <<daemonVars, viewVars, lifeVars, acts, search, delete, retry>>

SearchStarts ==
    /\ Acts /\ ~search
    /\ search' = TRUE
    /\ UNCHANGED <<daemonVars, viewVars, refresh, lifeVars, send, delete, retry>>

\* Results in the place of the messages, or an error.
SearchAnswers ==
    /\ mounted /\ search
    /\ search' = FALSE
    /\ \/ \E found \in SUBSET ToSet(stored) :
             shown' = PartOf(stored, {k \in DOMAIN stored : stored[k] \in found}) /\ searched' = TRUE
       \/ UNCHANGED <<shown, searched>>
    /\ UNCHANGED <<daemonVars, message_ids, pending, refresh, lifeVars, acts, send, delete, retry>>

CloseSearch(w) ==
    /\ Acts /\ Free(w)
    /\ Starts(w)
    /\ UNCHANGED <<daemonVars, viewVars, lifeVars, send, search, delete, retry>>

\* The second d on the selected bubble.
PressDelete(id) ==
    /\ Acts /\ IsShown(id) /\ delete = NoDelete
    /\ delete' = <<"asked", id>>
    /\ UNCHANGED <<daemonVars, viewVars, refresh, lifeVars, send, search, retry>>

\* The daemon deletes it, or refuses.
DeleteAnswered ==
    /\ mounted /\ delete[1] = "asked"
    /\ \/ /\ delete[2] \in ToSet(Ids(stored))
          /\ stored' = PartOf(stored, {k \in DOMAIN stored : stored[k].id # delete[2]})
          /\ delete' = <<"deleted", delete[2]>>
       \/ UNCHANGED stored /\ delete' = NoDelete
    /\ UNCHANGED <<lastId, failures, viewVars, refresh, lifeVars, acts, send, search, retry>>

\* The first bubble with that id goes, which is awaited, and then the id.
DeleteBubble ==
    /\ mounted /\ delete[1] = "deleted"
    /\ shown' = IF IsShown(delete[2]) THEN RemoveAt(shown, IndexOf(Ids(shown), delete[2]))
                ELSE shown
    /\ delete' = <<"removed", delete[2]>>
    /\ UNCHANGED <<daemonVars, message_ids, pending, searched, refresh, lifeVars, acts, send,
                   search, retry>>

DeleteId ==
    /\ mounted /\ delete[1] = "removed"
    /\ message_ids' = RemoveFirst(message_ids, delete[2])
    /\ delete' = NoDelete
    /\ UNCHANGED <<daemonVars, shown, pending, searched, refresh, lifeVars, acts, send, search,
                   retry>>

\* The status of every bubble with the id (each id is looked up once).
Marked(id, failed) ==
    [k \in DOMAIN shown |->
        IF k = IndexOf(Ids(shown), id) THEN [shown[k] EXCEPT !.failed = failed] ELSE shown[k]]

\* R, ctrl+r: a failed message is sent again.
Retry(b) ==
    /\ Acts /\ retry = NoRetry
    /\ b.failed /\ b.id # 0
    /\ retry' = <<"asked", b.id>>
    /\ shown' = Marked(b.id, FALSE)
    /\ UNCHANGED <<daemonVars, message_ids, pending, searched, refresh, lifeVars, send, search, delete>>

\* One without an id is looked for in a refreshed view.
RetryOptimistic(w) ==
    /\ Acts /\ Free(w) /\ retry = NoRetry
    /\ \E b \in ToSet(shown) : b.failed /\ b.id = 0
    /\ retry' = <<"look">>
    /\ Starts(w)
    /\ UNCHANGED <<daemonVars, viewVars, lifeVars, send, search, delete>>

RetryLooks ==
    LET found == {b \in ToSet(shown) : b.id # 0 /\ b.failed /\ b.ours} IN
    /\ mounted /\ retry = <<"look">> /\ AllIdle
    /\ IF found = {} THEN retry' = NoRetry /\ UNCHANGED shown
       ELSE \E b \in found : retry' = <<"asked", b.id>> /\ shown' = Marked(b.id, FALSE)
    /\ UNCHANGED <<daemonVars, message_ids, pending, searched, refresh, lifeVars, acts, send,
                   search, delete>>

\* It is queued and the view refreshed, or the bubble has failed again.
RetryAnswered(w) ==
    /\ retry # NoRetry /\ retry[1] = "asked"
    /\ Free(w)
    /\ retry' = NoRetry
    /\ \/ /\ stored' = [k \in DOMAIN stored |->
                           [stored[k] EXCEPT !.failed = @ /\ stored[k].id # retry[2]]]
          /\ Starts(w)
          /\ UNCHANGED shown
       \/ /\ shown' = Marked(retry[2], TRUE)
          /\ UNCHANGED <<stored, refresh>>
    /\ UNCHANGED <<lastId, failures, message_ids, pending, searched, lifeVars, acts, send,
                   search, delete>>

-----------------------------------------------------------------------------
WorkerStep(w) ==
    \/ RefreshStep(w) \/ FetchFails(w) \/ InitialRefresh(w) \/ PollFallback(w)
    \/ OnMessageEvent(w) \/ SendRefreshes(w) \/ CloseSearch(w)
    \/ RetryOptimistic(w) \/ RetryAnswered(w)

ChatNext ==
    \/ Arrives \/ \E i \in DOMAIN stored : DeliveryFails(i)
    \/ \E w \in Worker : WorkerStep(w)
    \/ \E works \in BOOLEAN : Subscribe(works)
    \/ \E m \in ToSet(stored) : UpdateBubbleStatus(m)
    \/ Submit \/ SendStores \/ \E failed \in BOOLEAN : SendReturns(failed)
    \/ SearchStarts \/ SearchAnswers
    \/ \E id \in 0..MaxId : PressDelete(id)
    \/ DeleteAnswered \/ DeleteBubble \/ DeleteId
    \/ \E b \in ToSet(shown) : Retry(b)
    \/ RetryLooks \/ ChatMount \/ Unmount

\* Workers go on, the daemon answers, timers fire.
ChatFairness ==
    /\ \A w \in Worker :
          /\ WF_chatVars(RefreshStep(w))
          /\ WF_chatVars(InitialRefresh(w) \/ PollFallback(w))
    /\ WF_chatVars(\E works \in BOOLEAN : Subscribe(works))

ChatSpec == ChatInit /\ [][ChatNext]_chatVars /\ ChatFairness

-----------------------------------------------------------------------------
(* Properties.                                                             *)

\* When the widget takes the daemon's messages for the ones it shows, so that
\* no refresh would change anything, each has its bubble, unless search results
\* replace them: through every overlap of two refreshes with sends, deletions, retries.
\* (Not of three: one that has mounted its messages and not yet stored their ids can have
\* them cleared by one that answers late, after a third has forgotten the ids.)
NothingIsMissing ==
    mounted /\ ~searched /\ AllIdle /\ delete = NoDelete /\ message_ids = Ids(stored) =>
        \A id \in ToSet(message_ids) : IsShown(id)

\* Nothing of the widget runs when it is gone.
ChatReleased == ~mounted => ~poll /\ ~subscribed

\* A message is shown at last though its event was lost, as long as the widget
\* is there and no search took the view.
ChatCatchesUp ==
    \A id \in Id :
        id \in ToSet(Ids(stored)) ~>
            IsShown(id) \/ id \notin ToSet(Ids(stored)) \/ searched \/ ~mounted
=============================================================================
