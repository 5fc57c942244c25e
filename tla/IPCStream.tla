------------------------------- MODULE IPCStream -------------------------------
(***************************************************************************)
(* One connection of a ControlClient (ipc/client.py, ipc/protocol.py): the *)
(* frames the daemon writes, the loop that reads them, the requests that   *)
(* wait for an answer, and the events, which go to callbacks and to one    *)
(* queue that all iterators of the client share.                           *)
(***************************************************************************)
EXTENDS Naturals, Sequences

CONSTANTS
    Request,    \* calls of _request
    Reader,     \* iterators of events
    MaxEvents,  \* bound: events of the daemon
    MaxFaults   \* bound: frames that cannot be decoded, or are too large

ASSUME StreamAssumption == {MaxEvents, MaxFaults} \subseteq Nat

EventType == {"message", "activity"}
Reply == {"result", "error"}

VARIABLES
    open,      \* _connected
    loop,      \* the receive loop: "reads", "cancelled" or "over"
    daemonOn,  \* the daemon holds the connection
    wire,      \* frames on their way
    astray,    \* what is read is not the start of a frame any more
    fate,     \* a request: "new", "waits", "answered", or its outcome
    pend,      \* keys of _pending
    said,      \* what the daemon has answered, "none" before
    filled,      \* what is in the future of a request
    events,    \* types of the events sent, in their order
    faults,
    event_queue,     \* _event_queue
    callback,  \* a handler of message events is registered
    heard,     \* what it was called with
    readers,   \* of each iterator: the types it asks for, {} before it starts
    taken,     \* of each iterator: what it has been given
    passed,    \* events an iterator took from the queue that it did not ask for
    lost       \* events that were not read, or came when no one reads

requestVars == <<fate, pend, said, filled>>
feedVars == <<event_queue, callback, heard, readers, taken, passed, lost>>
streamVars == <<open, loop, daemonOn, wire, astray, events, faults, requestVars, feedVars>>

WireFrame == [kind : Reply \cup {"bad", "large"}, of : Request] \cup [kind : {"event"}, of : 1..MaxEvents]
Endings == Reply \cup {"timeout", "cancelled", "refused"}

StreamTypeOK ==
    /\ {open, daemonOn, astray, callback} \subseteq BOOLEAN
    /\ loop \in {"reads", "cancelled", "over"} /\ wire \in Seq(WireFrame)
    /\ fate \in [Request -> {"new", "waits", "answered"} \cup Endings] /\ pend \subseteq Request
    /\ {said, filled} \subseteq [Request -> Reply \cup {"none"}]
    /\ events \in Seq(EventType) /\ Len(events) <= MaxEvents /\ faults \in 0..MaxFaults
    /\ event_queue \in Seq(1..MaxEvents) /\ heard \in Seq(1..MaxEvents)
    /\ readers \in [Reader -> SUBSET EventType] /\ taken \in [Reader -> Seq(1..MaxEvents)]
    /\ passed \cup lost \subseteq 1..MaxEvents

StreamInit ==
    /\ open = TRUE /\ loop = "reads" /\ daemonOn = TRUE /\ wire = <<>> /\ astray = FALSE
    /\ fate = [r \in Request |-> "new"] /\ pend = {}
    /\ said = [r \in Request |-> "none"] /\ filled = [r \in Request |-> "none"]
    /\ events = <<>> /\ faults = 0
    /\ event_queue = <<>> /\ callback = FALSE /\ heard = <<>>
    /\ readers = [i \in Reader |-> {}] /\ taken = [i \in Reader |-> <<>>]
    /\ passed = {} /\ lost = {}

-----------------------------------------------------------------------------
(* Requests.                                                                *)

Turns(r, w) == fate' = [fate EXCEPT ![r] = w]

\* A request that cannot be encoded or written takes its entry back.
AskDaemon(r) ==
    /\ fate[r] = "new"
    /\ \/ open /\ Turns(r, "waits") /\ pend' = pend \cup {r}
       \/ Turns(r, "refused") /\ UNCHANGED pend
    /\ UNCHANGED <<open, loop, daemonOn, wire, astray, events, faults, said, filled, feedVars>>

\* wait_for comes back.
AnswerSeen(r) ==
    /\ fate[r] = "answered" /\ Turns(r, filled[r])
    /\ UNCHANGED <<open, loop, daemonOn, wire, astray, events, faults, pend, said, filled, feedVars>>

\* Mutant of RequestTimesOut: the entry stays.
RequestTimesOutKeeps(r) ==
    /\ fate[r] \in {"waits", "answered"} /\ Turns(r, "timeout")
    /\ UNCHANGED <<open, loop, daemonOn, wire, astray, events, faults, pend, said, filled, feedVars>>

\* An answer that has been there for less than a turn of the loop may be lost.
RequestTimesOut(r) ==
    /\ fate[r] \in {"waits", "answered"} /\ Turns(r, "timeout")
    /\ pend' = pend \ {r}
    /\ UNCHANGED <<open, loop, daemonOn, wire, astray, events, faults, said, filled, feedVars>>

\* Its task is cancelled: the entry remains until the answer comes.
RequestCancelled(r) ==
    /\ fate[r] \in {"waits", "answered"} /\ Turns(r, "cancelled")
    /\ UNCHANGED <<open, loop, daemonOn, wire, astray, events, faults, pend, said, filled, feedVars>>

-----------------------------------------------------------------------------
(* The daemon.                                                              *)

Writes(kind, x) == daemonOn /\ wire' = Append(wire, [kind |-> kind, of |-> x])

DaemonAnswers(r) ==
    /\ r \in pend \cup {q \in Request : fate[q] = "timeout"} /\ said[r] = "none"
    /\ \E a \in Reply :
          /\ said' = [said EXCEPT ![r] = a]
          /\ \/ Writes(a, r) /\ UNCHANGED faults
             \/ /\ faults < MaxFaults /\ faults' = faults + 1
                /\ \E k \in {"bad", "large"} : Writes(k, r)
    /\ UNCHANGED <<open, loop, daemonOn, astray, events, fate, pend, filled, feedVars>>

DaemonPushes(t) ==
    /\ Len(events) < MaxEvents /\ events' = Append(events, t)
    /\ Writes("event", Len(events'))
    /\ UNCHANGED <<open, loop, daemonOn, astray, faults, requestVars, feedVars>>

DaemonDrops ==
    /\ daemonOn /\ daemonOn' = FALSE
    /\ UNCHANGED <<open, loop, wire, astray, events, faults, requestVars, feedVars>>

-----------------------------------------------------------------------------
(* The loop.                                                                *)

First == Head(wire)
ReadFrame == loop = "reads" /\ open /\ ~astray /\ wire # <<>> /\ wire' = Tail(wire)

\* An answer nobody waits for any more is dropped.
ReceiveAnswer ==
    /\ ReadFrame /\ First.kind \in Reply
    /\ LET r == First.of IN
       /\ pend' = pend \ {r}
       /\ IF r \in pend /\ fate[r] = "waits"
          THEN Turns(r, "answered") /\ filled' = [filled EXCEPT ![r] = First.kind]
          ELSE UNCHANGED <<fate, filled>>
    /\ UNCHANGED <<open, loop, daemonOn, astray, events, faults, said, feedVars>>

DispatchEvent ==
    /\ ReadFrame /\ First.kind = "event"
    /\ event_queue' = Append(event_queue, First.of)
    /\ heard' = IF callback /\ events[First.of] = "message" THEN Append(heard, First.of) ELSE heard
    /\ UNCHANGED <<open, loop, daemonOn, astray, events, faults, requestVars, callback, readers, taken,
                   passed, lost>>

\* An unknown type or a payload that is no map: the frame has been read.  Of one
\* that is too large only the length has.
FrameFails ==
    /\ ReadFrame /\ First.kind \in {"bad", "large"}
    /\ astray' = (First.kind = "large")
    /\ UNCHANGED <<open, loop, daemonOn, events, faults, requestVars, feedVars>>

\* Whatever comes is taken for a length and a frame of it.
ReadsAstray ==
    /\ loop = "reads" /\ open /\ astray /\ wire # <<>> /\ wire' = Tail(wire)
    /\ lost' = IF First.kind = "event" THEN lost \cup {First.of} ELSE lost
    /\ UNCHANGED <<open, loop, daemonOn, astray, events, faults, requestVars, event_queue, callback, heard,
                   readers, taken, passed>>

\* Nobody is told: each request waits for its timeout.
ConnectionClosed ==
    /\ loop = "reads" /\ ~daemonOn /\ wire = <<>>
    /\ loop' = "over" /\ open' = FALSE
    /\ UNCHANGED <<daemonOn, wire, astray, events, faults, requestVars, feedVars>>

\* disconnect(): up to the end of the loop, and then the rest.
DisconnectBegins ==
    /\ loop # "cancelled"
    /\ loop' = "cancelled" /\ open' = FALSE
    /\ UNCHANGED <<daemonOn, wire, astray, events, faults, requestVars, feedVars>>

DisconnectEnds ==
    /\ loop = "cancelled" /\ loop' = "over"
    /\ fate' = [r \in Request |-> IF r \in pend /\ fate[r] = "waits" THEN "cancelled" ELSE fate[r]]
    /\ pend' = {} /\ daemonOn' = FALSE /\ wire' = <<>>
    /\ lost' = lost \cup {wire[i].of : i \in {j \in 1..Len(wire) : wire[j].kind = "event"}}
    /\ UNCHANGED <<open, astray, events, faults, said, filled, event_queue, callback, heard, readers, taken, passed>>

-----------------------------------------------------------------------------
(* Who takes the events.                                                    *)

OnEvent ==
    /\ callback' = ~callback
    /\ UNCHANGED <<open, loop, daemonOn, wire, astray, events, faults, requestVars, event_queue, heard, readers,
                   taken, passed, lost>>

\* A type, or all.
IterEvents(i) ==
    /\ readers[i] = {}
    /\ \E ts \in {EventType, {"message"}, {"activity"}} : readers' = [readers EXCEPT ![i] = ts]
    /\ UNCHANGED <<open, loop, daemonOn, wire, astray, events, faults, requestVars, event_queue, callback, heard,
                   taken, passed, lost>>

\* Mutant of TakesEvent: what an iterator did ask for stays in the queue.
TakesEventPeeking(i) ==
    /\ open /\ readers[i] # {} /\ event_queue # <<>>
    /\ IF events[Head(event_queue)] \in readers[i]
       THEN taken' = [taken EXCEPT ![i] = Append(@, Head(event_queue))] /\ UNCHANGED <<passed, event_queue>>
       ELSE passed' = passed \cup {Head(event_queue)} /\ event_queue' = Tail(event_queue) /\ UNCHANGED taken
    /\ UNCHANGED <<open, loop, daemonOn, wire, astray, events, faults, requestVars, callback, heard,
                   readers, lost>>

\* The queue is one for all: what it does not ask for is lost to the others.
TakesEvent(i) ==
    /\ open /\ readers[i] # {} /\ event_queue # <<>> /\ event_queue' = Tail(event_queue)
    /\ IF events[Head(event_queue)] \in readers[i]
       THEN taken' = [taken EXCEPT ![i] = Append(@, Head(event_queue))] /\ UNCHANGED passed
       ELSE passed' = passed \cup {Head(event_queue)} /\ UNCHANGED taken
    /\ UNCHANGED <<open, loop, daemonOn, wire, astray, events, faults, requestVars, callback, heard,
                   readers, lost>>

StreamNext ==
    \/ \E r \in Request : AskDaemon(r) \/ AnswerSeen(r) \/ RequestTimesOut(r) \/ RequestCancelled(r)
                          \/ DaemonAnswers(r)
    \/ \E t \in EventType : DaemonPushes(t)
    \/ DaemonDrops \/ ReceiveAnswer \/ DispatchEvent \/ FrameFails \/ ReadsAstray
    \/ ConnectionClosed \/ DisconnectBegins \/ DisconnectEnds \/ OnEvent
    \/ \E i \in Reader : IterEvents(i) \/ TakesEvent(i)

StreamSpec == StreamInit /\ [][StreamNext]_streamVars

-----------------------------------------------------------------------------
(* Properties.                                                             *)

Values(s) == {s[i] : i \in 1..Len(s)}
Ordered(s) == \A i, j \in 1..Len(s) : i < j => s[i] < s[j]

\* A request reports what the daemon has answered to it and nothing else, however
\* late the answer is; and _pending holds none that is over, but for those whose
\* task was cancelled.
AnswerIsOwn ==
    \A r \in Request : /\ fate[r] \in Reply => fate[r] = said[r]
                       /\ r \in pend => fate[r] \in {"waits", "cancelled"}

\* No event is handed out twice or out of order, and none vanishes: it is in
\* the queue, with one iterator, was passed over by one that did not ask for it,
\* or was lost with the stream.
EventsOnce ==
    LET out == {x \in Reader \X (1..Len(events)) : x[2] \in Values(taken[x[1]])}
        coming == {wire[i].of : i \in {j \in 1..Len(wire) : wire[j].kind = "event"}}
    IN /\ \A i \in Reader : Ordered(taken[i])
       /\ Ordered(heard) /\ Ordered(event_queue)
       /\ \A x, y \in out : x[2] = y[2] => x = y
       /\ {x[2] : x \in out} \cap (Values(event_queue) \cup passed) = {}
       /\ 1..Len(events) = {x[2] : x \in out} \cup Values(event_queue) \cup passed \cup coming \cup lost

-----------------------------------------------------------------------------
(* The requests themselves (ipc/messages.py) and the methods of client and  *)
(* bridge that send them: which fields a request has, which go on the wire, *)
(* which are read back, and how long its sender waits.  Of a value it       *)
(* matters whether it is the default.                                       *)

CONSTANT Timeouts \* bound: time limits a caller asks for, in seconds

ASSUME MessageAssumption == Timeouts \subseteq Nat

With(kinds, fields) == [k \in kinds |-> fields]
f ++ g == [k \in DOMAIN f \cup DOMAIN g |-> IF k \in DOMAIN f THEN f[k] ELSE g[k]]

QueryRequests ==
    With({"ping", "query_identity", "query_status", "query_config"}, {})
    ++ With({"query_devices"}, {"styrene_only"})
    ++ With({"query_conversations"}, {"include_unread_count"})
    ++ With({"query_messages"}, {"peer_hash", "limit", "before_timestamp", "status_filter"})
    ++ With({"search_messages"}, {"query", "peer_hash", "limit"})

ChatRequests ==
    With({"cmd_send"}, {"destination", "message", "protocol", "retry", "timeout"})
    ++ With({"cmd_exec"}, {"destination", "command", "args", "timeout"})
    ++ With({"device_status"}, {"destination", "timeout"})
    ++ With({"send_chat"}, {"peer_hash", "content", "delivery_method", "title", "reply_to_hash",
                            "attachment_data", "attachment_filename", "attachment_mime"})
    ++ With({"mark_read", "delete_conversation"}, {"peer_hash"})
    ++ With({"delete_message", "retry_message", "query_attachment"}, {"message_id"})
    ++ With({"announce"}, {})

ContactRequests ==
    With({"query_contacts", "query_auto_reply", "sync_messages"}, {})
    ++ With({"resolve_name"}, {"name", "prefix_match"})
    ++ With({"set_contact"}, {"peer_hash", "alias", "notes"})
    ++ With({"remove_contact"}, {"peer_hash"})
    ++ With({"set_auto_reply"}, {"mode", "message", "cooldown"})
    ++ With({"query_path_info"}, {"destination_hash"})
    ++ With({"query_page"}, {"destination_hash", "path", "url", "form_data", "timeout"})

PageRequests ==
    With({"page_server_status", "page_regenerate", "page_list_sites", "get_core_config",
          "get_hub_status", "get_unread_counts", "get_adapter_state"}, {})
    ++ With({"page_disconnect", "page_remove_site"}, {"destination_hash"})
    ++ With({"page_save_site"}, {"destination_hash", "display_name", "refresh_interval", "max_depth"})
    ++ With({"page_crawl_site"}, {"destination_hash", "max_depth"})
    ++ With({"page_get_cached"}, {"destination_hash", "path"})
    ++ With({"get_nodes"}, {"styrene_only"}) ++ With({"save_core_config"}, {"config_dict"})
    ++ With({"activity_history"}, {"limit"})

PeerRequests ==
    With({"block_peer"}, {"identity_hash", "lxmf_dest_hash", "alias"})
    ++ With({"unblock_peer"}, {"identity_hash"})
    ++ With({"blocked_peers", "boundary_snapshot"}, {})
    ++ With({"datalink_establish", "datalink_teardown", "datalink_status", "datalink_query",
             "datalink_speedtest", "datalink_meta", "datalink_info"}, {"destination_hash"})

DeviceRequests ==
    With({"reboot_device"}, {"destination", "delay", "timeout"})
    ++ With({"provision_adapter"}, {"adapter_name"})
    ++ With({"self_update"}, {"destination", "version", "timeout"})
    ++ With({"set_identity"}, {"display_name", "icon", "short_name"})
    ++ With({"pqc_status"}, {"peer_hash"})
    ++ With({"remote_inbox"}, {"destination", "limit", "timeout"})
    ++ With({"remote_messages"}, {"destination", "peer_hash", "limit", "timeout"})

StreamRequests ==
    With({"terminal_open"}, {"destination", "term_type", "rows", "cols", "shell"})
    ++ With({"terminal_input"}, {"session_id", "data"})
    ++ With({"terminal_resize"}, {"session_id", "rows", "cols"})
    ++ With({"terminal_close"}, {"session_id"})
    ++ With({"sub_messages"}, {"peer_hashes"}) ++ With({"sub_devices", "sub_activity"}, {})
    ++ With({"unsub"}, {"subscription_type"})

Fields == QueryRequests ++ ChatRequests ++ ContactRequests ++ PageRequests ++ PeerRequests
          ++ DeviceRequests ++ StreamRequests
RequestKind == DOMAIN Fields

\* Left out of the payload when they have their default.
IfGiven == [k \in RequestKind |->
    CASE k = "query_messages" -> {"before_timestamp", "status_filter"}
      [] k = "search_messages" -> {"peer_hash"}
      [] k = "send_chat" -> {"title", "reply_to_hash", "attachment_data", "attachment_filename",
                             "attachment_mime"}
      [] k = "set_contact" -> {"notes"}
      [] k = "query_page" -> {"url", "form_data"}
      [] k = "set_identity" -> {"short_name"}
      [] k = "terminal_open" -> {"shell"}
      [] k \in {"sub_messages", "unsub"} -> Fields[k]
      [] OTHER -> {}]

\* The kinds create_request knows, and the fields of them it does not read.
Unknown == {"block_peer", "unblock_peer", "blocked_peers", "provision_adapter"}
Unread(k) == IF k = "query_page" THEN {"url"} ELSE {}

VARIABLES letter, \* a request: its kind, the fields with a value of their own, its time limit
          mail,   \* "written", "sent", "read" or "refused"
          keys,   \* of its payload
          got,    \* the fields with a value of their own after it was read
          patience \* how long its sender waits

messageVars == <<letter, mail, keys, got, patience>>

MessagesTypeOK ==
    /\ letter.kind \in RequestKind /\ letter.own \subseteq Fields[letter.kind]
    /\ mail \in {"written", "sent", "read", "refused"}
    /\ keys \subseteq Fields[letter.kind] /\ got \subseteq keys /\ patience \in Nat

MessagesInit ==
    /\ \E k \in RequestKind, t \in Timeouts : \E own \in SUBSET Fields[k] :
          letter = [kind |-> k, own |-> own, timeout |-> IF "timeout" \in Fields[k] THEN t ELSE 0]
    /\ mail = "written" /\ keys = {} /\ got = {} /\ patience = 0

\* What an attachment is goes with its data.
ToPayload(k, own) ==
    LET there == (Fields[k] \ IfGiven[k]) \cup (own \cap IfGiven[k])
    IN IF "attachment_data" \in there THEN there
       ELSE there \ {"attachment_filename", "attachment_mime"}

\* The client waits longer than the daemon is asked to work.
Patience(k, t) ==
    CASE k = "ping" -> 5 [] k = "terminal_open" -> 45 [] k = "datalink_speedtest" -> 120
      [] k = "query_page" -> t + 20
      [] k # "query_page" /\ "timeout" \in Fields[k] -> t + 5
      [] OTHER -> 30

SendLetter ==
    /\ mail = "written" /\ mail' = "sent"
    /\ keys' = ToPayload(letter.kind, letter.own)
    /\ patience' = Patience(letter.kind, letter.timeout)
    /\ UNCHANGED <<letter, got>>

\* Mutant of CreateRequest: fields that may be left out are not read.
CreateRequestStrict ==
    /\ mail = "sent"
    /\ IF letter.kind \in Unknown THEN mail' = "refused" /\ UNCHANGED got
       ELSE mail' = "read" /\ got' = (letter.own \cap keys) \ IfGiven[letter.kind]
    /\ UNCHANGED <<letter, keys, patience>>

CreateRequest ==
    /\ mail = "sent"
    /\ IF letter.kind \in Unknown THEN mail' = "refused" /\ UNCHANGED got
       ELSE mail' = "read" /\ got' = (letter.own \cap keys) \ Unread(letter.kind)
    /\ UNCHANGED <<letter, keys, patience>>

MessagesNext == SendLetter \/ CreateRequest
MessagesSpec == MessagesInit /\ [][MessagesNext]_messageVars

-----------------------------------------------------------------------------
(* Properties.                                                             *)

\* A request that is written and read is the one that was made, but for the URL of
\* a page and what describes an attachment that is not there; and its sender still
\* waits when the time it asked for is over.
RequestReadsBack ==
    /\ mail = "read" => letter.own \ got \subseteq
           Unread(letter.kind) \cup (IF "attachment_data" \in letter.own THEN {}
                                     ELSE {"attachment_filename", "attachment_mime"})
    /\ mail = "refused" => letter.kind \in Unknown
    /\ mail # "written" /\ "timeout" \in Fields[letter.kind] => patience > letter.timeout
================================================================================
