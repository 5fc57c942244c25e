------------------------------ MODULE MeshMessages ------------------------------
(***************************************************************************)
(* What nodes send each other (models/styrene_wire.py, terminal/messages.py, *)
(* rpc/messages.py) and what the RPC client makes of an answer: which fields *)
(* a message has, which go on the wire and are read back, which identifier   *)
(* goes with it, and what is refused.  Of a value it matters whether it is    *)
(* the default; the node that answers is of this library.                     *)
(***************************************************************************)
EXTENDS Naturals, FiniteSets

\* The factories of envelopes: requests get an identifier of their own, all others
\* the one they are given, or none.
Questions ==
    [ping |-> {}, status_request |-> {}, exec |-> {"command", "args"}, reboot |-> {"delay"},
     config_update |-> {"updates"}, self_update |-> {"version"}, inbox_query |-> {"limit"},
     messages_query |-> {"peer_hash", "limit"},
     terminal_request |-> {"term_type", "rows", "cols", "shell", "command", "args"}]

Answers ==
    [pong |-> {}, error |-> {"code", "message"},
     status_response |-> {"uptime", "ip", "services", "disk_used", "disk_total", "styrened_version",
                          "hostname", "arch", "os_id", "os_version", "nixos_generation", "available_commands"},
     exec_result |-> {"exit_code", "stdout", "stderr"},
     reboot_result |-> {"success", "message", "scheduled_time"},
     config_result |-> {"success", "message", "updated_keys"},
     self_update_result |-> {"success", "message", "old_version", "new_version"},
     provision_result |-> {"success", "installed_path", "adapter", "error"},
     inbox_response |-> {"conversations"}, messages_response |-> {"messages"},
     terminal_accept |-> {"link_destination", "session_id", "identity_hash"},
     terminal_reject |-> {"reason", "code"}]

Notices ==
    [chat |-> {"text"}, announce |-> {"identity_data"}, provision |-> {"adapter"},
     terminal_resize |-> {"rows", "cols", "session_id"}, terminal_signal |-> {"signal", "session_id"},
     terminal_close |-> {"session_id"}, terminal_closed |-> {"exit_code", "reason", "session_id"},
     file_offer |-> {"filename", "size", "mime_type", "checksum"}, file_accept |-> {"max_size"}]

\* The messages on the link of a terminal, with the keys of their fields.
OnLink ==
    [noop |-> {}, stream_data |-> {"s", "d", "e"}, window_size |-> {"r", "c", "x", "y"},
     command_exited |-> {"rc", "sig"}, version_info |-> {"v", "sw"}, link_error |-> {"m", "c", "f"}]

Either(f, g) == [k \in DOMAIN f \cup DOMAIN g |-> IF k \in DOMAIN f THEN f[k] ELSE g[k]]
Envelopes == Either(Questions, Either(Answers, Notices))
MessageFields == Either(Envelopes, OnLink)

\* Left out when they are None.
LeftOut(k) ==
    CASE k = "reboot_result" -> {"scheduled_time"} [] k = "self_update_result" -> {"new_version"}
      [] k = "terminal_request" -> {"shell", "command", "args"}
      [] k = "terminal_accept" -> {"session_id", "identity_hash"}
      [] k \in {"terminal_resize", "terminal_signal", "terminal_close", "terminal_closed"} -> {"session_id"}
      [] k = "file_offer" -> {"mime_type", "checksum"} [] k = "command_exited" -> {"sig"}
      [] k \in {"status_response", "provision_result", "announce"} -> MessageFields[k]
      [] OTHER -> {}

\* The messages that are dataclasses as well, with to_dict and from_dict.
Records ==
    {"status_request", "exec", "reboot", "config_update", "provision", "status_response", "exec_result",
     "reboot_result", "config_result", "self_update_result", "inbox_response", "messages_response",
     "provision_result"}

\* A reader raises KeyError without them: from_dict, though the RPC client needs none;
RecordNeeds(k) ==
    CASE k = "exec" -> {"command"} [] k = "exec_result" -> {"exit_code", "stdout", "stderr"}
      [] k = "status_response" -> {"uptime", "ip", "services", "disk_used", "disk_total"}
      [] k \in {"reboot_result", "config_result"} -> {"success", "message"}
      [] k = "self_update_result" -> {"success", "message", "old_version"} [] OTHER -> {}

\* and unpack, on the link.
LinkNeeds(k) ==
    CASE k = "stream_data" -> {"s", "d"} [] k = "window_size" -> {"r", "c"} [] k = "command_exited" -> {"rc"}
      [] k = "version_info" -> {"v", "sw"} [] k = "link_error" -> {"m"} [] OTHER -> {}

Required(k) == RecordNeeds(k) \cup LinkNeeds(k)

\* What a call_ method asserts of its answer.
AnswerOf ==
    [status_request |-> "status_response", exec |-> "exec_result", reboot |-> "reboot_result",
     config_update |-> "config_result", self_update |-> "self_update_result",
     inbox_query |-> "inbox_response", messages_query |-> "messages_response"]

\* Identifiers go with envelopes of version 2 only.
Forms(k) ==
    IF k \in DOMAIN OnLink THEN {"link"}
    ELSE {"envelope"} \cup (IF k \in Records THEN {"record"} ELSE {})

Damage == {"none", "short", "prefix", "version", "type", "id cut", "too large", "field lost"}
Refusal == {"InvalidPrefixError", "UnsupportedVersionError", "InvalidMessageTypeError", "ValueError", "KeyError"}

VARIABLES
    note,    \* a message: its form, kind, fields with a value and the identifier it is given
    version, \* of the wire format
    packet,    \* what travels: type, identifier and keys
    harm,    \* what is wrong with it
    stage,
    understood,   \* what its receiver has read, or why not
    answer,  \* what comes back to a call
    returned \* what the call ends with

meshVars == <<note, version, packet, harm, stage, understood, answer, returned>>

Blank == [kind |-> "nothing", own |-> {}, id |-> "none"]

MeshTypeOK ==
    /\ note.form \in Forms(note.kind) /\ note.own \subseteq MessageFields[note.kind]
    /\ version \in {1, 2} /\ harm \in Damage
    /\ packet.kind \in {"nothing", note.kind} /\ stage \in {"made", "sent", "read", "answered", "ended"}
    /\ understood.kind \in {"nothing", note.kind} \cup Refusal /\ understood.own \subseteq note.own
    /\ answer.kind \in {"nothing"} \cup DOMAIN Envelopes
    /\ returned.kind \in {"nothing", "timeout", "invalid", "assertion"} \cup DOMAIN Answers

MeshInit ==
    /\ \E k \in DOMAIN MessageFields : \E own \in SUBSET MessageFields[k], form \in Forms(k) :
          /\ k = "status_response" => Cardinality(own) \in {0, 1, 12}
          /\ version \in (IF form = "envelope" THEN {1, 2} ELSE {2})
          /\ \E id \in (IF version = 2 /\ form = "envelope" THEN {"none", "given"} ELSE {"none"}) :
                note = [form |-> form, kind |-> k, own |-> own, id |-> id]
    /\ harm \in (IF note.own = {} THEN Damage ELSE {"none"})
    /\ packet = Blank /\ stage = "made" /\ understood = Blank /\ answer = Blank /\ returned = Blank

\* An envelope of version 2 has an identifier: its own, its request's, or zeros.
Identifier(k, id) ==
    IF k = "announce" THEN "zeros"
    ELSE IF id # "none" THEN id
    ELSE IF k \in DOMAIN Questions THEN "fresh" ELSE "zeros"

\* Pack, or the factory and encode: the session of an ACCEPT is its request's when
\* none is given.
Keys(form, k, own, id) ==
    IF form = "record" THEN MessageFields[k] ELSE
    (MessageFields[k] \ LeftOut(k)) \cup own
    \cup (IF k = "terminal_accept" /\ id # "none" THEN {"session_id"} ELSE {})

Pack ==
    /\ stage = "made" /\ stage' = "sent"
    /\ packet' = [kind |-> note.kind, own |-> Keys(note.form, note.kind, note.own, note.id),
                id |-> IF note.form # "envelope" \/ version = 1 THEN "none"
                       ELSE Identifier(note.kind, note.id)]
    /\ UNCHANGED <<note, version, harm, understood, answer, returned>>

\* StyreneEnvelope.decode and deserialize_message.
Refused(form, k) ==
    CASE form = "link" /\ harm \in {"short", "type"} -> "ValueError"
      [] form # "envelope" /\ harm = "field lost" /\ Required(k) # {} -> "KeyError"
      [] form = "envelope" /\ (harm \in {"short", "prefix"} \/ (harm = "id cut" /\ version = 2)) ->
            "InvalidPrefixError"
      [] form = "envelope" /\ harm = "version" -> "UnsupportedVersionError"
      [] form = "envelope" /\ harm = "type" -> "InvalidMessageTypeError"
      [] form = "envelope" /\ harm = "too large" -> "ValueError"
      [] OTHER -> "no"

\* Mutant of Unpack: an identifier is read whatever the version.
UnpackAny ==
    /\ stage = "sent" /\ stage' = "read"
    /\ understood' = [kind |-> note.kind, own |-> note.own \cap packet.own, id |-> "given"]
    /\ UNCHANGED <<note, version, packet, harm, answer, returned>>

Unpack ==
    /\ stage = "sent" /\ stage' = "read"
    /\ understood' = IF Refused(note.form, note.kind) # "no" THEN [Blank EXCEPT !.kind = Refused(note.form, note.kind)]
                ELSE [kind |-> packet.kind, own |-> note.own \cap packet.own, id |-> packet.id]
    /\ UNCHANGED <<note, version, packet, harm, answer, returned>>

\* The node that was asked answers, with the answer to the request or any other
\* message, whose identifier is the request's, another's, or none; a message of
\* the protocol's own send_ methods has a fresh one.
PeerAnswers ==
    /\ stage = "read" /\ harm = "none" /\ note.kind \in DOMAIN AnswerOf /\ note.form = "envelope"
    /\ note.id = "none" /\ version = 2
    /\ stage' = "answered"
    /\ \E k \in DOMAIN Envelopes, id \in {"request's", "fresh", "zeros"} :
          \E own \in (IF k = AnswerOf[note.kind] /\ k # "status_response" THEN SUBSET MessageFields[k]
                      ELSE {{}, MessageFields[k]}) :
             answer' = [kind |-> k, own |-> own, id |-> id]
    /\ UNCHANGED <<note, version, packet, harm, understood, returned>>

\* The handlers the client has registered.
ResponseTypes == {AnswerOf[k] : k \in DOMAIN AnswerOf} \cup {"error"}

\* Mutant of DecodeResponse: an error is an answer like any other.
DecodeResponseAny(a) == a

\* _decode_response reads the fields of the answer's type; an ERROR raises.
DecodeResponse(a) ==
    IF a.kind = "error" THEN [Blank EXCEPT !.kind = "invalid"]
    ELSE [a EXCEPT !.own = @ \cap Answers[a.kind]]

\* The future of the call gets whatever answer bears its identifier; then the call_
\* method looks at its type.  No answer, none of these types or with no identifier
\* or another's, is a timeout.
CallReturns ==
    /\ stage = "answered" /\ stage' = "ended"
    /\ returned' = IF answer.kind \notin ResponseTypes \/ answer.id # "request's"
                   THEN [Blank EXCEPT !.kind = "timeout"]
                   ELSE IF answer.kind \in {AnswerOf[note.kind], "error"} THEN DecodeResponse(answer)
                   ELSE [Blank EXCEPT !.kind = "assertion"]
    /\ UNCHANGED <<note, version, packet, harm, understood, answer>>

MeshNext == Pack \/ Unpack \/ PeerAnswers \/ CallReturns
MeshSpec == MeshInit /\ [][MeshNext]_meshVars

-----------------------------------------------------------------------------
(* Properties.                                                             *)

\* A message is read as it was made, with the identifier it was sent under, and one
\* that is damaged where the format looks is refused with the error it documents.
MessageReadsBack ==
    stage \in {"read", "answered", "ended"} =>
        /\ harm = "none" => understood.kind = note.kind /\ understood.own = note.own
        /\ harm = "none" /\ version = 1 => understood.id = "none"
        /\ note.form = "envelope" /\ version = 2 /\ understood.kind = note.kind => understood.id # "none"
        /\ note.form = "envelope" /\ note.kind \in DOMAIN Questions /\ version = 2
              /\ understood.kind = note.kind => understood.id # "zeros"
        /\ note.form # "record" /\ harm \in {"short", "type"} => understood.kind \in Refusal

\* A call returns the answer that bears its identifier and is of the type it asked
\* for, in full, or else raises; its caller outwaits what it asks for.
CallReturnsItsAnswer ==
    stage = "ended" =>
        /\ returned.kind \in DOMAIN Answers =>
              /\ answer.id = "request's" /\ returned.kind = AnswerOf[note.kind] /\ returned.own = answer.own
        /\ answer.kind = AnswerOf[note.kind] /\ answer.id = "request's" => returned.kind = answer.kind
        /\ returned.kind = "timeout" <=> answer.id # "request's" \/ answer.kind \notin ResponseTypes
================================================================================
