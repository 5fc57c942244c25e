------------------------------- MODULE ConfigFile -------------------------------
(***************************************************************************)
(* The core configuration (models/config.py, services/config.py): which    *)
(* fields there are, what a profile sets, what is written and what is read *)
(* back; and the processes that load the file, change something and save   *)
(* it again.  A configuration is its profile and the fields that differ    *)
(* from the defaults of that profile; of a value it matters whether it is  *)
(* the usual one, a profile's, one of its own, or nothing.                 *)
(***************************************************************************)
EXTENDS Naturals, FiniteSets

CONSTANTS
    Editor,      \* processes: commands, the TUI, the setup wizard
    MaxChanges,  \* bound: changes of fields
    MaxEdits     \* bound: times the file is loaded

ASSUME ConfigAssumption == {MaxChanges, MaxEdits} \subseteq Nat

Profile == {"operator", "endpoint", "hub"}
Value == {"usual", "profile", "own", "nothing", "merged"}

-----------------------------------------------------------------------------
(* Fields that are always written and read as they are.                     *)

ReticulumFields == {"mode", "auto_initialize", "announce_interval", "hub_enabled",
    "hub_announce_interval", "auto", "server_enabled", "listen_ip", "server_port"}
RPCFields == {"rpc_enabled", "relay_mode", "allow_command_execution"}
DiscoveryFields == {"discovery_enabled", "auto_announce", "access_mode", "allowed_peers", "info_respond"}
ChatFields == {"chat_enabled", "auto_reply_mode", "auto_reply_message", "auto_reply_cooldown",
    "persist_messages", "endpoint", "model", "system_prompt", "max_tokens", "temperature",
    "max_context_messages"}
APIFields == {"api_enabled", "host", "port", "public_mode", "metrics_enabled", "auth_enabled",
    "exempt_localhost", "session_ttl"}
ServiceFields == {"ipc_enabled", "socket_mode", "notifications_enabled", "page_server_enabled",
    "terminal_enabled", "session_idle_timeout", "max_sessions_per_identity", "max_total_sessions",
    "rate_limit_requests"}
LXMFFields == {"propagation_enabled", "propagation_limit", "sync_limit", "delivery_limit", "autopeer",
    "autopeer_maxdepth", "max_peers", "from_static_only", "propagation_cost",
    "propagation_cost_flexibility", "peering_cost", "max_peering_cost"}
PQCFields == {"pqc_enabled", "rekey_interval_hours", "require_pqc_for_rpc", "auto_initiate"}
OverlayFields == {"vpn_enable", "vpn_port", "subnet_prefix", "gateway", "vpn_endpoint",
    "ygg_mode", "binary_path", "ygg_port", "admin_socket", "multicast", "bootstrap_from_rns",
    "initial_peers", "i2p_mode", "http_proxy_host", "http_proxy_port", "managed_http_proxy_port",
    "managed_i2pcontrol_port", "b32_address", "cache_ttl", "fetch_timeout"}
GroupFields == {"groups_enabled", "feature_tier", "bounded_retention", "auto_media_fetch",
    "metadata_first_sync", "background_catchup", "first_run_auto_tier"}
RelayFields == {"relay_enabled", "max_sessions", "max_per_identity", "max_bytes_per_session",
    "idle_timeout", "allow_permanent", "allowed_identities"}
RBACFields == {"default_role", "roster", "blocked"}

-----------------------------------------------------------------------------
(* The others.                                                              *)

\* Written unless they are None or empty, as which they start.
WhenGiven == {"enable_transport", "config_path_override", "operator_identity_path", "hub_address",
    "short_name", "web_url", "operator_label", "api_key", "socket_path", "quiet_hours_start",
    "quiet_hours_end", "propagation_name", "propagation_destination", "static_peers",
    "default_shell", "allowed_shells", "pages_dir", "node_name", "demo"}
\* Written always, and read unless they are empty.
NeedsText == {"display_name", "icon"}
\* Written with the credential or if it is the provider, else not at all.
TokenFields == {"credential_id", "rp_id", "require_touch"}
\* Written and never read; or neither.
NeverRead == {"ygg_peer_discovery", "strict_binary_verification", "boundary_sink", "vpn_peer_discovery"}

Field == ReticulumFields \cup RPCFields \cup DiscoveryFields \cup ChatFields \cup APIFields
         \cup ServiceFields \cup LXMFFields \cup PQCFields \cup OverlayFields \cup GroupFields
         \cup RelayFields \cup RBACFields \cup WhenGiven \cup NeedsText \cup TokenFields \cup NeverRead
         \cup {"provider", "peers"}

\* The fields to which a profile gives a value of its own.
ProfileSets == [p \in Profile |->
    CASE p = "operator" -> {"allow_command_execution", "propagation_destination", "peers"}
      [] p = "endpoint" -> {"auto_reply_mode", "ipc_enabled", "terminal_enabled", "notifications_enabled",
                            "peers"}
      [] p = "hub" -> {"mode", "enable_transport", "relay_mode", "allow_command_execution",
                       "auto_reply_mode", "auto_reply_cooldown", "api_enabled", "public_mode",
                       "ipc_enabled", "notifications_enabled", "propagation_enabled", "peers"}]

CanBeNothing == WhenGiven \cup {"credential_id"}

Default(p, f) ==
    CASE f \in ProfileSets[p] -> "profile"
      [] f \in CanBeNothing \ ProfileSets[p] -> "nothing"
      [] OTHER -> "usual"

FieldValues(f) ==
    {"own"} \cup (IF f \in CanBeNothing \cup NeedsText \cup {"peers"} THEN {"nothing"} ELSE {})
    \cup (IF f \in CanBeNothing \cup {"peers"} THEN {} ELSE {"usual"})
    \cup (IF \E p \in Profile : f \in ProfileSets[p] THEN {"profile"} ELSE {})

-----------------------------------------------------------------------------
(* Writing and reading.                                                     *)

Get(c, f) == IF f \in DOMAIN c.own THEN c.own[f] ELSE Default(c.profile, f)

\* Only what differs from the profile's defaults is kept apart.
Normal(p, own) ==
    [profile |-> p, own |-> [f \in {g \in DOMAIN own : own[g] # Default(p, g)} |-> own[f]]]

Set(c, f, v) ==
    Normal(c.profile, [g \in DOMAIN c.own \cup {f} |-> IF g = f THEN v ELSE c.own[g]])

Written(c, f) ==
    /\ f \in WhenGiven \cup {"peers"} => Get(c, f) # "nothing"
    /\ f \in TokenFields => Get(c, "provider") = "own" \/ Get(c, "credential_id") # "nothing"

\* Mutant of ReadBack: the fields are read over the defaults of the operator.
ReadBackPlain(c) ==
    LET read == {f \in DOMAIN c.own : Written(c, f) /\ f \notin NeverRead}
    IN Normal("operator", [f \in read |-> c.own[f]])

\* The default of its profile for a field that is not there; well-known hubs
\* that are not among the peers are added.
ReadBack(c) ==
    LET read == {f \in DOMAIN c.own : /\ Written(c, f) /\ f \notin NeverRead
                                      /\ f \in NeedsText => c.own[f] # "nothing"}
    IN Normal(c.profile, [f \in read |-> IF f = "peers" /\ c.own[f] = "own" THEN "merged" ELSE c.own[f]])

Fresh == [profile |-> "operator", own |-> [f \in {} |-> "usual"]]

-----------------------------------------------------------------------------
(* The file and the processes.                                             *)

VARIABLES
    on_disk,  \* the configuration the file was written from
    intact,   \* "absent", "whole", or "cut" while it is written
    editing,  \* of each process: where it is and the configuration it holds
    changes, edits,
    alone,    \* no two processes held a configuration at once, none died while it wrote
    meant     \* what the file would hold if all changes were in it

configVars == <<on_disk, intact, editing, changes, edits, alone, meant>>

Away == [at |-> "away", conf |-> Fresh]

ConfigIsOne(c) == c.profile \in Profile /\ \A f \in DOMAIN c.own : f \in Field /\ c.own[f] \in Value

ConfigTypeOK ==
    /\ ConfigIsOne(on_disk) /\ ConfigIsOne(meant) /\ intact \in {"absent", "whole", "cut"}
    /\ \A e \in Editor : editing[e].at \in {"away", "edits", "writes"} /\ ConfigIsOne(editing[e].conf)
    /\ changes \in 0..MaxChanges /\ edits \in 0..MaxEdits /\ alone \in BOOLEAN

ConfigInit ==
    /\ on_disk = Fresh /\ intact = "absent" /\ editing = [e \in Editor |-> Away]
    /\ changes = 0 /\ edits = 0 /\ alone = TRUE /\ meant = Fresh

Busy == {e \in Editor : editing[e].at # "away"}

\* A file that is empty is no map: the defaults are taken, silently.  One that is
\* cut elsewhere may also fail to parse, and nothing happens.
LoadConfig(e) ==
    /\ editing[e].at = "away" /\ edits < MaxEdits /\ edits' = edits + 1
    /\ LET c == IF intact = "whole" THEN ReadBack(on_disk) ELSE Fresh
       IN /\ editing' = [editing EXCEPT ![e] = [at |-> "edits", conf |-> c]]
          /\ meant' = IF alone /\ Busy = {} THEN c ELSE meant
    /\ alone' = (alone /\ Busy = {})
    /\ UNCHANGED <<on_disk, intact, changes>>

\* A command, the settings or the wizard set a field.
ChangeField(e, f) ==
    /\ editing[e].at = "edits" /\ changes < MaxChanges /\ changes' = changes + 1
    /\ \E v \in FieldValues(f) :
          /\ v # Get(editing[e].conf, f)
          /\ editing' = [editing EXCEPT ![e].conf = Set(@, f, v)]
          /\ meant' = IF alone THEN Set(meant, f, v) ELSE meant
    /\ UNCHANGED <<on_disk, intact, edits, alone>>

\* The wizard sets the profile and leaves every field as it is.
ChooseProfile(e, p) ==
    /\ editing[e].at = "edits" /\ changes < MaxChanges /\ changes' = changes + 1
    /\ LET c == editing[e].conf
           kept_fields == DOMAIN c.own \cup ProfileSets[c.profile] \cup ProfileSets[p]
           next == Normal(p, [f \in kept_fields |-> Get(c, f)])
       IN /\ p # c.profile
          /\ editing' = [editing EXCEPT ![e].conf = next]
          /\ meant' = IF alone THEN next ELSE meant
    /\ UNCHANGED <<on_disk, intact, edits, alone>>

\* open("w") empties the file before it is written.
SaveBegins(e) ==
    /\ editing[e].at = "edits"
    /\ editing' = [editing EXCEPT ![e].at = "writes"] /\ intact' = "cut"
    /\ UNCHANGED <<on_disk, changes, edits, alone, meant>>

SaveEnds(e) ==
    /\ editing[e].at = "writes"
    /\ on_disk' = editing[e].conf /\ intact' = "whole"
    /\ editing' = [editing EXCEPT ![e] = Away]
    /\ UNCHANGED <<changes, edits, alone, meant>>

\* It leaves without a save, or dies.
EditorLeaves(e) ==
    /\ editing[e].at # "away"
    /\ editing' = [editing EXCEPT ![e] = Away]
    /\ alone' = (alone /\ editing[e].at = "edits")
    /\ meant' = IF alone THEN (IF intact = "whole" THEN on_disk ELSE Fresh) ELSE meant
    /\ UNCHANGED <<on_disk, intact, changes, edits>>

ConfigNext ==
    \E e \in Editor :
        \/ LoadConfig(e) \/ SaveBegins(e) \/ SaveEnds(e) \/ EditorLeaves(e)
        \/ \E f \in Field : ChangeField(e, f)
        \/ \E p \in Profile : ChooseProfile(e, p)

ConfigSpec == ConfigInit /\ [][ConfigNext]_configVars

-----------------------------------------------------------------------------
(* Properties.                                                             *)

\* The fields that may come back as something else: those nobody reads, those that
\* were emptied while the profile or the code gives them a value, the peers without
\* a well-known hub, and those of a token that is not in use.
MayDiffer(c, f) ==
    \/ f \in NeverRead
    \/ Get(c, f) = "nothing" /\ (f \in NeedsText \/ f \in ProfileSets[c.profile])
    \/ f = "peers" /\ Get(c, f) = "own"
    \/ f \in TokenFields /\ Get(c, "provider") # "own"

\* A configuration comes back from the file as it was saved, but for those fields;
\* and what has come back once comes back unchanged ever after.
ConfigReadsBack ==
    intact = "whole" =>
        LET c == ReadBack(on_disk) IN
        /\ c.profile = on_disk.profile
        /\ \A f \in DOMAIN c.own \cup DOMAIN on_disk.own :
              Get(c, f) # Get(on_disk, f) => MayDiffer(on_disk, f)
        /\ ReadBack(c) = c

\* While processes take turns and none dies writing, every change is in the file
\* when it has been saved.
ChangesAreKept == alone /\ Busy = {} /\ intact = "whole" => on_disk = meant
================================================================================
