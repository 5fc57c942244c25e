------------------------------ MODULE IdentityFiles ------------------------------
(***************************************************************************)
(* The operator's identity on disk (services/reticulum.py): found at the   *)
(* first of three places, adopted from another LXMF application or made    *)
(* when there is none, and shared with those applications through symbolic *)
(* links, file operation by file operation, while processes start, die and *)
(* the applications write identities of their own.                         *)
(***************************************************************************)
EXTENDS Naturals, Sequences

CONSTANTS
    AppOrder,    \* the applications in the order they are looked at
    Starter,     \* processes that ensure the identity
    MaxKeys,     \* bound: identities ever made
    MaxCommands, \* bound: share and unshare commands
    MaxEnsures,  \* bound: calls of ensure_operator_identity
    MaxDamages    \* bound: files that are damaged

App == {AppOrder[i] : i \in DOMAIN AppOrder}
Place == {"config", "system", "user"}

ASSUME IdentityAssumption ==
    /\ {MaxKeys, MaxCommands, MaxEnsures, MaxDamages} \subseteq Nat
    /\ 1 \in DOMAIN AppOrder /\ App \cap Place = {}

Slot == {1, 2}
Key == 1..MaxKeys
NoKey == 0
Damaged == MaxKeys + 1
Content == 0..Damaged

VARIABLES
    file,    \* what a place, or the path of an application, holds
    symlink,  \* an application's path is a link to this place; "no" if it is none
    kept,    \* its backups: .key.bak and .key.bak.1
    made,    \* identities made so far
    ensures, \* of each process: its call of ensure_operator_identity
    command, \* the share or unshare that runs
    calls, commands, damages,
    excused  \* identities lost as they may be

pathVars == <<file, symlink, kept>>
identityVars == <<pathVars, made, ensures, command, calls, commands, damages, excused>>

IdleCall == [at |-> "idle", adopt |-> FALSE, from |-> "user", key |-> NoKey, calm |-> TRUE]
IdleCommand == [op |-> "none", todo |-> {}, app |-> AppOrder[1], at |-> "next", safe |-> TRUE,
                force |-> FALSE, target |-> "user", slot |-> 1]

IdentityTypeOK ==
    /\ file \in [Place \cup App -> Content] /\ symlink \in [App -> Place \cup {"no"}]
    /\ kept \in [App -> [Slot -> Content]] /\ made \in 0..MaxKeys
    /\ ensures \in [Starter -> [at : {"idle", "damaged", "search", "truncate", "save", "returned"},
                                adopt : BOOLEAN, from : Place, key : 0..MaxKeys,
                                calm : BOOLEAN]]
    /\ command \in [op : {"none", "share", "unshare"}, todo : SUBSET App, app : App, slot : Slot,
                    at : {"next", "move", "unlink", "link", "restore"}, safe : BOOLEAN,
                    force : BOOLEAN, target : Place]
    /\ calls \in 0..MaxEnsures /\ commands \in 0..MaxCommands /\ damages \in 0..MaxDamages
    /\ excused \subseteq Key

IdentityInit ==
    /\ file = [p \in Place \cup App |-> NoKey] /\ symlink = [a \in App |-> "no"]
    /\ kept = [a \in App |-> [s \in Slot |-> NoKey]] /\ made = 0
    /\ ensures = [p \in Starter |-> IdleCall] /\ command = IdleCommand
    /\ calls = 0 /\ commands = 0 /\ damages = 0 /\ excused = {}

-----------------------------------------------------------------------------
(* Looking.                                                                *)

\* The first place that has a file, damaged or not; "none" if no place has.
ResolveIdentityPath(conf) ==
    CASE conf /\ file["config"] # NoKey -> "config"
      [] ~(conf /\ file["config"] # NoKey) /\ file["system"] # NoKey -> "system"
      [] OTHER -> IF file["user"] # NoKey THEN "user" ELSE "none"

Behind(a) == IF symlink[a] = "no" THEN file[a] ELSE file[symlink[a]]

\* The identity the services of a process load: the override is not asked.
OperatorIdentity ==
    LET p == ResolveIdentityPath(FALSE)
    IN IF p = "none" \/ file[p] = Damaged THEN NoKey ELSE file[p]

\* Only the places without the override are known.
PointsToStyrene(a) == symlink[a] \in {"system", "user"}

\* The first application with a file that is long enough.
Detected(i) ==
    /\ Behind(AppOrder[i]) # NoKey
    /\ \A j \in 1..i - 1 : Behind(AppOrder[j]) \in {NoKey, Damaged}

\* What others do disturbs a call that is under way.
Disturbed(procs) ==
    [p \in Starter |-> IF p \in procs /\ ensures[p].at # "idle" THEN [ensures[p] EXCEPT !.calm = FALSE]
                      ELSE ensures[p]]
Others == UNCHANGED <<command, commands, damages>>

-----------------------------------------------------------------------------
(* ensure_operator_identity.                                               *)

Steps(p, how) == ensures' = [Disturbed(Starter \ {p}) EXCEPT ![p] = how]

EnsureIdentity(p) ==
    /\ ensures[p].at = "idle" /\ calls < MaxEnsures /\ calls' = calls + 1
    /\ \E conf, adopt \in BOOLEAN :
          LET from == ResolveIdentityPath(conf)
              call == [IdleCall EXCEPT !.adopt = adopt, !.calm = \A q \in Starter : ensures[q].at = "idle"]
          IN Steps(p, CASE from = "none" -> [call EXCEPT !.at = "search"]
                        [] from # "none" /\ file[from] = Damaged -> [call EXCEPT !.at = "damaged", !.from = from]
                        [] OTHER -> [call EXCEPT !.at = "returned", !.adopt = FALSE, !.from = from,
                                                  !.key = file[from]])
    /\ Others /\ UNCHANGED <<pathVars, made, excused>>

\* A damaged file is moved away; if that fails so does the call.  What has come
\* to its place since goes with it.
SetAside(p) ==
    LET call == ensures[p] IN
    /\ call.at = "damaged"
    /\ \/ Steps(p, IdleCall) /\ UNCHANGED <<file, excused>>
       \/ /\ file[call.from] # NoKey /\ Steps(p, [call EXCEPT !.at = "search"])
          /\ file' = [file EXCEPT ![call.from] = NoKey]
          /\ excused' = excused \cup ({file[call.from]} \cap Key)
    /\ Others /\ UNCHANGED <<symlink, kept, made, calls>>

\* The first application's identity is taken if it can be loaded; otherwise, or if
\* none is found, one is made.
GenerateOrAdopt(p) ==
    LET call == ensures[p] IN
    /\ call.at = "search"
    /\ \/ /\ call.adopt
          /\ \E i \in DOMAIN AppOrder :
                /\ Detected(i) /\ Behind(AppOrder[i]) \in Key
                /\ Steps(p, [call EXCEPT !.at = "truncate", !.key = Behind(AppOrder[i])])
          /\ UNCHANGED made
       \/ /\ call.adopt => \A i \in DOMAIN AppOrder : Behind(AppOrder[i]) # NoKey => ~Detected(i) \/ Behind(AppOrder[i]) = Damaged
          /\ made < MaxKeys /\ made' = made + 1
          /\ Steps(p, [call EXCEPT !.at = "truncate", !.key = made'])
    /\ Others /\ UNCHANGED <<pathVars, calls, excused>>

\* to_file empties the user's file and then writes it.
Truncate(p) ==
    /\ ensures[p].at = "truncate"
    /\ Steps(p, [ensures[p] EXCEPT !.at = "save"])
    /\ file' = [file EXCEPT !["user"] = Damaged]
    /\ excused' = excused \cup (({file["user"]} \ {ensures[p].key}) \cap Key)
    /\ Others /\ UNCHANGED <<symlink, kept, made, calls>>

\* Mutant of SaveIdentity: it is written to the place the damaged one had.
SaveIdentityThere(p) ==
    /\ ensures[p].at = "save"
    /\ Steps(p, [ensures[p] EXCEPT !.at = "returned"])
    /\ file' = [file EXCEPT ![ensures[p].from] = ensures[p].key]
    /\ Others /\ UNCHANGED <<symlink, kept, made, calls, excused>>

SaveIdentity(p) ==
    /\ ensures[p].at = "save"
    /\ Steps(p, [ensures[p] EXCEPT !.at = "returned"])
    /\ file' = [file EXCEPT !["user"] = ensures[p].key]
    /\ excused' = excused \cup (({file["user"]} \ {ensures[p].key}) \cap Key)
    /\ Others /\ UNCHANGED <<symlink, kept, made, calls>>

\* The process is done, or dies: what it has not written is gone.
StarterLeaves(p) ==
    /\ ensures[p].at # "idle" /\ Steps(p, IdleCall)
    /\ excused' = excused \cup (IF ensures[p].at = "returned" THEN {} ELSE {ensures[p].key} \cap Key)
    /\ Others /\ UNCHANGED <<pathVars, made, calls>>

-----------------------------------------------------------------------------
(* share_identity_with_apps and unshare_identity_from_apps.                *)

Untouched == UNCHANGED <<made, calls, damages>>
Jolts == ensures' = Disturbed(Starter)
NextApp == [command EXCEPT !.at = "next", !.app = AppOrder[1], !.slot = 1]

ShareBegins ==
    /\ command.op = "none" /\ commands < MaxCommands /\ commands' = commands + 1
    /\ ResolveIdentityPath(FALSE) # "none"
    /\ \E apps \in SUBSET App \ {{}}, safe, force \in BOOLEAN :
          command' = [IdleCommand EXCEPT !.op = "share", !.todo = apps, !.safe = safe, !.force = force,
                                         !.target = ResolveIdentityPath(FALSE)]
    /\ UNCHANGED <<pathVars, ensures, excused>> /\ Untouched

\* A path that links there, or may not be replaced, is left; an own file is
\* moved to the first free backup, anything else removed.
ShareLooks(a) ==
    /\ command.op = "share" /\ command.at = "next" /\ a \in command.todo
    /\ LET there == symlink[a] # "no" \/ file[a] # NoKey
           own == file[a] # NoKey /\ symlink[a] = "no"
           rest == [command EXCEPT !.todo = @ \ {a}]
           turn == [rest EXCEPT !.app = a]
           free == {s \in Slot : kept[a][s] = NoKey}
       IN \/ /\ symlink[a] = command.target \/ (there /\ ~command.force)
             /\ command' = rest
          \/ /\ symlink[a] # command.target /\ there /\ command.force
             /\ IF command.safe /\ own
                THEN free # {} /\ command' = [turn EXCEPT !.at = "move", !.slot = IF 1 \in free THEN 1 ELSE 2]
                ELSE command' = [turn EXCEPT !.at = "unlink"]
          \/ ~there /\ command' = [turn EXCEPT !.at = "link"]
    /\ UNCHANGED <<pathVars, ensures, commands, excused>> /\ Untouched

\* Mutant of ShareBacksUp: there is one backup.
ShareBacksUpOver ==
    LET a == command.app IN
    /\ command.op = "share" /\ command.at = "move"
    /\ kept' = [kept EXCEPT ![a][1] = file[a]]
    /\ file' = [file EXCEPT ![a] = NoKey]
    /\ command' = [command EXCEPT !.at = "link"] /\ Jolts
    /\ UNCHANGED <<symlink, commands, excused>> /\ Untouched

ShareBacksUp ==
    LET a == command.app IN
    /\ command.op = "share" /\ command.at = "move"
    /\ kept' = [kept EXCEPT ![a][command.slot] = file[a]]
    /\ file' = [file EXCEPT ![a] = NoKey]
    /\ command' = [command EXCEPT !.at = "link"] /\ Jolts
    /\ UNCHANGED <<symlink, commands, excused>> /\ Untouched

\* The link, or without backup the file, is removed.
Unlinks ==
    LET a == command.app IN
    /\ command.at = "unlink"
    /\ symlink' = [symlink EXCEPT ![a] = "no"]
    /\ file' = [file EXCEPT ![a] = NoKey] /\ excused' = excused \cup ({file[a]} \cap Key)
    /\ command' = [command EXCEPT !.at = IF command.op = "share" THEN "link" ELSE "restore"] /\ Jolts
    /\ UNCHANGED <<kept, commands>> /\ Untouched

\* symlink_to: a path the application has taken in the meantime is left.
ShareLinks ==
    LET a == command.app IN
    /\ command.at = "link" /\ command' = NextApp /\ Jolts
    /\ symlink' = IF file[a] = NoKey THEN [symlink EXCEPT ![a] = command.target] ELSE symlink
    /\ UNCHANGED <<file, kept, commands, excused>> /\ Untouched

UnshareBegins ==
    /\ command.op = "none" /\ commands < MaxCommands /\ commands' = commands + 1
    /\ \E apps \in SUBSET App \ {{}}, restore \in BOOLEAN :
          command' = [IdleCommand EXCEPT !.op = "unshare", !.todo = apps, !.safe = restore]
    /\ UNCHANGED <<pathVars, ensures, excused>> /\ Untouched

UnshareLooks(a) ==
    /\ command.op = "unshare" /\ command.at = "next" /\ a \in command.todo
    /\ LET rest == [command EXCEPT !.todo = @ \ {a}]
       IN command' = IF PointsToStyrene(a) THEN [rest EXCEPT !.app = a, !.at = "unlink"] ELSE rest
    /\ UNCHANGED <<pathVars, ensures, commands, excused>> /\ Untouched

\* The first backup is put back, over what the application has written since.
UnshareRestores ==
    LET a == command.app
        back == command.safe /\ kept[a][1] # NoKey
    IN
    /\ command.at = "restore" /\ command' = NextApp /\ Jolts
    /\ IF back
       THEN /\ file' = [file EXCEPT ![a] = kept[a][1]] /\ kept' = [kept EXCEPT ![a][1] = NoKey]
            /\ excused' = excused \cup ({file[a]} \cap Key)
       ELSE UNCHANGED <<file, kept, excused>>
    /\ UNCHANGED <<symlink, commands>> /\ Untouched

\* It is done, or the process dies between two steps.
CommandEnds ==
    /\ command.op # "none" /\ command' = IdleCommand
    /\ UNCHANGED <<pathVars, ensures, commands, excused>> /\ Untouched

-----------------------------------------------------------------------------
(* The others.                                                             *)

\* An application without an identity makes one, through the link if there is one.
AppStarts(a) ==
    /\ Behind(a) = NoKey /\ made < MaxKeys /\ made' = made + 1
    /\ file' = [file EXCEPT ![IF symlink[a] = "no" THEN a ELSE symlink[a]] = made'] /\ Jolts
    /\ UNCHANGED <<symlink, kept, command, calls, commands, damages, excused>>

\* The owner of the machine puts an identity at the system's place or the override.
OwnerProvides(p) ==
    /\ p \in {"config", "system"} /\ file[p] = NoKey /\ made < MaxKeys /\ made' = made + 1
    /\ file' = [file EXCEPT ![p] = made'] /\ Jolts
    /\ UNCHANGED <<symlink, kept, command, calls, commands, damages, excused>>

FileDamaged(x) ==
    /\ file[x] \in Key /\ damages < MaxDamages /\ damages' = damages + 1
    /\ file' = [file EXCEPT ![x] = Damaged] /\ excused' = excused \cup {file[x]} /\ Jolts
    /\ UNCHANGED <<symlink, kept, made, command, calls, commands>>

IdentityNext ==
    \/ \E p \in Starter : EnsureIdentity(p) \/ SetAside(p) \/ GenerateOrAdopt(p) \/ Truncate(p)
                          \/ SaveIdentity(p) \/ StarterLeaves(p)
    \/ ShareBegins \/ ShareBacksUp \/ Unlinks \/ ShareLinks \/ UnshareBegins \/ UnshareRestores \/ CommandEnds
    \/ \E a \in App : ShareLooks(a) \/ UnshareLooks(a) \/ AppStarts(a)
    \/ \E p \in Place : OwnerProvides(p)
    \/ \E x \in Place \cup App : FileDamaged(x)

IdentitySpec == IdentityInit /\ [][IdentityNext]_identityVars

-----------------------------------------------------------------------------
(* Properties.                                                             *)

\* Whatever is shared, taken back, damaged and begun anew, an identity is still
\* somewhere, but for one that was damaged, replaced without a backup, made in the
\* middle of a command on its path, or the user's own after one of a higher place
\* was damaged.
Somewhere == {file[x] : x \in Place \cup App} \cup {kept[a][s] : a \in App, s \in Slot}
             \cup {ensures[p].key : p \in Starter}
IdentitiesKept == (1..made) \subseteq Somewhere \cup excused

\* A call nobody has disturbed returns the identity the next one will find, and
\* the services load: unless it asked for the override, which they do not, and if
\* that was damaged there may be an older identity before the one it has made.
EnsuredIsStored ==
    \A p \in Starter :
        ensures[p].at = "returned" /\ ensures[p].calm /\ ensures[p].from # "config" =>
            OperatorIdentity = ensures[p].key

\* An application's path is a file or a link, never both, and a link never leads
\* to the override, which unshare would not know again.
LinksAreKnown == \A a \in App : symlink[a] # "no" => file[a] = NoKey /\ PointsToStyrene(a)
================================================================================
