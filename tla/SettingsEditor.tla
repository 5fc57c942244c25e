---------------------------- MODULE SettingsEditor ----------------------------
(***************************************************************************)
(* The settings screen (tui/screens/settings.py) and the files its values  *)
(* go to and come from (tui/services/config.py, services/config.py): the   *)
(* program keeps tui.yaml, the daemon keeps the core configuration, and a  *)
(* save writes one after the other.  Saves are workers that may overlap.   *)
(***************************************************************************)
EXTENDS Naturals

CONSTANTS
    Saver,      \* bound: saves at once
    MaxTouches  \* bound: what the operator does

ASSUME SettingsAssumption == MaxTouches \in Nat

VARIABLES
    live,      \* the configuration in memory, which the whole program shares
    tuiFile,   \* tui.yaml: the theme, and a name written by old versions
    coreFile,  \* the daemon's configuration file
    announced, \* the name the daemon announces
    bridge,    \* the daemon is connected
    editor,    \* the screen: "closed", "open" or "leaving"
    form,      \* what its fields say
    theme,     \* shown, the one to go back to, and whether the operator applied one
    saver,     \* _save_settings, by worker
    touches,   \* counts towards MaxTouches
    told       \* the last save: "none", "saving", or "saved" with nothing touched since

settingsVars == <<live, tuiFile, coreFile, announced, bridge, editor, form, theme, saver,
                  touches, told>>

\* An empty name is "none", an invalid field "bad"; the community hub is no
\* peer, a peer that is off, or one that is on.
Name == {"anonymous", "a", "none"}
Core == [name : Name, net : {"n0", "n1"}, hub : {"absent", "off", "on"}, adapter : BOOLEAN]
Theme == {"t0", "t1"}
Form == [name : Name, net : {"n0", "n1", "bad"}, row : BOOLEAN, hub : BOOLEAN,
         adapter : BOOLEAN]
Default == [name |-> "anonymous", net |-> "n0", hub |-> "on", adapter |-> FALSE]
Still == [at |-> "idle"]
Saving(w) == saver[w].at # "idle"

SettingsTypeOK ==
    /\ live \in [core : Core, theme : Theme]
    /\ tuiFile \in [theme : Theme, legacy : Name]
    /\ coreFile \in Core /\ announced \in Name /\ bridge \in BOOLEAN
    /\ editor \in {"closed", "open", "leaving"} /\ form \in Form
    /\ theme \in [shown : Theme, applied : Theme, committed : BOOLEAN]
    /\ \A w \in Saver : saver[w] = Still \/ saver[w] \in
          [at : {"identity"}, draft : [core : Core, theme : Theme]] \cup [at : {"core"}, sent : Core]
    /\ touches \in 0..MaxTouches /\ told \in {"none", "saving", "saved"}

-----------------------------------------------------------------------------
(* The files.                                                               *)

\* load_core_config: an empty name is not taken over, and a hub that is missing
\* is added, as it is by default.
LoadCore(core) ==
    [core EXCEPT !.name = IF @ = "none" THEN "anonymous" ELSE @,
                 !.hub = IF @ = "absent" THEN "on" ELSE @]

\* _parse_config_dict: what is missing is the default.
Parsed == [tuiFile EXCEPT !.legacy = IF @ = "none" THEN Default.name ELSE @]

\* _overlay_core_config: a legacy name fills in for none.
Migrates(core) == core.name = "anonymous" /\ Parsed.legacy # "anonymous"
LoadConfig ==
    LET core == LoadCore(coreFile) IN
    [core |-> IF Migrates(core) THEN [core EXCEPT !.name = Parsed.legacy] ELSE core,
     theme |-> Parsed.theme]

\* _config_to_dict leaves the core out, and with it a legacy name.
ConfigToDict(config) == [theme |-> config.theme, legacy |-> "none"]

\* What the screen shows of it.
FormOf(config) ==
    [name |-> config.core.name, net |-> config.core.net, row |-> config.core.hub # "absent",
     hub |-> config.core.hub = "on", adapter |-> config.core.adapter]

\* The community hub's switch decides, its row only whether the peer is kept.
HubOf(f) == IF f.hub THEN "on" ELSE IF f.row THEN "off" ELSE "absent"

SettingsInit ==
    /\ \E adapter \in BOOLEAN : coreFile = [Default EXCEPT !.adapter = adapter]
    /\ \E legacy \in {"none", "a"} : tuiFile = [theme |-> "t0", legacy |-> legacy]
    /\ live = LoadConfig
    /\ announced = "anonymous" /\ bridge = TRUE
    /\ editor = "closed" /\ form = FormOf(live)
    /\ theme = [shown |-> "t0", applied |-> "t0", committed |-> FALSE]
    /\ saver = [w \in Saver |-> Still]
    /\ touches = 0 /\ told = "none"

-----------------------------------------------------------------------------
(* The operator.                                                            *)

Touch == touches < MaxTouches /\ touches' = touches + 1

OpenSettings ==
    /\ Touch /\ editor = "closed"
    /\ editor' = "open"
    /\ form' = FormOf(live)
    /\ theme' = [theme EXCEPT !.applied = live.theme, !.committed = FALSE]
    /\ told' = "none"
    /\ UNCHANGED <<live, tuiFile, coreFile, announced, bridge, saver>>

\* The name was read when a save began, the rest is when the daemon has answered.
EditField(f) ==
    /\ Touch /\ editor = "open" /\ f # form /\ f.adapter = form.adapter
    /\ form' = f
    /\ told' = IF f.name = form.name /\ \A w \in Saver : saver[w].at # "core"
                THEN told ELSE "none"
    /\ UNCHANGED <<live, tuiFile, coreFile, announced, bridge, editor, theme, saver>>

\* Off at once; an adapter can only be turned on if its module is installed.
OnAdapterToggle ==
    /\ Touch /\ editor = "open" /\ form.adapter
    /\ form' = [form EXCEPT !.adapter = FALSE]
    /\ live' = [live EXCEPT !.core.adapter = FALSE]
    /\ told' = IF \A w \in Saver : saver[w].at # "core" THEN told ELSE "none"
    /\ UNCHANGED <<tuiFile, coreFile, announced, bridge, editor, theme, saver>>

\* A built-in theme, one that was fetched, or an edited color.
PreviewTheme(t) ==
    /\ Touch /\ editor = "open" /\ t # theme.shown
    /\ theme' = [theme EXCEPT !.shown = t]
    /\ UNCHANGED <<live, tuiFile, coreFile, announced, bridge, editor, form, saver, told>>

OnApplyTheme ==
    /\ Touch /\ editor = "open"
    /\ theme' = [shown |-> theme.shown, applied |-> theme.shown, committed |-> TRUE]
    /\ live' = [live EXCEPT !.theme = theme.shown]
    /\ told' = "none"
    /\ UNCHANGED <<tuiFile, coreFile, announced, bridge, editor, form, saver>>

\* The workers of a screen that goes are cancelled: what one had sent arrives or not.
Closes ==
    /\ editor' = "closed"
    /\ saver' = [w \in Saver |-> Still]
    /\ announced' \in {announced} \cup {saver[w].draft.core.name : w \in {v \in Saver : saver[v].at = "identity"}}
    /\ coreFile' \in {coreFile} \cup {saver[w].sent : w \in {v \in Saver : saver[v].at = "core"}}

\* _revert_unapplied_theme.
Cancel ==
    /\ editor = "open"
    /\ Closes
    /\ IF ~theme.committed /\ theme.shown # theme.applied
       THEN theme' = [theme EXCEPT !.shown = theme.applied] /\ live' = [live EXCEPT !.theme = theme.applied]
       ELSE UNCHANGED <<theme, live>>
    /\ told' = "none"
    /\ UNCHANGED <<tuiFile, bridge, form, touches>>

\* The key that opens the screen pops it, without a look at the theme.
PopSettings ==
    /\ editor = "open"
    /\ Closes
    /\ told' = "none"
    /\ UNCHANGED <<live, tuiFile, bridge, form, theme, touches>>

\* _reset_config: the daemon gets the defaults; memory and form stay.
ResetConfig ==
    /\ Touch /\ editor = "open" /\ bridge
    /\ coreFile' = Default
    /\ told' = "none"
    /\ UNCHANGED <<live, tuiFile, announced, bridge, editor, form, theme, saver>>

-----------------------------------------------------------------------------
(* _save_settings.                                                          *)

\* ctrl+s, or the button, which also takes the theme for applied.
\* The draft is a copy, with the name as it is now.
SaveBegins(w, button) ==
    /\ Touch /\ editor = "open" /\ ~Saving(w)
    /\ theme' = [theme EXCEPT !.committed = @ \/ button]
    /\ saver' = [saver EXCEPT ![w] =
                    [at |-> "identity", draft |-> [live EXCEPT !.core.name = form.name]]]
    /\ told' = IF \E v \in Saver : Saving(v) THEN "none" ELSE "saving"
    /\ UNCHANGED <<live, tuiFile, coreFile, announced, bridge, editor, form>>

\* Mutant of Drafted: the adapter's mode is that of the copy.
DraftedStale(w) ==
    [saver[w].draft EXCEPT !.core.net = form.net, !.core.hub = HubOf(form)]

\* The draft when the daemon has answered: the fields, and the adapter's mode as
\* it is in memory now.
Drafted(w) ==
    [saver[w].draft EXCEPT !.core.net = form.net, !.core.hub = HubOf(form),
                           !.core.adapter = live.core.adapter]

\* validate_config, and what the reading itself refuses.
Valid == form.net # "bad"

\* The daemon has announced the name, or has not; a field is invalid.
SaveRejected(w) ==
    /\ saver[w].at = "identity" /\ ~Valid
    /\ announced' \in {announced, saver[w].draft.core.name}
    /\ saver' = [saver EXCEPT ![w] = Still]
    /\ told' = "none"
    /\ UNCHANGED <<live, tuiFile, coreFile, bridge, editor, form, theme, touches>>

\* Memory first, then tui.yaml, which may fail, then the daemon.
SaveDrafted(w) ==
    /\ saver[w].at = "identity" /\ Valid
    /\ announced' \in {announced, saver[w].draft.core.name}
    /\ live' = Drafted(w)
    /\ \/ /\ tuiFile' = [theme |-> live'.theme, legacy |-> "none"]
          /\ saver' = [saver EXCEPT ![w] = [at |-> "core", sent |-> live'.core]]
          /\ UNCHANGED told
       \/ /\ saver' = [saver EXCEPT ![w] = Still]
          /\ told' = "none"
          /\ UNCHANGED tuiFile
    /\ UNCHANGED <<coreFile, bridge, editor, form, theme, touches>>

\* Without a daemon nothing is sent, and the save counts as one.
SaveSucceeds(w) ==
    /\ saver[w].at = "core"
    /\ coreFile' = IF bridge THEN saver[w].sent ELSE coreFile
    /\ saver' = [saver EXCEPT ![w] = Still]
    /\ editor' = IF editor = "open" THEN "leaving" ELSE editor
    /\ told' = IF bridge /\ told = "saving" THEN "saved" ELSE "none"
    /\ UNCHANGED <<live, tuiFile, announced, bridge, form, theme, touches>>

SaveFails(w) ==
    /\ saver[w].at = "core" /\ bridge
    /\ coreFile' \in {coreFile, saver[w].sent}
    /\ saver' = [saver EXCEPT ![w] = Still]
    /\ told' = "none"
    /\ UNCHANGED <<live, tuiFile, announced, bridge, editor, form, theme, touches>>

\* call_later(dismiss): the theme is left as it is shown.
DismissSettings ==
    /\ editor = "leaving"
    /\ Closes
    /\ told' = IF \E w \in Saver : Saving(w) THEN "none" ELSE told
    /\ UNCHANGED <<live, tuiFile, bridge, form, theme, touches>>

BridgeChanges ==
    /\ Touch
    /\ bridge' = ~bridge
    /\ UNCHANGED <<live, tuiFile, coreFile, announced, editor, form, theme, saver, told>>

\* The program starts again: a legacy name is moved to the core configuration.
LoadsAgain ==
    /\ Touch
    /\ live' = LoadConfig
    /\ coreFile' = IF Migrates(LoadCore(coreFile)) THEN live'.core ELSE coreFile
    /\ editor' = "closed"
    /\ saver' = [w \in Saver |-> Still]
    /\ theme' = [shown |-> live'.theme, applied |-> live'.theme, committed |-> FALSE]
    /\ told' = "none"
    /\ form' = FormOf(live')
    /\ UNCHANGED <<tuiFile, announced, bridge>>

SettingsNext ==
    \/ OpenSettings \/ \E f \in Form : EditField(f)
    \/ OnAdapterToggle \/ \E t \in Theme : PreviewTheme(t)
    \/ OnApplyTheme \/ Cancel \/ PopSettings \/ ResetConfig
    \/ \E w \in Saver : \/ \E button \in BOOLEAN : SaveBegins(w, button)
                        \/ SaveRejected(w) \/ SaveDrafted(w)
                        \/ SaveSucceeds(w) \/ SaveFails(w)
    \/ DismissSettings \/ BridgeChanges \/ LoadsAgain

SettingsSpec == SettingsInit /\ [][SettingsNext]_settingsVars

-----------------------------------------------------------------------------
(* Properties.                                                             *)

\* A save that is reported, with nothing touched that it could not have seen,
\* is what the next start loads: every field of the form, and the adapter that was turned
\* off while the daemon was asked.
SavedIsLoaded ==
    told = "saved" =>
        LET asked == [name |-> form.name, net |-> form.net, hub |-> HubOf(form),
                      adapter |-> form.adapter] IN
        LoadConfig = [core |-> LoadCore(asked), theme |-> live.theme]
===============================================================================
