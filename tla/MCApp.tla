-------------------------------- MODULE MCApp ---------------------------------
(* The modules of the terminal user interface for one run of TLC: in a        *)
(* behaviour one of them steps, which is chosen at the start; the others      *)
(* stay where nothing has started.                                            *)
EXTENDS ChatWidget, ChatComposer, DeviceViews, SettingsEditor

VARIABLE subject

MCInit ==
    /\ subject \in {"chat", "composer", "views", "settings"}
    /\ ChatInit /\ ComposerInit /\ ViewsInit /\ SettingsInit
    /\ subject # "chat" => stored = <<>>
    /\ subject # "settings" => coreFile = Default /\ tuiFile.legacy = "none"

MCNext ==
    /\ UNCHANGED subject
    /\ \/ subject = "chat" /\ ChatNext /\ UNCHANGED <<composerVars, viewsVars, settingsVars>>
       \/ subject = "composer" /\ ComposerNext /\ UNCHANGED <<chatVars, viewsVars, settingsVars>>
       \/ subject = "views" /\ ViewsNext /\ UNCHANGED <<chatVars, composerVars, settingsVars>>
       \/ subject = "settings" /\ SettingsNext /\ UNCHANGED <<chatVars, composerVars, viewsVars>>

MCVars == <<subject, chatVars, composerVars, viewsVars, settingsVars>>
MCSpec ==
    /\ MCInit /\ [][MCNext]_MCVars
    /\ ChatFairness /\ ViewsFairness

\* The types of every module's state.
AppTypeOK == ChatTypeOK /\ ComposerTypeOK /\ ViewsTypeOK /\ SettingsTypeOK

\* What a table shows is what the program holds, however refreshes overlap, and
\* what a save reported is what the next start finds; nothing of a view runs on
\* when it has gone.  What the user attaches to a message goes with that one alone, and a
\* message is deleted only after it was asked twice.
ViewsAreTrue ==
    /\ TablesFollowCache /\ SavedIsLoaded /\ ChatReleased
    /\ AttachedOnce /\ DeletedWasMeant

\* Whatever changes is shown at last, though events are lost and fetches fail: the chat
\* never takes a message for shown that is not, so that no refresh would bring it.
ViewsCatchUp == []NothingIsMissing /\ ChatCatchesUp /\ AnnounceIsShown
===============================================================================
