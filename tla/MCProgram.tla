------------------------------- MODULE MCProgram -------------------------------
(* The parts of the program that work on their own, for one run of TLC: in a  *)
(* behaviour one of the modules steps, which is chosen at the start; the       *)
(* others stay where nothing has started.                                      *)
EXTENDS IPCStream, Forge, PageBrowser, DeviceTerminal, DeviceDetail,
        IdentityFiles, ConfigFile, MeshMessages, CommandLine, MessageDatabase, TerminalStream,
        ProtocolDispatch, AttachmentStore, NodeTables

CONSTANTS n1, n2, u1, r1, a1, a2, v1, v2, g2, m1
MCAppOrder == <<a1, a2>>
MCOffers == <<n1, u1>>
MCRanked == <<"sa", "sb", "la", "lb", "pc">>
MCTypeOf == "sa" :> "styrene" @@ "sb" :> "styrene" @@ "la" :> "lxmf" @@ "lb" :> "lxmf" @@ "pc" :> "pages"
MCWhoseIs == "sa" :> "i1" @@ "sb" :> "i1" @@ "la" :> "i1" @@ "lb" :> "i2" @@ "pc" :> "i2"
MCIdentityOf == "d1" :> "i1" @@ "d2" :> "i1" @@ "d3" :> "i3"

VARIABLE subject

ipcVars == <<streamVars, messageVars>>
storeVars == <<identityVars, configVars>>
pathsVars == <<dispatchVars, attachmentVars, tablesVars>>
meshesVars == <<meshVars, commandVars, databaseVars, flowVars, pathsVars>>

\* A bound: the first change is of any field while one process is at work, or of the
\* profile; all others are of one field of each way to be written and read.
Few == {"display_name", "propagation_destination", "provider", "rp_id", "peers"}
ChangesSeen ==
    \/ changes' = changes
    \/ /\ Cardinality(Busy) = 1
       /\ changes = 0 \/ \E e \in Editor : editing'[e].conf.profile # editing[e].conf.profile
    \/ \E e \in Editor : \E f \in Few : Get(editing'[e].conf, f) # Get(editing[e].conf, f)

\* A bound: the sessions open in this order, and two chunks or inputs in all.
FewInputs ==
    /\ session'[v2] = "new" \/ session'[v1] # "new"
    /\ written'[v1] + written'[v2] + typed'[v1] + typed'[v2] <= 2

\* A bound: nobody sends and two messages arrive while handlers change, or one
\* arrives and anything else may fail, or messages are sent and one arrives.
OneWay ==
    /\ recalled' \cup mapped' = {} \/ registrations' = 0
    /\ inbound'[g2].at = "away" \/ (protocols' \cup recalled' \cup mapped' = {} /\ ends' + dbErrors' = 0)
    /\ registrations' = 0 \/ \A o \in Sending : outbound'[o].at = "away"

\* A bound: one deletion, freeing of space, failure of the disk or death.
OneMishap == deletes' + evictions' + diskErrors' + deaths' <= 1

MCInit ==
    /\ subject \in {"forge", "browser", "terminal", "detail", "answers", "events", "messages", "identity",
                   "config", "mesh", "command", "database", "stream", "dispatch",
                   "attachments", "nodes"}
    /\ MessagesInit /\ (subject = "messages" \/ letter = [kind |-> "ping", own |-> {}, timeout |-> 0])
    /\ ForgeInit /\ (subject = "forge" \/ handler = "none")
    /\ FlowInit /\ channel[v2] /\ (subject = "stream" \/ channel[v1])
    /\ CommandInit /\ (subject = "command" \/ verb = "send")
    /\ DatabaseInit /\ (subject = "database" \/ schema = "none")
    /\ MeshInit /\ (subject = "mesh" \/ (note.kind = "noop" /\ harm = "none"))
    /\ StreamInit /\ BrowserInit /\ TerminalInit /\ DetailInit /\ IdentityInit /\ ConfigInit /\ DispatchInit
    /\ TablesInit /\ AttachmentInit /\ attachment[m1].of = "p1" /\ Cardinality(DOMAIN files) # 1
    /\ subject = "attachments" \/ (folders = {} /\ \A m \in Message : attachment[m].of = "p1")

MCNext ==
    /\ UNCHANGED subject
    /\ \/ /\ subject = "forge" /\ ForgeNext
          /\ UNCHANGED <<ipcVars, browserVars, terminalVars, deviceVars, storeVars, meshesVars>>
       \/ /\ subject = "browser" /\ BrowserNext
          /\ UNCHANGED <<ipcVars, forgeVars, terminalVars, deviceVars, storeVars, meshesVars>>
       \/ /\ subject = "terminal" /\ TerminalNext
          /\ UNCHANGED <<ipcVars, forgeVars, browserVars, deviceVars, storeVars, meshesVars>>
       \/ /\ subject = "detail" /\ DetailNext
          /\ UNCHANGED <<ipcVars, forgeVars, browserVars, terminalVars, storeVars, meshesVars>>
       \/ /\ subject = "answers" /\ StreamNext /\ UNCHANGED <<messageVars, feedVars>>
          /\ UNCHANGED <<forgeVars, browserVars, terminalVars, deviceVars, storeVars, meshesVars>>
       \/ /\ subject = "events" /\ StreamNext /\ UNCHANGED messageVars
          /\ \A r \in Request \ {r1} : fate'[r] = "new"
          /\ faults' = 0
          /\ UNCHANGED <<forgeVars, browserVars, terminalVars, deviceVars, storeVars, meshesVars>>
       \/ /\ subject = "messages" /\ MessagesNext /\ UNCHANGED streamVars
          /\ UNCHANGED <<forgeVars, browserVars, terminalVars, deviceVars, storeVars, meshesVars>>
       \/ /\ subject = "identity" /\ IdentityNext
          /\ calls' + commands' + damages' <= 2 \/ (calls' = 0 /\ damages' = 0) \/ commands' = 0
          /\ UNCHANGED <<ipcVars, forgeVars, browserVars, terminalVars, deviceVars, configVars, meshesVars>>
       \/ /\ subject = "config" /\ ConfigNext /\ ChangesSeen
          /\ UNCHANGED <<ipcVars, forgeVars, browserVars, terminalVars, deviceVars, identityVars, meshesVars>>
       \/ /\ UNCHANGED <<ipcVars, forgeVars, browserVars, terminalVars, deviceVars, storeVars>>
          /\ \/ subject = "mesh" /\ MeshNext /\ UNCHANGED <<commandVars, databaseVars, flowVars, pathsVars>>
             \/ subject = "command" /\ CommandNext /\ UNCHANGED <<meshVars, databaseVars, flowVars, pathsVars>>
             \/ subject = "database" /\ DatabaseNext /\ UNCHANGED <<meshVars, commandVars, flowVars, pathsVars>>
             \/ subject = "stream" /\ FlowNext /\ FewInputs
                   /\ UNCHANGED <<meshVars, commandVars, databaseVars, pathsVars>>
             \/ subject = "dispatch" /\ DispatchNext /\ OneWay
                   /\ UNCHANGED <<meshVars, commandVars, databaseVars, flowVars, attachmentVars, tablesVars>>
             \/ subject = "attachments" /\ AttachmentNext /\ OneMishap
                   /\ UNCHANGED <<meshVars, commandVars, databaseVars, flowVars, dispatchVars, tablesVars>>
             \/ subject = "nodes" /\ TablesNext /\ (news' = 0 \/ acts' <= 3)
                   /\ UNCHANGED <<meshVars, commandVars, databaseVars, flowVars, dispatchVars, attachmentVars>>

MCVars == <<subject, ipcVars, forgeVars, browserVars, terminalVars, deviceVars, storeVars, meshesVars>>
MCSpec == MCInit /\ [][MCNext]_MCVars

\* The types of the module's state that steps.
ProgramTypeOK ==
    CASE subject = "forge" -> ForgeTypeOK
      [] subject = "browser" -> BrowserTypeOK
      [] subject = "terminal" -> TerminalTypeOK
      [] subject = "detail" -> DetailTypeOK
      [] subject \in {"answers", "events"} -> StreamTypeOK
      [] subject = "messages" -> MessagesTypeOK
      [] subject = "identity" -> IdentityTypeOK
      [] subject = "config" -> ConfigTypeOK
      [] subject = "mesh" -> MeshTypeOK
      [] subject = "command" -> CommandTypeOK
      [] subject = "database" -> DatabaseTypeOK
      [] subject = "stream" -> FlowTypeOK
      [] subject = "dispatch" -> DispatchTypeOK
      [] subject = "attachments" -> AttachmentTypeOK
      [] subject = "nodes" -> TablesTypeOK

\* An image is written to the disk the user has confirmed, is complete when the
\* screen says so, and the watch for its node ends with the screen; no identity
\* is lost to a command or a start, and the one a start returns is the one on disk;
\* what is configured is read back as it was saved, no contact is lost when the
\* database is brought up to date, a message has its row, and an attachment is there
\* whole until somebody deletes it.
DiskIsTrue ==
    CASE subject = "forge" -> ConfirmedIsWritten /\ CompleteIsTrue /\ WatchIsReleased
      [] subject = "identity" -> IdentitiesKept /\ EnsuredIsStored /\ LinksAreKnown
      [] subject = "config" -> ConfigReadsBack /\ ChangesAreKept
      [] subject = "database" -> ContactsSurvive /\ OpeningFailsAfterDeath /\ SearchFindsStored
      [] subject = "dispatch" -> RecordsAreTrue
      [] subject = "attachments" -> StoredIsWhole /\ SavedIsKept /\ SaveFailsForReason /\ FilesStayWithPeer
      [] OTHER -> TRUE

\* A request gets its own answer, a session its own output and input, an event one
\* reader, and a message its handlers and its owner; what a screen shows is what was
\* asked for last and is still so, whichever of its workers, answers and events
\* comes first.
ScreenIsTrue ==
    CASE subject \in {"answers", "events"} -> AnswerIsOwn /\ EventsOnce
      [] subject = "messages" -> RequestReadsBack
      [] subject = "mesh" -> MessageReadsBack /\ CallReturnsItsAnswer
      [] subject = "stream" -> OutputIsOwn /\ InputIsOwn /\ ExitIsLast
      [] subject = "dispatch" -> HandlersHaveIt /\ GoesToOwner
      [] subject = "browser" -> PageIsTrue /\ BackIsHome /\ PathIsShown
      [] subject = "terminal" -> PaneIsTrue
      [] subject = "detail" -> StatusNeverAges
      [] subject = "nodes" -> FilterIsBar /\ OpenedIsSelected /\ TablesAgree /\ CursorStaysOnNode
      [] OTHER -> TRUE

\* No session, worker or button outlives what started it, or acts twice.
NothingLeftRunning ==
    CASE subject = "terminal" -> NoSessionLeft
      [] subject = "detail" -> SpinnerHasWorker /\ TwoTapsEach
      [] subject = "command" -> ServicesAreStopped
      [] OTHER -> TRUE
===============================================================================
