------------------------------ MODULE ContactBook ------------------------------
(***************************************************************************)
(* The contacts screen (tui/screens/contacts.py) over the screens' common   *)
(* way to load (tui/screens/base.py): a load replaces the one before and    *)
(* ends when the screen is left; saves and deletions do not, and each       *)
(* loads again when it has its answer.                                      *)
(***************************************************************************)
EXTENDS Naturals, FiniteSets

CONSTANTS
    Friend,      \* peers; one more is the text "None" of a row without a key
    Writer,      \* bound: saves and deletions at once
    MaxWrites,   \* bound: saves and deletions
    MaxMishaps   \* bound: requests without an answer

ASSUME BookAssumption == "None" \notin Friend /\ {MaxWrites, MaxMishaps} \subseteq Nat

Hash == Friend \cup {"None"}
Note == {"empty", "own", "last message"}

VARIABLES
    contacts,     \* the daemon's: their notes
    on_top,       \* the screen is
    load_worker,  \* where _run_load is: "none", "asks", "reads", and what it has
    first_load_done, indicator,
    rows,         \* of #contacts-table
    form,         \* #edit-form: of which contact, its notes
    writers,      \* _save_contact and _delete_contact
    writes, mishaps,
    unheard       \* a request had an effect and no answer, or a read failed

bookVars == <<contacts, on_top, load_worker, first_load_done, indicator, rows, form, writers,
              writes, mishaps, unheard>>

NotLoading == [at |-> "none", seen |-> {}]
Closed == [peer |-> "closed", notes |-> "empty"]
NoWrite == [does |-> "nothing", at |-> "none", peer |-> "None", notes |-> "empty"]

BookTypeOK ==
    /\ DOMAIN contacts \subseteq Hash /\ \A p \in DOMAIN contacts : contacts[p] \in Note
    /\ {on_top, first_load_done, indicator, unheard} \subseteq BOOLEAN
    /\ load_worker \in [at : {"none", "asks", "reads"}, seen : SUBSET Hash]
    /\ rows \subseteq Hash /\ form \in [peer : Hash \cup {"closed", "new"}, notes : Note]
    /\ writers \in [Writer -> [does : {"nothing", "save", "delete"}, peer : Hash, notes : Note,
                             at : {"none", "starts", "asks", "answered"}]]
    /\ writes \in 0..MaxWrites /\ mishaps \in 0..MaxMishaps

BookInit ==
    /\ contacts \in {[p \in s |-> "own"] : s \in SUBSET Friend}
    /\ on_top = FALSE /\ load_worker = NotLoading /\ first_load_done = FALSE /\ indicator = FALSE
    /\ rows = {} /\ form = Closed /\ writers = [w \in Writer |-> NoWrite]
    /\ writes = 0 /\ mishaps = 0 /\ unheard = FALSE

-----------------------------------------------------------------------------
(* Loading (StyreneScreen).                                                 *)

\* Mutant of StartLoad: a load that runs is left to finish.
StartLoadOnce == load_worker' = IF load_worker.at = "none" THEN [at |-> "asks", seen |-> {}] ELSE load_worker

StartLoad == load_worker' = [at |-> "asks", seen |-> {}]

\* Mounted, or shown again.
ScreenShown ==
    /\ ~on_top /\ on_top' = TRUE /\ StartLoad
    /\ UNCHANGED <<contacts, first_load_done, indicator, rows, form, writers, writes, mishaps, unheard>>

ScreenHidden ==
    /\ on_top /\ on_top' = FALSE /\ load_worker' = NotLoading
    /\ UNCHANGED <<contacts, first_load_done, indicator, rows, form, writers, writes, mishaps, unheard>>

\* Without an answer there are no contacts.
LoadAsks ==
    /\ load_worker.at = "asks" /\ indicator' = (indicator \/ ~first_load_done)
    /\ \/ /\ load_worker' = [at |-> "reads", seen |-> DOMAIN contacts]
          /\ unheard' = FALSE /\ UNCHANGED mishaps
       \/ /\ mishaps < MaxMishaps /\ mishaps' = mishaps + 1
          /\ load_worker' = [at |-> "reads", seen |-> {}] /\ unheard' = TRUE
    /\ UNCHANGED <<contacts, on_top, first_load_done, rows, form, writers, writes>>

\* The conversations have come, or not.
LoadEnds ==
    /\ load_worker.at = "reads" /\ load_worker' = NotLoading
    /\ rows' = load_worker.seen /\ first_load_done' = TRUE /\ indicator' = FALSE
    /\ UNCHANGED <<contacts, on_top, form, writers, writes, mishaps, unheard>>

-----------------------------------------------------------------------------
(* The user.                                                               *)

\* A table without contacts has a row that says so.
Selectable == IF rows = {} THEN {"None"} ELSE rows

\* The third column goes into the notes: it shows the last message.
ActionEdit(p) ==
    /\ on_top /\ p \in Selectable
    /\ \E n \in {"empty", "last message"} : form' = [peer |-> p, notes |-> n]
    /\ UNCHANGED <<contacts, on_top, load_worker, first_load_done, indicator, rows, writers, writes, mishaps, unheard>>

ActionAdd ==
    /\ on_top /\ form' = [peer |-> "new", notes |-> "empty"]
    /\ UNCHANGED <<contacts, on_top, load_worker, first_load_done, indicator, rows, writers, writes, mishaps, unheard>>

\* Only a new contact's hash can be typed.
Type(p) ==
    /\ on_top /\ form.peer # "closed"
    /\ form' = [peer |-> IF form.peer = "new" THEN p ELSE form.peer, notes |-> "own"]
    /\ UNCHANGED <<contacts, on_top, load_worker, first_load_done, indicator, rows, writers, writes, mishaps, unheard>>

CloseForm ==
    /\ on_top /\ form # Closed /\ form' = Closed
    /\ UNCHANGED <<contacts, on_top, load_worker, first_load_done, indicator, rows, writers, writes, mishaps, unheard>>

Write(w, record) ==
    /\ on_top /\ writes < MaxWrites /\ writes' = writes + 1
    /\ writers[w] = NoWrite /\ writers' = [writers EXCEPT ![w] = record]
    /\ UNCHANGED <<contacts, on_top, load_worker, first_load_done, indicator, rows, form, mishaps, unheard>>

PressSave(w) == form # Closed /\ Write(w, [NoWrite EXCEPT !.does = "save", !.at = "starts"])

ActionDeleteContact(w, p) ==
    p \in Selectable /\ Write(w, [NoWrite EXCEPT !.does = "delete", !.at = "asks", !.peer = p])

-----------------------------------------------------------------------------
(* Saves and deletions.                                                     *)

\* The form is read when the worker starts.
SaveStarts(w) ==
    /\ writers[w].at = "starts"
    /\ writers' = [writers EXCEPT ![w] = IF form.peer \in {"closed", "new"} THEN NoWrite
                                         ELSE [@ EXCEPT !.at = "asks", !.peer = form.peer, !.notes = form.notes]]
    /\ UNCHANGED <<contacts, on_top, load_worker, first_load_done, indicator, rows, form, writes, mishaps, unheard>>

Changed(w) ==
    LET p == writers[w].peer
    IN IF writers[w].does = "delete" THEN [q \in DOMAIN contacts \ {p} |-> contacts[q]]
       ELSE [q \in DOMAIN contacts \cup {p} |-> IF q = p THEN writers[w].notes ELSE contacts[q]]

\* Of a request without an answer nobody knows whether it had an effect.
DaemonWrites(w) ==
    /\ writers[w].at = "asks"
    /\ \/ /\ contacts' = Changed(w) /\ writers' = [writers EXCEPT ![w].at = "answered"]
          /\ UNCHANGED <<mishaps, unheard>>
       \/ /\ mishaps < MaxMishaps /\ mishaps' = mishaps + 1
          /\ writers' = [writers EXCEPT ![w] = NoWrite]
          /\ contacts' \in {contacts, Changed(w)} /\ unheard' = TRUE
    /\ UNCHANGED <<on_top, load_worker, first_load_done, indicator, rows, form, writes>>

\* A save closes the form, of whichever contact it is by now.
WriteReturns(w) ==
    /\ writers[w].at = "answered" /\ StartLoad
    /\ writers' = [writers EXCEPT ![w] = NoWrite]
    /\ form' = IF writers[w].does = "save" THEN Closed ELSE form
    /\ UNCHANGED <<contacts, on_top, first_load_done, indicator, rows, writes, mishaps, unheard>>

BookNext ==
    \/ ScreenShown \/ ScreenHidden \/ LoadAsks \/ LoadEnds \/ ActionAdd \/ CloseForm
    \/ \E p \in Hash : ActionEdit(p)
    \/ \E p \in Friend : Type(p)
    \/ \E w \in Writer : \/ PressSave(w) \/ SaveStarts(w) \/ DaemonWrites(w) \/ WriteReturns(w)
                         \/ \E p \in Hash : ActionDeleteContact(w, p)

BookSpec == BookInit /\ [][BookNext]_bookVars

-----------------------------------------------------------------------------
(* Properties.                                                             *)

\* When nothing is under way, the screen that is on top shows the daemon's contacts and
\* no indicator, in whatever order saves, deletions and loads were answered; unless a
\* request failed and no load has worked since.
ContactsAreShown ==
    on_top /\ load_worker.at = "none" /\ ~unheard /\ (\A w \in Writer : writers[w] = NoWrite) =>
        rows = DOMAIN contacts /\ ~indicator
================================================================================
