---------------------------- MODULE AttachmentStore ----------------------------
(***************************************************************************)
(* The files of received attachments (services/attachment_store.py): threads  *)
(* that save, rename and delete in a directory per peer, one that frees space, *)
(* a disk that fails and a process that dies.  Each step is one call to the     *)
(* file system.  All attachments have the same name, so that a path is its       *)
(* directory and the identifier of the message; the peers share the first        *)
(* eight characters of their addresses, as far as a legacy directory goes.       *)
(***************************************************************************)
EXTENDS Naturals, Sequences, FiniteSets, Functions, SequencesExt

CONSTANTS Message, Sender,  \* sender: peers
          StorageBudget,     \* in files, all of one size
          MaxDeletes, MaxEvictions, MaxDiskErrors, MaxDeaths \* bounds

ASSUME AttachmentAssumption ==
    /\ StorageBudget \in Nat /\ IsFiniteSet(Sender)
    /\ MaxDeletes \in Nat /\ MaxEvictions \in Nat /\ MaxDiskErrors \in Nat /\ MaxDeaths \in Nat

Legacy == "legacy"
Unnumbered == "0"
\* No message is a peer, none is numbered 0, and no peer is called "legacy".
ASSUME AttachmentNames ==
    Message \cap (Sender \cup {Unnumbered}) = {} /\ Sender \cap {Legacy, Unnumbered} = {}

Dir == Sender \cup {Legacy}
\* A file of the legacy directory has the number of its peer here.
FilePath == [dir : Dir, id : Message \cup Sender \cup {Unnumbered}, tmp : BOOLEAN]
NoPath == [dir |-> Legacy, id |-> Unnumbered, tmp |-> FALSE]
FileNode == Message \cup Sender

VARIABLES
    folders, files,    \* the directories, and the file of each path
    openedBy, wrote, \* of each file: who has opened it to write, and who has written
    ages,           \* the files, the one last written at the end
    attachment,     \* of each message: where its thread is, its peer, and its path
    deletion,       \* the deletion for a peer: where it is, whose, and its listing
    eviction,       \* the freeing of space: where it is, what is over, its listing
    deletes, evictions, diskErrors, deaths,
    forgotten, removed, clashed \* what may be missing: peers deleted, messages whose data was
                                 \* removed, messages whose path another has used

attachmentVars == <<folders, files, openedBy, wrote, ages, attachment, deletion, eviction, deletes, evictions,
                    diskErrors, deaths, forgotten, removed, clashed>>
storedVars == <<folders, files, openedBy, wrote, ages>>
countVars == <<deletes, evictions, diskErrors, deaths>>
historyVars == <<forgotten, removed, clashed>>

IdleDeletion == [at |-> "idle", of |-> Legacy, left |-> {}]
IdleEviction == [at |-> "idle", over |-> 0, left |-> <<>>, folders |-> {}]
ThreadAt(m, state) == attachment[m].at = state
ThreadGoes(m, state) == attachment' = [attachment EXCEPT ![m].at = state]
Temporary(p) == [dir |-> p.dir, id |-> p.id, tmp |-> TRUE]
Inside(d) == {p \in DOMAIN files : p.dir = d}
Unlinked(p) == Restrict(files, DOMAIN files \ {p})
\* rename(2) of one file, onto whatever is there.
Moved(from, to) == [p \in (DOMAIN files \ {from}) \cup {to} |-> IF p = to THEN files[from] ELSE files[p]]
Underway == {"migrating", "making", "opening", "writing", "renaming"}
\* Saved without its number: it may still get it, or the process has died.
Unnamed == {"saved", "left"}

AttachmentTypeOK ==
    /\ folders \subseteq Dir /\ DOMAIN files \subseteq FilePath
    /\ \A p \in DOMAIN files : files[p] \in FileNode /\ p.dir \in folders
    /\ \A f \in FileNode : openedBy[f] \subseteq Message /\ wrote[f] \subseteq openedBy[f]
    /\ ToSet(ages) \subseteq FileNode
    /\ \A m \in Message :
          /\ attachment[m].at \in Underway \cup Unnamed \cup {"new", "numbered", "failed", "dead"}
          /\ attachment[m].of \in Sender /\ attachment[m].path \in FilePath
    /\ deletion.at \in {"idle", "listing", "unlinking"} /\ deletion.left \subseteq FilePath /\ deletion.of \in Dir
    /\ eviction.at \in {"idle", "listing", "evicting", "tidying"} /\ eviction.over \in Nat
    /\ ToSet(eviction.left) \subseteq FilePath /\ eviction.folders \subseteq Dir
    /\ deletes \in 0..MaxDeletes /\ evictions \in 0..MaxEvictions
    /\ diskErrors \in 0..MaxDiskErrors /\ deaths \in 0..MaxDeaths
    /\ forgotten \subseteq Sender /\ removed \subseteq Message /\ clashed \subseteq Message

\* A legacy directory may be there, with files of some of the peers.
AttachmentInit ==
    /\ \E old \in SUBSET Sender :
          /\ folders = IF old = {} THEN {} ELSE {Legacy}
          /\ files = [p \in {[dir |-> Legacy, id |-> s, tmp |-> FALSE] : s \in old} |-> p.id]
          /\ ages \in {q \in [1..Cardinality(old) -> old] : IsInjective(q)}
    /\ openedBy = [f \in FileNode |-> {}] /\ wrote = [f \in FileNode |-> {}]
    /\ attachment \in [Message -> {[at |-> "new", of |-> s, path |-> NoPath] : s \in Sender}]
    /\ deletion = IdleDeletion /\ eviction = IdleEviction
    /\ deletes = 0 /\ evictions = 0 /\ diskErrors = 0 /\ deaths = 0
    /\ forgotten = {} /\ removed = {} /\ clashed = {}

-----------------------------------------------------------------------------
(* Saving.                                                                   *)

\* save, with the number of the message or before it has one, looks for the directory.
SaveLooks(m) ==
    /\ ThreadAt(m, "new")
    /\ \E id \in {m, Unnumbered} :
          LET target == [dir |-> attachment[m].of, id |-> id, tmp |-> FALSE]
              others == {n \in Message \ {m} : attachment[n].path = target
                                             /\ attachment[n].at \in Underway \cup Unnamed} IN
          /\ attachment' = [attachment EXCEPT ![m] =
                [@ EXCEPT !.at = IF attachment[m].of \in folders THEN "making" ELSE "migrating", !.path = target]]
          /\ clashed' = IF others = {} THEN clashed ELSE clashed \cup others \cup {m}
    /\ UNCHANGED <<storedVars, deletion, eviction, deletes, evictions, diskErrors, deaths, forgotten, removed>>

\* The legacy directory becomes the peer's, unless that has come up with files in it.
TakesLegacy(m) ==
    /\ ThreadAt(m, "migrating") /\ ThreadGoes(m, "making")
    /\ LET new == attachment[m].of IN
       IF Legacy \in folders /\ Inside(new) = {}
       THEN /\ folders' = (folders \ {Legacy}) \cup {new}
            /\ files' = [p \in {IF q.dir = Legacy THEN [q EXCEPT !.dir = new] ELSE q : q \in DOMAIN files} |->
                            IF p \in DOMAIN files THEN files[p] ELSE files[[p EXCEPT !.dir = Legacy]]]
       ELSE UNCHANGED <<folders, files>>
    /\ UNCHANGED <<openedBy, wrote, ages, deletion, eviction, countVars, historyVars>>

MakesDir(m) ==
    /\ ThreadAt(m, "making") /\ ThreadGoes(m, "opening") /\ folders' = folders \cup {attachment[m].path.dir}
    /\ UNCHANGED <<files, openedBy, wrote, ages, deletion, eviction, countVars, historyVars>>

\* Mutant of OpensFile: the file is written in its place.
OpensTarget(m) ==
    LET path == attachment[m].path IN
    /\ ThreadAt(m, "opening") /\ ThreadGoes(m, "writing") /\ path.dir \in folders
    /\ LET f == IF path \in DOMAIN files THEN files[path] ELSE m IN
       /\ files' = [p \in DOMAIN files \cup {path} |-> IF p = path THEN f ELSE files[p]]
       /\ openedBy' = [openedBy EXCEPT ![f] = @ \cup {m}] /\ wrote' = [wrote EXCEPT ![f] = {}]
    /\ UNCHANGED <<folders, ages, deletion, eviction, countVars, historyVars>>

\* The temporary file is made, or emptied if another save has made it; a directory
\* that is gone by now fails the save.
OpensFile(m) ==
    LET path == Temporary(attachment[m].path) IN
    /\ ThreadAt(m, "opening")
    /\ \/ /\ path.dir \notin folders /\ ThreadGoes(m, "failed") /\ UNCHANGED <<files, openedBy, wrote>>
       \/ /\ path.dir \in folders /\ ThreadGoes(m, "writing")
          /\ LET f == IF path \in DOMAIN files THEN files[path] ELSE m IN
             /\ files' = [p \in DOMAIN files \cup {path} |-> IF p = path THEN f ELSE files[p]]
             /\ openedBy' = [openedBy EXCEPT ![f] = {n \in @ : ~ThreadAt(n, "dead")} \cup {m}]
             /\ wrote' = [wrote EXCEPT ![f] = {}]
    /\ UNCHANGED <<folders, ages, deletion, eviction, countVars, historyVars>>

\* What is written goes to the file that was opened, whatever its path is now; a
\* failure unlinks the path.
WritesFile(m) ==
    LET path == Temporary(attachment[m].path)
        f == CHOOSE g \in FileNode : m \in openedBy[g]
        older == IF f \in ToSet(ages) THEN RemoveAt(ages, CHOOSE i \in DOMAIN ages : ages[i] = f) ELSE ages IN
    /\ ThreadAt(m, "writing")
    /\ \/ /\ ThreadGoes(m, "renaming") /\ UNCHANGED <<files, diskErrors>>
          /\ wrote' = [wrote EXCEPT ![f] = @ \cup {m}] /\ ages' = Append(older, f)
       \/ /\ diskErrors < MaxDiskErrors /\ diskErrors' = diskErrors + 1 /\ ThreadGoes(m, "failed")
          /\ files' = Unlinked(path) /\ UNCHANGED <<wrote, ages>>
    /\ UNCHANGED <<folders, openedBy, deletion, eviction, deletes, evictions, deaths, historyVars>>

\* If another has taken it away, the save fails.
RenamesFile(m) ==
    LET path == attachment[m].path IN
    /\ ThreadAt(m, "renaming")
    /\ IF Temporary(path) \in DOMAIN files
       THEN ThreadGoes(m, "saved") /\ files' = Moved(Temporary(path), path)
       ELSE ThreadGoes(m, "failed") /\ UNCHANGED files
    /\ UNCHANGED <<folders, openedBy, wrote, ages, deletion, eviction, countVars, historyVars>>

\* rename_for_message: a file that is not there keeps its old path.
RenamesForMessage(m) ==
    LET path == attachment[m].path
        new == [path EXCEPT !.id = m] IN
    /\ ThreadAt(m, "saved") /\ path.id = Unnumbered
    /\ IF path \in DOMAIN files
       THEN /\ files' = Moved(path, new)
            /\ attachment' = [attachment EXCEPT ![m] = [@ EXCEPT !.at = "numbered", !.path = new]]
       ELSE ThreadGoes(m, "numbered") /\ UNCHANGED files
    /\ UNCHANGED <<folders, openedBy, wrote, ages, deletion, eviction, countVars, historyVars>>

-----------------------------------------------------------------------------
(* Deleting and freeing space.                                             *)

\* delete: whatever has the path of a message now.
DeleteFile(m) ==
    LET path == attachment[m].path IN
    /\ ThreadAt(m, "numbered") /\ path \in DOMAIN files
    /\ deletes < MaxDeletes /\ deletes' = deletes + 1
    /\ files' = Unlinked(path) /\ removed' = removed \cup {m} \cup wrote[files[path]]
    /\ UNCHANGED <<folders, openedBy, wrote, ages, attachment, deletion, eviction, evictions, diskErrors, deaths,
                   forgotten, clashed>>

\* delete_for_peer: the directory of the peer or, without it, the legacy one.
DeleteBegins(s) ==
    /\ deletion.at = "idle" /\ deletes < MaxDeletes /\ deletes' = deletes + 1
    /\ LET d == IF s \in folders THEN s ELSE Legacy IN
       /\ d \in folders /\ deletion' = [at |-> "listing", of |-> d, left |-> {}]
       /\ forgotten' = forgotten \cup IF d = Legacy THEN Sender ELSE {s}
    /\ UNCHANGED <<storedVars, attachment, eviction, evictions, diskErrors, deaths, removed, clashed>>

\* What is in the directory now; without it the deletion raises.
DeleteLists ==
    /\ deletion.at = "listing"
    /\ deletion' = IF deletion.of \in folders
                   THEN [deletion EXCEPT !.at = "unlinking", !.left = Inside(deletion.of)] ELSE IdleDeletion
    /\ UNCHANGED <<storedVars, attachment, eviction, countVars, historyVars>>

\* One file after the other; one that has gone since is passed over, or raises if it
\* goes just then. At last the directory, if it is empty.
DeleteUnlinks ==
    /\ deletion.at = "unlinking"
    /\ \/ \E p \in deletion.left :
             /\ files' = Unlinked(p) /\ UNCHANGED folders
             /\ \/ deletion' = [deletion EXCEPT !.left = @ \ {p}]
                \/ p \notin DOMAIN files /\ deletion' = IdleDeletion
       \/ /\ deletion.left = {} /\ deletion' = IdleDeletion /\ UNCHANGED files
          /\ folders' = IF Inside(deletion.of) = {} THEN folders \ {deletion.of} ELSE folders
    /\ UNCHANGED <<openedBy, wrote, ages, attachment, eviction, countVars, historyVars>>

\* get_usage counts temporary files too.
EnforceMeasures ==
    /\ eviction.at = "idle" /\ evictions < MaxEvictions /\ evictions' = evictions + 1
    /\ LET used == Cardinality(DOMAIN files) IN
       /\ used > StorageBudget /\ eviction' = [IdleEviction EXCEPT !.at = "listing", !.over = used - StorageBudget]
    /\ UNCHANGED <<storedVars, attachment, deletion, deletes, diskErrors, deaths, historyVars>>

\* They are not listed; the oldest comes first, and files of one time in any order.
EnforceLists ==
    /\ eviction.at = "listing"
    /\ LET Listed == {p \in DOMAIN files : ~p.tmp}
           Older(p, q) == \E i, j \in DOMAIN ages : ages[i] = files[p] /\ ages[j] = files[q] /\ i < j IN
       \E list \in [1..Cardinality(Listed) -> Listed] :
          /\ IsInjective(list) /\ \A i, j \in DOMAIN list : i < j => ~Older(list[j], list[i])
          /\ eviction' = [eviction EXCEPT !.at = "evicting", !.left = list]
    /\ UNCHANGED <<storedVars, attachment, deletion, countVars, historyVars>>

\* Whatever has the path now is unlinked; a path that has gone frees nothing.
EnforceEvicts ==
    /\ eviction.at = "evicting"
    /\ IF eviction.over = 0 \/ eviction.left = <<>>
       THEN eviction' = [eviction EXCEPT !.at = "tidying", !.folders = folders] /\ UNCHANGED <<files, removed>>
       ELSE LET p == Head(eviction.left) IN
            IF p \in DOMAIN files
            THEN /\ files' = Unlinked(p) /\ removed' = removed \cup wrote[files[p]]
                 /\ eviction' = [eviction EXCEPT !.left = Tail(@), !.over = @ - 1]
            ELSE eviction' = [eviction EXCEPT !.left = Tail(@)] /\ UNCHANGED <<files, removed>>
    /\ UNCHANGED <<folders, openedBy, wrote, ages, attachment, deletion, deletes, evictions, diskErrors, deaths,
                   forgotten, clashed>>

\* Empty directories go, also one that a save has just made.
EnforceTidies ==
    /\ eviction.at = "tidying"
    /\ \/ eviction.folders = {} /\ eviction' = IdleEviction /\ UNCHANGED folders
       \/ \E d \in eviction.folders :
             /\ eviction' = [eviction EXCEPT !.folders = @ \ {d}]
             /\ folders' = IF Inside(d) = {} THEN folders \ {d} ELSE folders
    /\ UNCHANGED <<files, openedBy, wrote, ages, attachment, deletion, countVars, historyVars>>

\* The process dies; what is on disk stays as it is.
StoreDies ==
    /\ deaths < MaxDeaths /\ deaths' = deaths + 1
    /\ attachment' = [m \in Message |-> IF attachment[m].at \in Underway THEN [attachment[m] EXCEPT !.at = "dead"]
                                        ELSE IF ThreadAt(m, "saved") THEN [attachment[m] EXCEPT !.at = "left"]
                                        ELSE attachment[m]]
    /\ deletion' = IdleDeletion /\ eviction' = IdleEviction
    /\ UNCHANGED <<storedVars, deletes, evictions, diskErrors, historyVars>>

AttachmentNext ==
    \/ \E m \in Message :
          \/ SaveLooks(m) \/ TakesLegacy(m) \/ MakesDir(m)
          \/ OpensFile(m) \/ WritesFile(m) \/ RenamesFile(m) \/ RenamesForMessage(m) \/ DeleteFile(m)
    \/ \E s \in Sender : DeleteBegins(s)
    \/ DeleteLists \/ DeleteUnlinks
    \/ EnforceMeasures \/ EnforceLists \/ EnforceEvicts \/ EnforceTidies \/ StoreDies

AttachmentSpec == AttachmentInit /\ [][AttachmentNext]_attachmentVars

-----------------------------------------------------------------------------
(* Properties.                                                             *)

\* A file that is in its place has been written to its end, by the one message that
\* opened it, whenever the process dies; only two saves of one path at a time may
\* leave a file of which one has written nothing yet, or both have written.
StoredIsWhole ==
    \A p \in DOMAIN files : ~p.tmp => openedBy[files[p]] = wrote[files[p]] \/ openedBy[files[p]] \subseteq clashed

\* What save has returned is at its path with the data of its message, unless it was
\* deleted or space was freed since, the attachments of its peer were deleted, or another attachment of
\* the peer, of the same name, had no number either.
SavedIsKept ==
    \A m \in Message : attachment[m].at \in Unnamed \cup {"numbered"} =>
        LET path == attachment[m].path IN
        \/ path \in DOMAIN files /\ wrote[files[path]] = {m}
        \/ m \in removed \cup clashed \/ path.dir \in forgotten

\* A save fails only with the disk, by another save of its path, or if a deletion or the
\* freeing of space takes its directory or its temporary file away.
SaveFailsForReason ==
    \A m \in Message : ThreadAt(m, "failed") =>
        diskErrors > 0 \/ m \in clashed \/ attachment[m].of \in forgotten \/ evictions > 0

\* A file lies with the peer that it is of, except those of a legacy directory, which
\* the first of its peers to save takes over.
FilesStayWithPeer ==
    \A p \in DOMAIN files :
        IF files[p] \in Message THEN p.dir = attachment[files[p]].of ELSE p.id = files[p]
=================================================================================
