--------------------------------- MODULE Forge ---------------------------------
(***************************************************************************)
(* Writing boot media (tui/screens/provision.py, tui/forge): the operator  *)
(* chooses a device and a disk and confirms; the pipeline downloads,       *)
(* unpacks and writes; the screen then watches for the new node.  An abort *)
(* cancels the worker, not the thread that downloads and not the process   *)
(* that writes.                                                            *)
(***************************************************************************)
EXTENDS Integers, Sequences

CONSTANTS
    Disk,    \* the disks that may be plugged in
    Kind,    \* the device profiles: of "nix", "x86" and "sd"
    MaxRuns  \* bound: pipelines

ASSUME ForgeAssumption == Kind \subseteq {"nix", "x86", "sd"} /\ MaxRuns \in Nat

Run == 1..MaxRuns
None == "none"
Missing == 0
Whole == -1
CutOff == -2

VARIABLES
    panel,     \* the screen: "gone", "select", "confirm" or "forge"
    detected,  \* the disks of the last detection
    choice,    \* the device and the disk that are selected
    dialog,     \* what the dialog shows
    run,       \* the last pipeline
    job,    \* what it writes where
    step,     \* its step, 0 when it does not run
    waits,     \* it waits for its thread or its process
    log,       \* the panel: "none", "running", "error" or "complete"
    image,     \* the downloaded file of a kind: missing, whole, cut, or a run that writes it
    partial,   \* whose file bears the name of the partial download
    fetching,  \* the threads that download
    extracted, \* what was unpacked from it
    writing,   \* the processes that write a whole image, by run
    content,   \* of a disk
    styrene,   \* the disks that have the automation files
    watch,     \* for the new node: whether it is on, and whether discovery is its own
    handler,   \* who registered the announce handler
    agreed,    \* what the operator confirmed for each run
    spoiled    \* what an abort, or a failure while unpacking, has spoiled

screenVars == <<panel, detected, choice, dialog, agreed>>
runVars == <<run, job, step, waits, log>>
fileVars == <<image, partial, fetching, extracted>>
diskVars == <<writing, content, styrene>>
watchVars == <<watch, handler>>
forgeVars == <<screenVars, runVars, fileVars, diskVars, watchVars, spoiled>>

Choice == [device : Kind \cup {None}, disk : Disk \cup {None}]
Nothing == [device |-> None, disk |-> None]
Off == [active |-> FALSE, owns |-> FALSE]

ForgeTypeOK ==
    /\ panel \in {"gone", "select", "confirm", "forge"} /\ detected \subseteq Disk
    /\ {choice, dialog, job} \subseteq Choice /\ agreed \in [Run -> Choice]
    /\ run \in 0..MaxRuns /\ step \in 0..7 /\ waits \in BOOLEAN
    /\ log \in {"none", "running", "error", "complete"}
    /\ \A k \in Kind : /\ image[k] \in {Missing, Whole, CutOff} \cup Run
                       /\ partial[k] \in {0} \cup Run
                       /\ extracted[k] \in {"none", "broken", "whole"}
    /\ fetching \subseteq Run \X Kind /\ writing \subseteq Run \X Disk
    /\ \A d \in Disk : content[d] \in {"old", "part", "bad", "good"}
    /\ styrene \subseteq Disk
    /\ watch \in [active : BOOLEAN, owns : BOOLEAN] /\ handler \in {"none", "watch", "other"}
    /\ spoiled \in BOOLEAN

ForgeInit ==
    /\ panel = "gone" /\ detected = {} /\ choice = Nothing /\ dialog = Nothing
    /\ run = 0 /\ job = Nothing /\ step = 0 /\ waits = FALSE /\ log = "none"
    /\ image = [k \in Kind |-> Missing] /\ partial = [k \in Kind |-> 0]
    /\ fetching = {} /\ extracted = [k \in Kind |-> "none"]
    /\ writing = {} /\ content = [d \in Disk |-> "old"] /\ styrene = {}
    /\ watch = Off /\ handler \in {"none", "other"}
    /\ agreed = [r \in Run |-> Nothing] /\ spoiled = FALSE

-----------------------------------------------------------------------------
(* The screen.                                                              *)

OpenProvision ==
    /\ panel = "gone" /\ run < MaxRuns
    /\ panel' = "select"
    /\ UNCHANGED <<detected, choice, dialog, agreed, runVars, fileVars, diskVars, watchVars, spoiled>>

HandleDeviceSelected(k) ==
    /\ panel = "select"
    /\ choice' = [choice EXCEPT !.device = k]
    /\ UNCHANGED <<panel, detected, dialog, agreed, runVars, fileVars, diskVars, watchVars, spoiled>>

\* Mutant of DetectDisks: it selects what it finds.
DetectDisksSelects(found) ==
    /\ panel \in {"select", "confirm"} /\ choice.device # None
    /\ detected' = found
    /\ choice' = [choice EXCEPT !.disk = IF found = {} THEN @ ELSE CHOOSE d \in found : TRUE]
    /\ UNCHANGED <<panel, dialog, agreed, runVars, fileVars, diskVars, watchVars, spoiled>>

\* The worker runs on while the dialog is shown.  The selection stays, whatever
\* is plugged in.
DetectDisks(found) ==
    /\ panel \in {"select", "confirm"} /\ choice.device # None /\ found # detected
    /\ detected' = found
    /\ UNCHANGED <<panel, choice, dialog, agreed, runVars, fileVars, diskVars, watchVars, spoiled>>

HandleDiskSelected(d) ==
    /\ panel = "select" /\ d \in detected
    /\ choice' = [choice EXCEPT !.disk = d]
    /\ UNCHANGED <<panel, detected, dialog, agreed, runVars, fileVars, diskVars, watchVars, spoiled>>

InitiateFlash ==
    /\ panel = "select" /\ choice.device # None /\ choice.disk # None
    /\ panel' = "confirm" /\ dialog' = choice
    /\ UNCHANGED <<detected, choice, agreed, runVars, fileVars, diskVars, watchVars, spoiled>>

CancelFlash ==
    /\ panel = "confirm"
    /\ panel' = "select" /\ dialog' = Nothing
    /\ UNCHANGED <<detected, choice, agreed, runVars, fileVars, diskVars, watchVars, spoiled>>

\* The job is built from the selection after the dialog, not from what it showed.
ConfirmFlash ==
    /\ panel = "confirm" /\ run < MaxRuns
    /\ panel' = "forge" /\ dialog' = Nothing
    /\ run' = run + 1 /\ agreed' = [agreed EXCEPT ![run + 1] = dialog] /\ job' = choice /\ step' = 1 /\ waits' = FALSE
    /\ log' = "running"
    /\ UNCHANGED <<detected, choice, fileVars, diskVars, watchVars, spoiled>>

-----------------------------------------------------------------------------
(* The pipeline.                                                            *)

\* The order of the stages of each kind of device.
Stages(k) ==
    CASE k = "nix" -> <<"deps", "resolve", "write", "finish">>
      [] k = "x86" -> <<"deps", "download", "extract", "partition", "copy", "styrene", "finish">>
      [] k = "sd"  -> <<"deps", "download", "extract", "write", "remount", "styrene", "finish">>

At(s) == step # 0 /\ Stages(job.device)[step] = s
Goes == step' = step + 1 /\ waits' = FALSE /\ UNCHANGED <<run, job, log>>
Stops == step' = 0 /\ waits' = FALSE /\ log' = "error" /\ UNCHANGED <<run, job>>

\* Mutant of StageFails: the generator that reported an error is gone on with.
StageFailsGoesOn ==
    /\ step # 0 /\ ~waits /\ ~At("extract")
    /\ IF At("finish") THEN Stops ELSE Goes
    /\ UNCHANGED <<screenVars, fileVars, diskVars, watchVars, spoiled>>

\* A step ends with an error, before it has done anything.
StageFails ==
    /\ step # 0 /\ ~waits /\ ~At("extract")
    /\ Stops
    /\ UNCHANGED <<screenVars, fileVars, diskVars, watchVars, spoiled>>

\* Dependencies are there, the Nix image is found.
Passes ==
    /\ At("deps") \/ At("resolve")
    /\ Goes
    /\ UNCHANGED <<screenVars, fileVars, diskVars, watchVars, spoiled>>

\* A file of that name is taken for the image; an orphaned partial one is removed.
DownloadFile ==
    LET k == job.device IN
    /\ At("download") /\ ~waits
    /\ IF image[k] # Missing
       THEN Goes /\ UNCHANGED fileVars
       ELSE /\ fetching' = fetching \cup {<<run, k>>}
            /\ partial' = [partial EXCEPT ![k] = run]
            /\ waits' = TRUE
            /\ UNCHANGED <<run, job, step, log, image, extracted>>
    /\ UNCHANGED <<screenVars, diskVars, watchVars, spoiled>>

\* The thread of run r is done: it renames what bears the name by now, which may
\* be the file of a later run; the run goes on unless it was aborted.
Own(r) == r = run /\ waits
Heard(r, ok) == IF ~Own(r) THEN UNCHANGED runVars ELSE IF ok THEN Goes ELSE Stops
DoDownload(r, k) ==
    /\ <<r, k>> \in fetching
    /\ fetching' = fetching \ {<<r, k>>}
    /\ image' = [image EXCEPT ![k] =
            CASE partial[k] = r \/ @ = r         -> Whole
              [] partial[k] \notin {0, r} /\ <<partial[k], k>> \in fetching -> partial[k]
              [] partial[k] \notin {0, r}        -> CutOff
              [] OTHER                           -> @]
    /\ partial' = [partial EXCEPT ![k] = 0]
    /\ spoiled' = (spoiled \/ partial[k] # r)
    /\ Heard(r, partial[k] # 0)
    /\ UNCHANGED <<screenVars, extracted, diskVars, watchVars>>

DownloadFails(r, k) ==
    /\ <<r, k>> \in fetching
    /\ fetching' = fetching \ {<<r, k>>}
    /\ image' = [image EXCEPT ![k] = IF @ = r THEN CutOff ELSE @]
    /\ Heard(r, FALSE)
    /\ UNCHANGED <<screenVars, partial, extracted, diskVars, watchVars, spoiled>>

\* What is there is taken for the whole.  zstd's input is removed.
Extract ==
    LET k == job.device IN
    /\ At("extract")
    /\ extracted' = [extracted EXCEPT ![k] =
            IF @ # "none" THEN @ ELSE IF image[k] = Whole THEN "whole" ELSE "broken"]
    /\ image' = IF k = "sd" /\ extracted[k] = "none" THEN [image EXCEPT ![k] = Missing] ELSE image
    /\ Goes
    /\ UNCHANGED <<screenVars, partial, fetching, diskVars, watchVars, spoiled>>

\* bsdtar leaves what it has unpacked; zstd removes it.
ExtractFails ==
    LET k == job.device IN
    /\ At("extract") /\ extracted[k] = "none"
    /\ \E left \in (IF k = "x86" THEN {"none", "broken"} ELSE {"none"}) :
          /\ extracted' = [extracted EXCEPT ![k] = left]
          /\ spoiled' = (spoiled \/ left = "broken")
    /\ Stops
    /\ UNCHANGED <<screenVars, image, partial, fetching, diskVars, watchVars>>

\* The whole image, by a process under a shield; two of them may write at once.
DdWrite ==
    LET d == job.disk IN
    /\ At("write") /\ ~waits
    /\ content' = [content EXCEPT ![d] =
                      IF \E r \in Run : <<r, d>> \in writing THEN "bad" ELSE "part"]
    /\ styrene' = styrene \ {d}
    /\ writing' = writing \cup {<<run, d>>}
    /\ waits' = TRUE
    /\ UNCHANGED <<screenVars, run, job, step, log, fileVars, watchVars, spoiled>>

WholeImage(k) == k = "nix" \/ extracted[k] = "whole"
DdEnds(r, d, ok) ==
    /\ <<r, d>> \in writing
    /\ writing' = writing \ {<<r, d>>}
    /\ content' = [content EXCEPT ![d] = IF ok /\ @ = "part" /\ Own(r) /\ WholeImage(job.device)
                                         THEN "good" ELSE "bad"]
    /\ Heard(r, ok)
    /\ UNCHANGED <<screenVars, fileVars, styrene, watchVars, spoiled>>

\* The status of the pipe is that of dd: a failure of zstd is not seen.
PipeEnds(r, d) ==
    /\ <<r, d>> \in writing /\ Own(r) /\ job.device = "nix"
    /\ writing' = writing \ {<<r, d>>}
    /\ content' = [content EXCEPT ![d] = "bad"]
    /\ spoiled' = TRUE
    /\ Heard(r, TRUE)
    /\ UNCHANGED <<screenVars, fileVars, styrene, watchVars>>

\* Partitioned and mounted.
Partition ==
    /\ At("partition")
    /\ content' = [content EXCEPT ![job.disk] = "part"]
    /\ styrene' = styrene \ {job.disk}
    /\ Goes
    /\ UNCHANGED <<screenVars, fileVars, writing, watchVars, spoiled>>

Copy ==
    LET d == job.disk IN
    /\ At("copy")
    /\ content' = [content EXCEPT ![d] =
          IF WholeImage(job.device) /\ ~\E r \in Run : <<r, d>> \in writing THEN "good" ELSE "bad"]
    /\ Goes
    /\ UNCHANGED <<screenVars, fileVars, writing, styrene, watchVars, spoiled>>

\* If the partition does not come back, the files are left out and the run goes on.
Remount ==
    /\ At("remount")
    /\ \/ Goes
       \/ step' = step + 2 /\ UNCHANGED <<run, job, waits, log>>
    /\ UNCHANGED <<screenVars, fileVars, diskVars, watchVars, spoiled>>

CopyStyreneFiles ==
    /\ At("styrene")
    /\ styrene' = styrene \cup {job.disk}
    /\ Goes
    /\ UNCHANGED <<screenVars, fileVars, writing, content, watchVars, spoiled>>

-----------------------------------------------------------------------------
(* The end of it.                                                           *)

\* Discovery that runs is left to whom it belongs.
WatchStarts ==
    /\ watch' = [active |-> TRUE, owns |-> handler = "none"]
    /\ handler' = IF handler = "none" THEN "watch" ELSE handler
WatchStops ==
    /\ watch' = Off
    /\ handler' = IF watch.owns THEN "none" ELSE handler

\* The run is complete; the screen watches.
FinishMedia ==
    /\ At("finish")
    /\ step' = 0 /\ log' = "complete"
    /\ WatchStarts
    /\ UNCHANGED <<screenVars, run, job, waits, fileVars, diskVars, spoiled>>

\* The worker is cancelled where it awaits: what it was unpacking stays as it is.
WorkerIsCancelled ==
    LET k == job.device IN
    /\ step' = 0 /\ waits' = FALSE
    /\ UNCHANGED <<run, job, image, partial, fetching, diskVars>>
    /\ IF At("extract") /\ extracted[k] = "none"
       THEN \E left \in {"none", "broken"} : extracted' = [extracted EXCEPT ![k] = left]
       ELSE UNCHANGED extracted
    /\ spoiled' = (spoiled \/ At("extract") \/ (waits /\ At("write")))

\* Abort, or Done when the run has ended.
OnForgeLogAborted ==
    /\ panel = "forge"
    /\ panel' = "select"
    /\ WatchStops
    /\ IF step = 0 THEN UNCHANGED <<run, job, step, waits, fileVars, diskVars, spoiled>>
                    ELSE WorkerIsCancelled
    /\ UNCHANGED <<detected, choice, dialog, agreed, log>>

PopProvision ==
    /\ panel \in {"select", "forge"}
    /\ panel' = "gone" /\ detected' = {} /\ choice' = Nothing /\ log' = "none"
    /\ WatchStops
    /\ IF step = 0 THEN UNCHANGED <<run, job, step, waits, fileVars, diskVars, spoiled>>
                    ELSE WorkerIsCancelled
    /\ UNCHANGED <<dialog, agreed>>

\* Mutant of PopProvision: the watch goes on.
PopProvisionWatching ==
    /\ panel \in {"select", "forge"}
    /\ panel' = "gone" /\ detected' = {} /\ choice' = Nothing /\ log' = "none"
    /\ UNCHANGED watchVars
    /\ IF step = 0 THEN UNCHANGED <<run, job, step, waits, fileVars, diskVars, spoiled>>
                    ELSE WorkerIsCancelled
    /\ UNCHANGED <<dialog, agreed>>

\* Discovery calls back only whom it was started for.
MeshNodeFound ==
    /\ watch.active /\ handler = "watch"
    /\ WatchStops
    /\ UNCHANGED <<screenVars, runVars, fileVars, diskVars, spoiled>>

ForgeNext ==
    \/ OpenProvision \/ \E k \in Kind : HandleDeviceSelected(k)
    \/ \E found \in SUBSET Disk : DetectDisks(found)
    \/ \E d \in Disk : HandleDiskSelected(d)
    \/ InitiateFlash \/ CancelFlash \/ ConfirmFlash
    \/ StageFails \/ Passes \/ DownloadFile
    \/ \E r \in Run, k \in Kind : DoDownload(r, k) \/ DownloadFails(r, k)
    \/ Extract \/ ExtractFails
    \/ DdWrite \/ \E r \in Run, d \in Disk : PipeEnds(r, d) \/ \E ok \in BOOLEAN : DdEnds(r, d, ok)
    \/ Partition \/ Copy \/ Remount \/ CopyStyreneFiles \/ FinishMedia
    \/ OnForgeLogAborted \/ PopProvision \/ MeshNodeFound

ForgeSpec == ForgeInit /\ [][ForgeNext]_forgeVars

-----------------------------------------------------------------------------
(* Properties.                                                             *)

\* What is erased is what the operator confirmed, though disks come and go
\* while the dialog is shown.
ConfirmedIsWritten ==
    /\ step # 0 => job = agreed[run]
    /\ \A d \in Disk : content[d] # "old" => \E r \in Run : agreed[r].disk = d

\* A run that is reported complete has written a medium that boots, unless an
\* abort, or a failure while unpacking, has left something that is taken for whole
\* (or the decompressor of a pipe has failed, which nothing notices).
CompleteIsTrue == log = "complete" /\ panel = "forge" => content[job.disk] = "good" \/ spoiled

\* Discovery that was started for the watch ends with it.
WatchIsReleased == handler = "watch" <=> watch.owns /\ panel = "forge"
===============================================================================
