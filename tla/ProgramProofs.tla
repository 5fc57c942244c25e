----------------------------- MODULE ProgramProofs -----------------------------
(***************************************************************************)
(* Proofs about what the program keeps on disks: boot media, the operator's  *)
(* identity, the core configuration, the database of messages and contacts,   *)
(* the messages that are recorded there, and the files of attachments; and     *)
(* about all parts of the program together, with those of PartProofs.          *)
(***************************************************************************)
EXTENDS PartProofs


-----------------------------------------------------------------------------
(* Writing boot media.                                                      *)

ForgeTypes ==
    /\ panel \in {"gone", "select", "confirm", "forge"} /\ detected \subseteq Disk
    /\ choice \in Choice /\ dialog \in Choice /\ job \in Choice /\ agreed \in [Run -> Choice]
    /\ run \in 0..MaxRuns /\ step \in 0..7 /\ waits \in BOOLEAN
    /\ log \in {"none", "running", "error", "complete"}
    /\ image \in [Kind -> {Missing, Whole, CutOff} \cup Run] /\ partial \in [Kind -> {0} \cup Run]
    /\ extracted \in [Kind -> {"none", "broken", "whole"}]
    /\ fetching \subseteq Run \X Kind /\ writing \subseteq Run \X Disk
    /\ content \in [Disk -> {"old", "part", "bad", "good"}] /\ styrene \subseteq Disk
    /\ watch \in [active : BOOLEAN, owns : BOOLEAN] /\ handler \in {"none", "watch", "other"}
    /\ spoiled \in BOOLEAN

LastStage(k) == IF k = "nix" THEN 4 ELSE 7

\* While a run goes on the screen shows it, and it writes what was confirmed for it.
RunIsShown ==
    /\ step # 0 =>
          /\ panel = "forge" /\ log = "running" /\ run \in Run /\ job = agreed[run]
          /\ job.device \in Kind /\ job.disk \in Disk /\ step \in 1..LastStage(job.device) /\ ~watch.owns
    /\ waits => At("download") \/ At("write")
    /\ panel = "confirm" => dialog = choice /\ choice.device \in Kind /\ choice.disk \in Disk
    /\ panel # "forge" => ~watch.owns
    /\ watch.owns <=> handler = "watch"

\* The threads and processes that a run has left behind are of runs before it; what is
\* written was confirmed.
WorkersAreKnown ==
    /\ \A r \in Run, k \in Kind : <<r, k>> \in fetching =>
          r <= run /\ (r = run /\ step # 0 => At("download") /\ waits /\ k = job.device)
    /\ \A r \in Run, d \in Disk : <<r, d>> \in writing =>
          /\ r <= run /\ agreed[r].disk = d
          /\ r = run /\ step # 0 => At("write") /\ waits /\ d = job.disk
    /\ \A d \in Disk : content[d] # "old" => \E r \in Run : r <= run /\ agreed[r].disk = d

Unpacked == job.device # "nix" /\ step > 3
OnDisk ==
    \/ job.device = "nix" /\ step > 3
    \/ job.device = "x86" /\ step > 5
    \/ job.device = "sd" /\ step > 4

\* If nothing was spoiled, what is there is whole, and on the disk after its stage.
MediaAreWhole ==
    ~spoiled =>
        /\ \A k \in Kind : image[k] \in {Missing, Whole} /\ extracted[k] \in {"none", "whole"}
        /\ \A r \in Run, d \in Disk : <<r, d>> \in writing => r = run /\ step # 0
        /\ At("extract") => image[job.device] = Whole
        /\ step # 0 /\ Unpacked => extracted[job.device] = "whole"
        /\ waits /\ At("write") => content[job.disk] = "part"
        /\ step # 0 /\ OnDisk => content[job.disk] = "good"
        /\ log = "complete" /\ panel = "forge" => content[job.disk] = "good"

ForgeInv == ForgeTypes /\ RunIsShown /\ WorkersAreKnown /\ MediaAreWhole

\* The stages by their numbers.
LEMMA StagesByNumber ==
  /\ Stages("nix") = <<"deps", "resolve", "write", "finish">>
  /\ Stages("x86") = <<"deps", "download", "extract", "partition", "copy", "styrene", "finish">>
  /\ Stages("sd") = <<"deps", "download", "extract", "write", "remount", "styrene", "finish">>
  BY DEF Stages

LEMMA StageNumber ==
  ASSUME NEW k \in Kind, NEW n \in 1..LastStage(k)
  PROVE  /\ Stages(k)[n] = "deps" <=> n = 1
         /\ Stages(k)[n] = "resolve" <=> n = 2 /\ k = "nix"
         /\ Stages(k)[n] = "download" <=> n = 2 /\ k # "nix"
         /\ Stages(k)[n] = "extract" <=> n = 3 /\ k # "nix"
         /\ Stages(k)[n] = "write" <=> (n = 3 /\ k = "nix") \/ (n = 4 /\ k = "sd")
         /\ Stages(k)[n] = "partition" <=> n = 4 /\ k = "x86"
         /\ Stages(k)[n] = "copy" <=> n = 5 /\ k = "x86"
         /\ Stages(k)[n] = "remount" <=> n = 5 /\ k = "sd"
         /\ Stages(k)[n] = "styrene" <=> n = 6
         /\ Stages(k)[n] = "finish" <=> n = LastStage(k)
<1>1. k \in {"nix", "x86", "sd"}
  BY ForgeAssumption
<1>2. CASE k = "nix"
  <2>1. LastStage(k) = 4 /\ Stages(k) = <<"deps", "resolve", "write", "finish">>
    BY <1>2, StagesByNumber DEF LastStage
  <2>2. n = 1 \/ n = 2 \/ n = 3 \/ n = 4
    BY <2>1
  <2> QED
    BY <1>2, <2>1, <2>2
<1>3. CASE k = "x86"
  <2>1. /\ LastStage(k) = 7
        /\ Stages(k) = <<"deps", "download", "extract", "partition", "copy", "styrene", "finish">>
    BY <1>3, StagesByNumber DEF LastStage
  <2>2. n = 1 \/ n = 2 \/ n = 3 \/ n = 4 \/ n = 5 \/ n = 6 \/ n = 7
    BY <2>1
  <2> QED
    BY <1>3, <2>1, <2>2
<1>4. CASE k = "sd"
  <2>1. /\ LastStage(k) = 7
        /\ Stages(k) = <<"deps", "download", "extract", "write", "remount", "styrene", "finish">>
    BY <1>4, StagesByNumber DEF LastStage
  <2>2. n = 1 \/ n = 2 \/ n = 3 \/ n = 4 \/ n = 5 \/ n = 6 \/ n = 7
    BY <2>1
  <2> QED
    BY <1>4, <2>1, <2>2
<1> QED
  BY <1>1, <1>2, <1>3, <1>4

\* Where a run stands, by number.
LEMMA RunStands ==
  ASSUME ForgeInv, step # 0
  PROVE  /\ job.device \in {"nix", "x86", "sd"} /\ job.device \in Kind /\ job.disk \in Disk
         /\ run \in Run /\ job = agreed[run] /\ panel = "forge" /\ log = "running" /\ ~watch.owns
         /\ step \in 1..LastStage(job.device)
         /\ At("deps") <=> step = 1
         /\ At("resolve") <=> step = 2 /\ job.device = "nix"
         /\ At("download") <=> step = 2 /\ job.device # "nix"
         /\ At("extract") <=> step = 3 /\ job.device # "nix"
         /\ At("write") <=> (step = 3 /\ job.device = "nix") \/ (step = 4 /\ job.device = "sd")
         /\ At("partition") <=> step = 4 /\ job.device = "x86"
         /\ At("copy") <=> step = 5 /\ job.device = "x86"
         /\ At("remount") <=> step = 5 /\ job.device = "sd"
         /\ At("styrene") <=> step = 6
         /\ At("finish") <=> step = LastStage(job.device)
<1>1. /\ job.device \in Kind /\ job.disk \in Disk /\ run \in Run /\ job = agreed[run] /\ panel = "forge"
      /\ log = "running" /\ ~watch.owns /\ step \in 1..LastStage(job.device) /\ step \in 0..7
  BY DEF ForgeInv, ForgeTypes, RunIsShown
<1>2. job.device \in {"nix", "x86", "sd"}
  BY <1>1, ForgeAssumption
<1>3. \A s : At(s) <=> Stages(job.device)[step] = s
  BY DEF At
<1> QED
  BY <1>1, <1>2, <1>3, StageNumber

\* Where it stands next.
LEMMA StandsNext ==
  ASSUME job'.device \in Kind, step' \in 1..LastStage(job'.device)
  PROVE  /\ At("deps")' <=> step' = 1
         /\ At("download")' <=> step' = 2 /\ job'.device # "nix"
         /\ At("extract")' <=> step' = 3 /\ job'.device # "nix"
         /\ At("write")' <=> (step' = 3 /\ job'.device = "nix") \/ (step' = 4 /\ job'.device = "sd")
<1>1. step' # 0
  BY DEF LastStage
<1>2. \A s : At(s)' <=> Stages(job'.device)[step'] = s
  BY <1>1 DEF At, Stages
<1> QED
  BY <1>2, StageNumber

LEMMA NotAtAll == ASSUME step = 0, NEW s PROVE ~At(s)
  BY DEF At

LEMMA ForgeStarts == ASSUME ForgeInit PROVE ForgeInv
<1>1. /\ panel = "gone" /\ detected = {} /\ choice = Nothing /\ dialog = Nothing
      /\ run = 0 /\ job = Nothing /\ step = 0 /\ waits = FALSE /\ log = "none"
      /\ image = [k \in Kind |-> Missing] /\ partial = [k \in Kind |-> 0]
      /\ fetching = {} /\ extracted = [k \in Kind |-> "none"]
      /\ writing = {} /\ content = [d \in Disk |-> "old"] /\ styrene = {}
      /\ watch = Off /\ handler \in {"none", "other"}
      /\ agreed = [r \in Run |-> Nothing] /\ spoiled = FALSE
  BY DEF ForgeInit
<1>2. Nothing \in Choice /\ Off \in [active : BOOLEAN, owns : BOOLEAN] /\ Off.owns = FALSE
  BY DEF Nothing, Choice, Off
<1>3. run \in 0..MaxRuns
  BY <1>1, ForgeAssumption
<1>4. agreed \in [Run -> Choice] /\ image \in [Kind -> {Missing, Whole, CutOff} \cup Run]
      /\ partial \in [Kind -> {0} \cup Run] /\ extracted \in [Kind -> {"none", "broken", "whole"}]
      /\ content \in [Disk -> {"old", "part", "bad", "good"}]
  BY <1>1, <1>2
<1>5. ForgeTypes
  <2>1. step \in 0..7 /\ waits \in BOOLEAN /\ spoiled \in BOOLEAN
    <3>1. step \in 0..7
      BY <1>1
    <3>2. waits \in BOOLEAN /\ spoiled \in BOOLEAN
      BY <1>1, Zenon
    <3> QED
      BY <3>1, <3>2
  <2>2. detected \subseteq Disk /\ fetching \subseteq Run \X Kind /\ writing \subseteq Run \X Disk /\ styrene \subseteq Disk
    BY <1>1
  <2>3. choice \in Choice /\ dialog \in Choice /\ job \in Choice /\ watch \in [active : BOOLEAN, owns : BOOLEAN]
    BY <1>1, <1>2, Zenon
  <2>4. panel \in {"gone", "select", "confirm", "forge"} /\ log \in {"none", "running", "error", "complete"}
        /\ handler \in {"none", "watch", "other"}
    BY <1>1
  <2> QED
    BY <1>3, <1>4, <2>1, <2>2, <2>3, <2>4, Zenon DEF ForgeTypes
<1>6. \A s : ~At(s)
  BY <1>1, NotAtAll
<1>7. RunIsShown
  BY <1>1, <1>2 DEF RunIsShown
<1>8. WorkersAreKnown
  BY <1>1 DEF WorkersAreKnown
<1>9. MediaAreWhole
  BY <1>1, <1>6 DEF MediaAreWhole
<1> QED
  BY <1>5, <1>7, <1>8, <1>9 DEF ForgeInv

-----------------------------------------------------------------------------
(* The screen.                                                             *)

\* Before a run is confirmed nothing of it changes.
LEMMA ScreenChanges ==
  ASSUME ForgeInv, panel # "forge", panel' \in {"gone", "select", "confirm"},
         UNCHANGED <<agreed, runVars, fileVars, diskVars, watchVars, spoiled>>,
         detected' \subseteq Disk, choice' \in Choice, dialog' \in Choice,
         panel' = "confirm" => dialog' = choice' /\ choice'.device \in Kind /\ choice'.disk \in Disk
  PROVE  ForgeInv'
<1>1. /\ UNCHANGED <<agreed, run, job, step, waits, log, image, partial, fetching, extracted, writing, content,
                     styrene, watch, handler, spoiled>>
  BY DEF runVars, fileVars, diskVars, watchVars
<1>2. ForgeTypes /\ RunIsShown /\ WorkersAreKnown /\ MediaAreWhole
  BY DEF ForgeInv
<1>3. ForgeTypes'
  BY <1>1, <1>2 DEF ForgeTypes
<1>4. \A s : At(s)' <=> At(s)
  BY <1>1 DEF At
<1>5. RunIsShown'
  BY <1>1, <1>2, <1>4 DEF RunIsShown
<1>6. WorkersAreKnown'
  BY <1>1, <1>2, <1>4 DEF WorkersAreKnown
<1>7. (Unpacked' <=> Unpacked) /\ (OnDisk' <=> OnDisk)
  BY <1>1 DEF Unpacked, OnDisk
<1>8. MediaAreWhole'
  BY <1>1, <1>2, <1>4, <1>7 DEF MediaAreWhole
<1> QED
  BY <1>3, <1>5, <1>6, <1>8 DEF ForgeInv

LEMMA ChoosingKeeps ==
  ASSUME ForgeInv, \/ OpenProvision \/ (\E k \in Kind : HandleDeviceSelected(k))
                   \/ (\E found \in SUBSET Disk : DetectDisks(found)) \/ (\E d \in Disk : HandleDiskSelected(d))
                   \/ InitiateFlash \/ CancelFlash
  PROVE  ForgeInv'
<1>1. /\ detected \subseteq Disk /\ choice \in Choice /\ dialog \in Choice
      /\ panel \in {"gone", "select", "confirm", "forge"}
      /\ panel = "confirm" => dialog = choice /\ choice.device \in Kind /\ choice.disk \in Disk
  BY DEF ForgeInv, ForgeTypes, RunIsShown
<1>2. CASE OpenProvision
  BY <1>1, <1>2, ScreenChanges DEF OpenProvision
<1>3. ASSUME NEW k \in Kind, HandleDeviceSelected(k) PROVE ForgeInv'
  <2>1. choice' \in Choice
    BY <1>1, <1>3 DEF HandleDeviceSelected, Choice
  <2> QED
    BY <1>1, <1>3, <2>1, ScreenChanges DEF HandleDeviceSelected
<1>4. ASSUME NEW found \in SUBSET Disk, DetectDisks(found) PROVE ForgeInv'
  BY <1>1, <1>4, ScreenChanges DEF DetectDisks
<1>5. ASSUME NEW d \in Disk, HandleDiskSelected(d) PROVE ForgeInv'
  <2>1. choice' \in Choice
    BY <1>1, <1>5 DEF HandleDiskSelected, Choice
  <2> QED
    BY <1>1, <1>5, <2>1, ScreenChanges DEF HandleDiskSelected
<1>6. CASE InitiateFlash
  <2>1. choice.device \in Kind /\ choice.disk \in Disk
    BY <1>1, <1>6 DEF InitiateFlash, Choice
  <2> QED
    BY <1>1, <1>6, <2>1, ScreenChanges DEF InitiateFlash
<1>7. CASE CancelFlash
  <2>1. Nothing \in Choice
    BY DEF Nothing, Choice
  <2> QED
    BY <1>1, <1>7, <2>1, ScreenChanges DEF CancelFlash
<1> QED
  BY <1>2, <1>3, <1>4, <1>5, <1>6, <1>7

\* A run that begins is the one the operator has confirmed.
LEMMA ConfirmKeeps == ASSUME ForgeInv, ConfirmFlash PROVE ForgeInv'
<1>1. /\ panel = "confirm" /\ run < MaxRuns /\ panel' = "forge" /\ dialog' = Nothing /\ run' = run + 1
      /\ agreed' = [agreed EXCEPT ![run + 1] = dialog] /\ job' = choice /\ step' = 1 /\ waits' = FALSE
      /\ log' = "running"
      /\ UNCHANGED <<detected, choice, image, partial, fetching, extracted, writing, content,
                     styrene, watch, handler, spoiled>>
  BY DEF ConfirmFlash, fileVars, diskVars, watchVars
<1>2. ForgeTypes /\ RunIsShown /\ WorkersAreKnown /\ MediaAreWhole
  BY DEF ForgeInv
<1>3. dialog = choice /\ choice.device \in Kind /\ choice.disk \in Disk /\ ~watch.owns /\ step = 0
  BY <1>1, <1>2 DEF RunIsShown
<1>4. run \in Nat /\ run' \in Run /\ run' \in 0..MaxRuns
  BY <1>1, <1>2, ForgeAssumption DEF ForgeTypes, Run
<1>5. /\ agreed' \in [Run -> Choice] /\ agreed'[run'] = choice
      /\ \A r \in Run : r # run' => agreed'[r] = agreed[r]
  BY <1>1, <1>2, <1>3, <1>4 DEF ForgeTypes
<1>6. Nothing \in Choice
  BY DEF Nothing, Choice
<1>7. ForgeTypes'
  <2>1. step' \in 0..7 /\ waits' \in BOOLEAN
    <3>1. step' \in 0..7
      BY <1>1
    <3>2. waits' \in BOOLEAN
      BY <1>1, Zenon
    <3> QED
      BY <3>1, <3>2
  <2>2. panel' \in {"gone", "select", "confirm", "forge"} /\ log' \in {"none", "running", "error", "complete"}
    BY <1>1
  <2>3. choice' \in Choice /\ dialog' \in Choice /\ job' \in Choice
    BY <1>1, <1>2, <1>6, Zenon DEF ForgeTypes
  <2>4. /\ detected' \subseteq Disk /\ image' \in [Kind -> {Missing, Whole, CutOff} \cup Run] /\ partial' \in [Kind -> {0} \cup Run]
        /\ extracted' \in [Kind -> {"none", "broken", "whole"}]
        /\ fetching' \subseteq Run \X Kind /\ writing' \subseteq Run \X Disk
        /\ content' \in [Disk -> {"old", "part", "bad", "good"}] /\ styrene' \subseteq Disk
        /\ watch' \in [active : BOOLEAN, owns : BOOLEAN] /\ handler' \in {"none", "watch", "other"}
        /\ spoiled' \in BOOLEAN
    BY <1>1, <1>2 DEF ForgeTypes
  <2> QED
    BY <1>4, <1>5, <2>1, <2>2, <2>3, <2>4, Zenon DEF ForgeTypes
<1>8. 1 \in 1..LastStage(choice.device)
  BY DEF LastStage
<1>9. RunIsShown'
  BY <1>1, <1>2, <1>3, <1>4, <1>5, <1>8 DEF RunIsShown
<1>10. \A r \in Run : r <= run => r <= run' /\ r # run'
  BY <1>1, <1>4 DEF Run
<1>11. WorkersAreKnown'
  BY <1>1, <1>2, <1>5, <1>10 DEF WorkersAreKnown
<1>12. MediaAreWhole'
  <2>1. ASSUME ~spoiled PROVE writing = {}
    <3>1. \A r \in Run, d \in Disk : <<r, d>> \notin writing
      BY <1>2, <1>3, <2>1 DEF MediaAreWhole
    <3> QED
      BY <1>2, <3>1 DEF ForgeTypes
  <2>2. At("extract")' <=> FALSE
    BY <1>1, <1>3, <1>8, StandsNext
  <2>3. ~Unpacked' /\ ~OnDisk'
    BY <1>1 DEF Unpacked, OnDisk
  <2> QED
    BY <1>1, <1>2, <2>1, <2>2, <2>3 DEF MediaAreWhole
<1> QED
  BY <1>7, <1>9, <1>11, <1>12 DEF ForgeInv

-----------------------------------------------------------------------------
(* The pipeline.                                                           *)

\* A run that does not wait has no thread and no process.
LEMMA NobodyWorks ==
  ASSUME ForgeInv, step # 0, ~waits \/ ~(At("download") \/ At("write"))
  PROVE  ~waits /\ (\A k \in Kind : <<run, k>> \notin fetching) /\ (\A d \in Disk : <<run, d>> \notin writing)
<1>1. ~waits /\ run \in Run
  BY DEF ForgeInv, RunIsShown
<1> QED
  BY <1>1 DEF ForgeInv, WorkersAreKnown

\* A run goes on, or stops.
LEMMA RunGoesOn ==
  ASSUME ForgeInv, step # 0, step' \in step + 1..LastStage(job.device), waits' = FALSE, UNCHANGED <<run, job, log>>,
         UNCHANGED screenVars, UNCHANGED watchVars
  PROVE  /\ RunIsShown' /\ run' \in 0..MaxRuns /\ step' \in 0..7 /\ waits' \in BOOLEAN /\ job' \in Choice
         /\ log' \in {"none", "running", "error", "complete"} /\ step' # 0 /\ step' \in 1..LastStage(job'.device)
         /\ log' = "running"
<1>1. UNCHANGED <<panel, detected, choice, dialog, agreed, watch, handler>>
  BY DEF screenVars, watchVars
<1>2. /\ step \in 1..LastStage(job.device) /\ log = "running" /\ LastStage(job.device) \in {4, 7}
      /\ run \in 0..MaxRuns /\ job \in Choice
  BY RunStands DEF LastStage, ForgeInv, ForgeTypes
<1>3. step' # 0 /\ step' \in 1..LastStage(job'.device) /\ step' \in 0..7
  BY <1>2
<1>4. RunIsShown'
  BY <1>1, <1>3 DEF ForgeInv, RunIsShown
<1>5. waits' \in BOOLEAN
  BY Zenon
<1> QED
  BY <1>2, <1>3, <1>4, <1>5

LEMMA RunStops ==
  ASSUME ForgeInv, step' = 0, waits' = FALSE, log' \in {"none", "running", "error", "complete"}, UNCHANGED <<run, job>>,
         UNCHANGED screenVars, UNCHANGED watchVars
  PROVE  /\ RunIsShown' /\ run' \in 0..MaxRuns /\ step' \in 0..7 /\ waits' \in BOOLEAN /\ job' \in Choice
         /\ \A s : ~At(s)'
<1>1. UNCHANGED <<panel, detected, choice, dialog, agreed, watch, handler>>
  BY DEF screenVars, watchVars
<1>2. run \in 0..MaxRuns /\ job \in Choice
  BY DEF ForgeInv, ForgeTypes
<1>3. RunIsShown'
  BY <1>1 DEF ForgeInv, RunIsShown
<1>4. waits' \in BOOLEAN
  BY Zenon
<1>5. \A s : ~At(s)'
  BY DEF At
<1>6. step' \in 0..7
  OBVIOUS
<1> QED
  BY <1>2, <1>3, <1>4, <1>5, <1>6

\* The workers of the run that goes on or stops are gone; it may have written to its disk.
LEMMA WorkersGone ==
  ASSUME ForgeInv, UNCHANGED <<run, job, agreed>>, fetching' \subseteq fetching, writing' \subseteq writing,
         \/ step' = 0
         \/ (\A k \in Kind : <<run, k>> \notin fetching') /\ (\A d \in Disk : <<run, d>> \notin writing'),
         \A d \in Disk : content'[d] # content[d] => \E r \in Run : r <= run /\ agreed[r].disk = d
  PROVE  WorkersAreKnown'
<1>1. WorkersAreKnown
  BY DEF ForgeInv
<1>2. \A r \in Run, k \in Kind : <<r, k>> \in fetching' => r <= run /\ (r = run => step' = 0)
  BY <1>1 DEF WorkersAreKnown
<1>3. \A r \in Run, d \in Disk : <<r, d>> \in writing' => r <= run /\ agreed[r].disk = d /\ (r = run => step' = 0)
  BY <1>1 DEF WorkersAreKnown
<1>4. \A d \in Disk : content'[d] # "old" => \E r \in Run : r <= run /\ agreed[r].disk = d
  BY <1>1 DEF WorkersAreKnown
<1> QED
  BY <1>2, <1>3, <1>4 DEF WorkersAreKnown

\* The disk of the run is one that was confirmed.
LEMMA DiskWasConfirmed ==
  ASSUME ForgeInv, step # 0
  PROVE  \E r \in Run : r <= run /\ agreed[r].disk = job.disk
<1>1. run \in Run /\ job = agreed[run]
  BY RunStands
<1>2. run <= run
  BY <1>1, ForgeAssumption DEF Run
<1> QED
  BY <1>1, <1>2

LEMMA FailsKeeps == ASSUME ForgeInv, StageFails PROVE ForgeInv'
<1>1. /\ step # 0 /\ ~waits /\ step' = 0 /\ waits' = FALSE /\ log' = "error" /\ UNCHANGED <<run, job>>
      /\ UNCHANGED screenVars /\ UNCHANGED watchVars
      /\ UNCHANGED <<image, partial, fetching, extracted, writing, content, styrene, spoiled>>
  BY DEF StageFails, Stops, fileVars, diskVars
<1>2. UNCHANGED <<panel, detected, choice, dialog, agreed, watch, handler>>
  BY <1>1 DEF screenVars, watchVars
<1>3. ForgeTypes /\ MediaAreWhole
  BY DEF ForgeInv
<1>4. /\ RunIsShown' /\ run' \in 0..MaxRuns /\ step' \in 0..7 /\ waits' \in BOOLEAN /\ job' \in Choice
      /\ \A s : ~At(s)'
  BY <1>1, RunStops
<1>5. ForgeTypes'
  BY <1>1, <1>2, <1>3, <1>4 DEF ForgeTypes
<1>6. WorkersAreKnown'
  BY <1>1, <1>2, WorkersGone
<1>7. MediaAreWhole'
  <2>1. \A d \in Disk : <<run, d>> \notin writing
    BY <1>1, NobodyWorks
  <2> QED
    BY <1>1, <1>3, <1>4, <2>1 DEF MediaAreWhole
<1> QED
  BY <1>4, <1>5, <1>6, <1>7 DEF ForgeInv

LEMMA PassesKeeps == ASSUME ForgeInv, Passes PROVE ForgeInv'
<1>1. /\ At("deps") \/ At("resolve")
      /\ step' = step + 1 /\ waits' = FALSE /\ UNCHANGED <<run, job, log>>
      /\ UNCHANGED screenVars /\ UNCHANGED watchVars
      /\ UNCHANGED <<image, partial, fetching, extracted, writing, content, styrene, spoiled>>
  BY DEF Passes, Goes, fileVars, diskVars
<1>2. UNCHANGED <<panel, detected, choice, dialog, agreed, watch, handler>>
  BY <1>1 DEF screenVars, watchVars
<1>3. ForgeTypes /\ MediaAreWhole /\ step # 0
  BY <1>1 DEF ForgeInv, At
<1>4. /\ step = 1 \/ (step = 2 /\ job.device = "nix")
      /\ LastStage(job.device) \in {4, 7}
      /\ ~At("download") /\ ~At("write") /\ job.device \in Kind
  BY <1>1, <1>3, RunStands DEF LastStage
<1>5. step' \in step + 1..LastStage(job.device)
  BY <1>1, <1>4 DEF LastStage
<1>6. /\ RunIsShown' /\ run' \in 0..MaxRuns /\ step' \in 0..7 /\ waits' \in BOOLEAN /\ job' \in Choice
      /\ log' \in {"none", "running", "error", "complete"} /\ step' # 0 /\ step' \in 1..LastStage(job'.device)
      /\ log' = "running"
  BY <1>1, <1>3, <1>5, RunGoesOn
<1>7. ForgeTypes'
  BY <1>1, <1>2, <1>3, <1>6 DEF ForgeTypes
<1>8. (\A k \in Kind : <<run, k>> \notin fetching) /\ (\A d \in Disk : <<run, d>> \notin writing)
  BY <1>3, <1>4, NobodyWorks
<1>9. WorkersAreKnown'
  BY <1>1, <1>2, <1>8, WorkersGone
<1>10. MediaAreWhole'
  <2>1. ~At("extract")'
    BY <1>1, <1>4, <1>6, StandsNext
  <2>2. ~Unpacked' /\ ~OnDisk'
    BY <1>1, <1>4 DEF Unpacked, OnDisk
  <2> QED
    BY <1>1, <1>2, <1>3, <1>6, <1>8, <2>1, <2>2 DEF MediaAreWhole
<1> QED
  BY <1>6, <1>7, <1>9, <1>10 DEF ForgeInv

\* A run that stays where it is.
LEMMA RunStays ==
  ASSUME ForgeInv, UNCHANGED runVars, UNCHANGED screenVars, UNCHANGED watchVars
  PROVE  /\ RunIsShown' /\ run' \in 0..MaxRuns /\ step' \in 0..7 /\ waits' \in BOOLEAN /\ job' \in Choice
         /\ log' \in {"none", "running", "error", "complete"}
         /\ \A s : At(s)' <=> At(s)
         /\ (Unpacked' <=> Unpacked) /\ (OnDisk' <=> OnDisk)
<1>1. UNCHANGED <<panel, detected, choice, dialog, agreed, watch, handler, run, job, step, waits, log>>
  BY DEF screenVars, watchVars, runVars
<1>2. \A s : At(s)' <=> At(s)
  BY <1>1 DEF At
<1>3. RunIsShown'
  BY <1>1, <1>2 DEF ForgeInv, RunIsShown
<1>4. (Unpacked' <=> Unpacked) /\ (OnDisk' <=> OnDisk)
  BY <1>1 DEF Unpacked, OnDisk
<1>5. run' \in 0..MaxRuns /\ step' \in 0..7 /\ waits' \in BOOLEAN /\ job' \in Choice /\ log' \in {"none", "running", "error", "complete"}
  BY <1>1 DEF ForgeInv, ForgeTypes
<1> QED
  BY <1>2, <1>3, <1>4, <1>5

LEMMA DownloadKeeps == ASSUME ForgeInv, DownloadFile PROVE ForgeInv'
<1> DEFINE k == job.device
<1>1. /\ At("download") /\ ~waits /\ UNCHANGED screenVars /\ UNCHANGED watchVars
      /\ UNCHANGED <<writing, content, styrene, spoiled, image, extracted, run, job, log>>
      /\ \/ /\ image[k] # Missing /\ step' = step + 1 /\ waits' = FALSE /\ UNCHANGED <<partial, fetching>>
         \/ /\ image[k] = Missing /\ fetching' = fetching \cup {<<run, k>>} /\ partial' = [partial EXCEPT ![k] = run]
            /\ waits' = TRUE /\ step' = step
  BY DEF DownloadFile, Goes, fileVars, diskVars
<1>2. UNCHANGED <<panel, detected, choice, dialog, agreed, watch, handler>>
  BY <1>1 DEF screenVars, watchVars
<1>3. ForgeTypes /\ MediaAreWhole /\ WorkersAreKnown /\ RunIsShown /\ step # 0
  BY <1>1 DEF ForgeInv, At
<1>4. step = 2 /\ job.device # "nix" /\ job.device \in Kind /\ run \in Run /\ LastStage(job.device) = 7
  BY <1>1, <1>3, RunStands DEF LastStage
<1>5. (\A g \in Kind : <<run, g>> \notin fetching) /\ (\A d \in Disk : <<run, d>> \notin writing)
  BY <1>1, <1>3, NobodyWorks
<1>6. CASE image[k] # Missing /\ step' = step + 1 /\ waits' = FALSE /\ UNCHANGED <<partial, fetching>>
  <2>0. step' \in step + 1..LastStage(job.device)
    BY <1>4, <1>6
  <2>1. /\ RunIsShown' /\ run' \in 0..MaxRuns /\ step' \in 0..7 /\ waits' \in BOOLEAN /\ job' \in Choice
        /\ log' \in {"none", "running", "error", "complete"} /\ step' # 0 /\ step' \in 1..LastStage(job'.device)
        /\ log' = "running"
    BY <1>1, <1>3, <1>6, <2>0, RunGoesOn
  <2>2. ForgeTypes'
    BY <1>1, <1>2, <1>3, <1>6, <2>1 DEF ForgeTypes
  <2>3. WorkersAreKnown'
    BY <1>1, <1>2, <1>5, <1>6, WorkersGone
  <2>4. ~Unpacked' /\ ~OnDisk'
    BY <1>1, <1>4, <1>6 DEF Unpacked, OnDisk
  <2>5. ~spoiled => image[job.device] = Whole
    BY <1>3, <1>4, <1>6 DEF MediaAreWhole
  <2>6. MediaAreWhole'
    BY <1>1, <1>2, <1>3, <1>5, <1>6, <2>1, <2>4, <2>5 DEF MediaAreWhole
  <2> QED
    BY <2>1, <2>2, <2>3, <2>6 DEF ForgeInv
<1>7. CASE /\ image[k] = Missing /\ fetching' = fetching \cup {<<run, k>>} /\ partial' = [partial EXCEPT ![k] = run]
           /\ waits' = TRUE /\ step' = step
  <2>1. \A s : At(s)' <=> At(s)
    BY <1>1, <1>7 DEF At
  <2>2. RunIsShown'
    BY <1>1, <1>2, <1>3, <1>7, <2>1 DEF RunIsShown
  <2>3. waits' \in BOOLEAN
    BY <1>7, Zenon
  <2>4. fetching' \subseteq Run \X Kind /\ partial' \in [Kind -> {0} \cup Run]
    BY <1>3, <1>4, <1>7 DEF ForgeTypes
  <2>5. ForgeTypes'
    BY <1>1, <1>2, <1>3, <1>7, <2>3, <2>4 DEF ForgeTypes
  <2>6. WorkersAreKnown'
    <3>1. \A r \in Run, g \in Kind : <<r, g>> \in fetching' => <<r, g>> \in fetching \/ (r = run /\ g = k)
      BY <1>7
    <3>2. run <= run
      BY <1>4, ForgeAssumption DEF Run
    <3>3. \A r \in Run, g \in Kind : <<r, g>> \in fetching' =>
             r <= run /\ (r = run /\ step # 0 => At("download") /\ waits' /\ g = job.device)
      BY <1>1, <1>3, <1>5, <1>7, <3>1, <3>2 DEF WorkersAreKnown
    <3>4. \A r \in Run, d \in Disk : <<r, d>> \in writing' => r # run
      BY <1>1, <1>5
    <3> QED
      BY <1>1, <1>2, <1>3, <1>7, <2>1, <3>3, <3>4 DEF WorkersAreKnown
  <2>7. (Unpacked' <=> Unpacked) /\ (OnDisk' <=> OnDisk) /\ ~(At("write"))
    BY <1>1, <1>3, <1>4, <1>7, RunStands DEF Unpacked, OnDisk
  <2>8. MediaAreWhole'
    BY <1>1, <1>2, <1>3, <1>7, <2>1, <2>7 DEF MediaAreWhole
  <2> QED
    BY <2>2, <2>5, <2>6, <2>8 DEF ForgeInv
<1> QED
  BY <1>1, <1>6, <1>7

\* A thread that is done, whether or not its run still waits for it.
LEMMA ThreadEnds ==
  ASSUME ForgeInv, NEW r \in Run, NEW k \in Kind, <<r, k>> \in fetching, fetching' = fetching \ {<<r, k>>},
         UNCHANGED screenVars, UNCHANGED watchVars, UNCHANGED <<writing, content, styrene, extracted>>,
         image' \in [Kind -> {Missing, Whole, CutOff} \cup Run], partial' \in [Kind -> {0} \cup Run],
         spoiled' \in BOOLEAN, NEW ok \in BOOLEAN, Heard(r, ok),
         ~spoiled' => ~spoiled,
         ~spoiled' => \A g \in Kind : image'[g] \in {Missing, Whole} /\ (image[g] = Whole => image'[g] = Whole),
         ~spoiled' /\ ok => image'[k] = Whole
  PROVE  ForgeInv'
<1>1. UNCHANGED <<panel, detected, choice, dialog, agreed, watch, handler>>
  BY DEF screenVars, watchVars
<1>2. ForgeTypes /\ MediaAreWhole /\ WorkersAreKnown /\ RunIsShown
  BY DEF ForgeInv
<1>3. fetching' \subseteq fetching
  OBVIOUS
<1>4. ASSUME Own(r)
      PROVE  /\ step = 2 /\ job.device # "nix" /\ k = job.device /\ step # 0 /\ LastStage(job.device) = 7 /\ r = run
             /\ (\A g \in Kind : <<run, g>> \notin fetching') /\ (\A d \in Disk : <<run, d>> \notin writing)
  <2>1. r = run /\ waits /\ step # 0
    BY <1>2, <1>4 DEF Own, RunIsShown, At
  <2>2. At("download") /\ k = job.device
    BY <1>2, <2>1 DEF WorkersAreKnown
  <2>3. step = 2 /\ job.device # "nix" /\ ~At("write")
    BY <2>1, <2>2, RunStands
  <2>4. \A g \in Kind : <<run, g>> \in fetching => g = job.device
    BY <1>2, <2>1 DEF WorkersAreKnown
  <2>5. \A d \in Disk : <<run, d>> \notin writing
    BY <1>2, <2>1, <2>3 DEF WorkersAreKnown
  <2> QED
    BY <2>1, <2>2, <2>3, <2>4, <2>5 DEF LastStage
<1>5. CASE ~Own(r)
  <2>1. UNCHANGED runVars
    BY <1>5 DEF Heard
  <2>2. UNCHANGED <<run, job, step, waits, log>>
    BY <2>1 DEF runVars
  <2>3. /\ RunIsShown' /\ run' \in 0..MaxRuns /\ step' \in 0..7 /\ waits' \in BOOLEAN /\ job' \in Choice
        /\ log' \in {"none", "running", "error", "complete"}
        /\ \A s : At(s)' <=> At(s)
        /\ (Unpacked' <=> Unpacked) /\ (OnDisk' <=> OnDisk)
    BY <2>1, RunStays
  <2>4. ForgeTypes'
    BY <1>1, <1>2, <1>3, <2>3 DEF ForgeTypes
  <2>5. WorkersAreKnown'
    BY <1>1, <1>2, <1>3, <2>2, <2>3 DEF WorkersAreKnown
  <2>6. MediaAreWhole'
    <3>1. step # 0 => job.device \in Kind
      BY <1>2 DEF RunIsShown
    <3>2. At("extract") => step # 0
      BY DEF At
    <3> QED
      BY <1>1, <1>2, <2>2, <2>3, <3>1, <3>2 DEF MediaAreWhole
  <2> QED
    BY <2>3, <2>4, <2>5, <2>6 DEF ForgeInv
<1>6. CASE Own(r) /\ ok
  <2>1. step' = step + 1 /\ waits' = FALSE /\ UNCHANGED <<run, job, log>>
    BY <1>6 DEF Heard, Goes
  <2>2. step' \in step + 1..LastStage(job.device)
    BY <1>4, <1>6, <2>1
  <2>3. /\ RunIsShown' /\ run' \in 0..MaxRuns /\ step' \in 0..7 /\ waits' \in BOOLEAN /\ job' \in Choice
        /\ log' \in {"none", "running", "error", "complete"} /\ step' # 0 /\ step' \in 1..LastStage(job'.device)
        /\ log' = "running"
    BY <1>4, <1>6, <2>1, <2>2, RunGoesOn
  <2>4. ForgeTypes'
    BY <1>1, <1>2, <1>3, <2>3 DEF ForgeTypes
  <2>5. WorkersAreKnown'
    BY <1>1, <1>3, <1>4, <1>6, <2>1, WorkersGone
  <2>6. ~Unpacked' /\ ~OnDisk'
    BY <1>4, <1>6, <2>1 DEF Unpacked, OnDisk
  <2>7. MediaAreWhole'
    <3>1. ~spoiled' => image'[job'.device] = Whole
      BY <1>4, <1>6, <2>1
    <3> QED
      BY <1>1, <1>2, <1>4, <1>6, <2>1, <2>3, <2>6, <3>1 DEF MediaAreWhole
  <2> QED
    BY <2>3, <2>4, <2>5, <2>7 DEF ForgeInv
<1>7. CASE Own(r) /\ ~ok
  <2>1. step' = 0 /\ waits' = FALSE /\ log' = "error" /\ UNCHANGED <<run, job>>
    BY <1>7 DEF Heard, Stops
  <2>2. log' \in {"none", "running", "error", "complete"}
    BY <2>1
  <2>3. /\ RunIsShown' /\ run' \in 0..MaxRuns /\ step' \in 0..7 /\ waits' \in BOOLEAN /\ job' \in Choice
        /\ \A s : ~At(s)'
    BY <2>1, <2>2, RunStops
  <2>4. ForgeTypes'
    BY <1>1, <1>2, <1>3, <2>2, <2>3 DEF ForgeTypes
  <2>5. WorkersAreKnown'
    BY <1>1, <1>3, <1>4, <1>7, <2>1, WorkersGone
  <2>6. MediaAreWhole'
    BY <1>1, <1>2, <1>4, <1>7, <2>1, <2>3 DEF MediaAreWhole
  <2> QED
    BY <2>3, <2>4, <2>5, <2>6 DEF ForgeInv
<1> QED
  BY <1>5, <1>6, <1>7

LEMMA DownloadEndsKeeps ==
  ASSUME ForgeInv, NEW r \in Run, NEW k \in Kind, DoDownload(r, k) \/ DownloadFails(r, k)
  PROVE  ForgeInv'
<1>1. ForgeTypes /\ MediaAreWhole
  BY DEF ForgeInv
<1>2. r # 0 /\ r # Missing /\ r # Whole
  BY ForgeAssumption DEF Run, Missing, Whole
<1>3. CASE DoDownload(r, k)
  <2>1. /\ <<r, k>> \in fetching /\ fetching' = fetching \ {<<r, k>>}
        /\ partial' = [partial EXCEPT ![k] = 0]
        /\ spoiled' = (spoiled \/ partial[k] # r)
        /\ Heard(r, partial[k] # 0)
        /\ UNCHANGED screenVars /\ UNCHANGED watchVars /\ UNCHANGED <<writing, content, styrene, extracted>>
    BY <1>3 DEF DoDownload, diskVars
  <2>2. image' = [image EXCEPT ![k] =
            CASE partial[k] = r \/ image[k] = r -> Whole
              [] partial[k] \notin {0, r} /\ <<partial[k], k>> \in fetching -> partial[k]
              [] partial[k] \notin {0, r}        -> CutOff
              [] OTHER                           -> image[k]]
    BY <1>3 DEF DoDownload
  <2> DEFINE new == CASE partial[k] = r \/ image[k] = r -> Whole
                      [] partial[k] \notin {0, r} /\ <<partial[k], k>> \in fetching -> partial[k]
                      [] partial[k] \notin {0, r}        -> CutOff
                      [] OTHER                           -> image[k]
  <2>3. new \in {Missing, Whole, CutOff} \cup Run
    BY <1>1 DEF ForgeTypes
  <2>4. partial[k] = r => new = Whole
    BY <1>2
  <2>5. image' = [image EXCEPT ![k] = new]
    BY <2>2
  <2> HIDE DEF new
  <2>6. image' \in [Kind -> {Missing, Whole, CutOff} \cup Run]
    BY <1>1, <2>3, <2>5 DEF ForgeTypes
  <2>7. partial' \in [Kind -> {0} \cup Run]
    BY <1>1, <2>1 DEF ForgeTypes
  <2>8. spoiled' \in BOOLEAN
    BY <2>1, Zenon
  <2>9. ~spoiled' => ~spoiled /\ partial[k] = r
    BY <2>1
  <2>10. ~spoiled' => \A g \in Kind : image'[g] \in {Missing, Whole} /\ (image[g] = Whole => image'[g] = Whole)
    BY <1>1, <2>4, <2>5, <2>9 DEF ForgeTypes, MediaAreWhole
  <2>11. ~spoiled' => image'[k] = Whole
    BY <1>1, <2>4, <2>5, <2>9 DEF ForgeTypes
  <2>12. (partial[k] # 0) \in BOOLEAN
    BY Zenon
  <2> QED
    BY <2>1, <2>6, <2>7, <2>8, <2>9, <2>10, <2>11, <2>12, ThreadEnds
<1>4. CASE DownloadFails(r, k)
  <2>1. /\ <<r, k>> \in fetching /\ fetching' = fetching \ {<<r, k>>}
        /\ image' = [image EXCEPT ![k] = IF image[k] = r THEN CutOff ELSE image[k]]
        /\ Heard(r, FALSE)
        /\ UNCHANGED screenVars /\ UNCHANGED watchVars /\ UNCHANGED <<writing, content, styrene, extracted, partial, spoiled>>
    BY <1>4 DEF DownloadFails, diskVars
  <2>2. image' \in [Kind -> {Missing, Whole, CutOff} \cup Run] /\ partial' \in [Kind -> {0} \cup Run] /\ spoiled' \in BOOLEAN
    BY <1>1, <2>1 DEF ForgeTypes
  <2>3. ~spoiled' => \A g \in Kind : image'[g] \in {Missing, Whole} /\ (image[g] = Whole => image'[g] = Whole)
    BY <1>1, <1>2, <2>1 DEF ForgeTypes, MediaAreWhole
  <2>4. FALSE \in BOOLEAN
    BY Zenon
  <2> QED
    BY <2>1, <2>2, <2>3, <2>4, ThreadEnds
<1> QED
  BY <1>3, <1>4

\* A stage that is done, after the download.
LEMMA StageGoes ==
  ASSUME ForgeInv, step > 2, step' \in step + 1..LastStage(job.device), waits' = FALSE, UNCHANGED <<run, job, log>>,
         UNCHANGED screenVars, UNCHANGED watchVars, UNCHANGED <<partial, fetching>>, writing' \subseteq writing,
         \A k \in Kind : <<run, k>> \notin fetching, \A d \in Disk : <<run, d>> \notin writing',
         image' \in [Kind -> {Missing, Whole, CutOff} \cup Run], extracted' \in [Kind -> {"none", "broken", "whole"}],
         content' \in [Disk -> {"old", "part", "bad", "good"}], styrene' \subseteq Disk, spoiled' \in BOOLEAN,
         \A d \in Disk : d # job.disk => content'[d] = content[d],
         ~spoiled' => ~spoiled,
         ~spoiled' => \A k \in Kind : image'[k] \in {Missing, Whole} /\ extracted'[k] \in {"none", "whole"},
         ~spoiled' /\ job.device # "nix" => extracted'[job.device] = "whole",
         ~spoiled' /\ OnDisk' => content'[job.disk] = "good"
  PROVE  ForgeInv'
<1>1. UNCHANGED <<panel, detected, choice, dialog, agreed, watch, handler>>
  BY DEF screenVars, watchVars
<1>2. ForgeTypes /\ MediaAreWhole
  BY DEF ForgeInv
<1>3. step # 0
  OBVIOUS
<1>4. /\ RunIsShown' /\ run' \in 0..MaxRuns /\ step' \in 0..7 /\ waits' \in BOOLEAN /\ job' \in Choice
      /\ log' \in {"none", "running", "error", "complete"} /\ step' # 0 /\ step' \in 1..LastStage(job'.device)
      /\ log' = "running"
  BY <1>3, RunGoesOn
<1>5. ForgeTypes'
  BY <1>1, <1>2, <1>4 DEF ForgeTypes
<1>6. WorkersAreKnown'
  <2>1. \A d \in Disk : content'[d] # content[d] => \E r \in Run : r <= run /\ agreed[r].disk = d
    BY <1>3, DiskWasConfirmed
  <2> QED
    BY <1>1, <2>1, WorkersGone
<1>7. MediaAreWhole'
  <2>1. step' > 3 /\ job.device \in Kind
    <3>1. step \in 0..7
      BY <1>2 DEF ForgeTypes
    <3>2. LastStage(job.device) \in {4, 7}
      BY DEF LastStage
    <3> QED
      BY <1>3, <3>1, <3>2, RunStands
  <2>2. ~At("extract")'
    BY <1>4, <2>1, StandsNext
  <2>3. Unpacked' => job.device # "nix"
    BY DEF Unpacked
  <2> QED
    BY <1>1, <1>2, <1>4, <2>1, <2>2, <2>3 DEF MediaAreWhole
<1> QED
  BY <1>4, <1>5, <1>6, <1>7 DEF ForgeInv

\* A stage that fails, after the download.
LEMMA StageStops ==
  ASSUME ForgeInv, step # 0, Stops,
         UNCHANGED screenVars, UNCHANGED watchVars, UNCHANGED <<partial, fetching>>, writing' \subseteq writing,
         \A d \in Disk : <<run, d>> \notin writing',
         image' \in [Kind -> {Missing, Whole, CutOff} \cup Run], extracted' \in [Kind -> {"none", "broken", "whole"}],
         content' \in [Disk -> {"old", "part", "bad", "good"}], styrene' \subseteq Disk, spoiled' \in BOOLEAN,
         \A d \in Disk : d # job.disk => content'[d] = content[d],
         ~spoiled' => ~spoiled,
         ~spoiled' => \A k \in Kind : image'[k] \in {Missing, Whole} /\ extracted'[k] \in {"none", "whole"}
  PROVE  ForgeInv'
<1>1. UNCHANGED <<panel, detected, choice, dialog, agreed, watch, handler>>
  BY DEF screenVars, watchVars
<1>2. ForgeTypes /\ MediaAreWhole
  BY DEF ForgeInv
<1>3. step' = 0 /\ waits' = FALSE /\ log' = "error" /\ UNCHANGED <<run, job>>
  BY DEF Stops
<1>4. log' \in {"none", "running", "error", "complete"}
  BY <1>3
<1>5. /\ RunIsShown' /\ run' \in 0..MaxRuns /\ step' \in 0..7 /\ waits' \in BOOLEAN /\ job' \in Choice
      /\ \A s : ~At(s)'
  BY <1>3, <1>4, RunStops
<1>6. ForgeTypes'
  BY <1>1, <1>2, <1>4, <1>5 DEF ForgeTypes
<1>7. WorkersAreKnown'
  <2>1. \A d \in Disk : content'[d] # content[d] => \E r \in Run : r <= run /\ agreed[r].disk = d
    BY DiskWasConfirmed
  <2> QED
    BY <1>1, <1>3, <2>1, WorkersGone
<1>8. MediaAreWhole'
  BY <1>1, <1>2, <1>3, <1>5 DEF MediaAreWhole
<1> QED
  BY <1>5, <1>6, <1>7, <1>8 DEF ForgeInv

LEMMA ExtractKeeps == ASSUME ForgeInv, Extract \/ ExtractFails PROVE ForgeInv'
<1> DEFINE k == job.device
<1>1. ForgeTypes /\ MediaAreWhole
  BY DEF ForgeInv
<1>2. At("extract") /\ step # 0
  BY DEF Extract, ExtractFails, At
<1>3. k \in Kind /\ k # "nix" /\ step = 3 /\ run \in Run /\ job.disk \in Disk /\ LastStage(k) = 7 /\ ~At("download") /\ ~At("write")
  BY <1>2, RunStands DEF LastStage
<1>4. ~waits /\ (\A g \in Kind : <<run, g>> \notin fetching) /\ (\A d \in Disk : <<run, d>> \notin writing)
  BY <1>2, <1>3, NobodyWorks
<1>5. ~spoiled => image[k] = Whole /\ \A g \in Kind : image[g] \in {Missing, Whole} /\ extracted[g] \in {"none", "whole"}
  BY <1>1, <1>2 DEF MediaAreWhole
<1>6. CASE Extract
  <2>1. /\ extracted' = [extracted EXCEPT ![k] = IF extracted[k] # "none" THEN extracted[k]
                                                 ELSE IF image[k] = Whole THEN "whole" ELSE "broken"]
        /\ image' = IF k = "sd" /\ extracted[k] = "none" THEN [image EXCEPT ![k] = Missing] ELSE image
        /\ step' = step + 1 /\ waits' = FALSE /\ UNCHANGED <<run, job, log>>
        /\ UNCHANGED screenVars /\ UNCHANGED watchVars /\ UNCHANGED <<partial, fetching, writing, content, styrene, spoiled>>
    BY <1>6 DEF Extract, Goes, diskVars
  <2>2. /\ image' \in [Kind -> {Missing, Whole, CutOff} \cup Run] /\ extracted' \in [Kind -> {"none", "broken", "whole"}]
    BY <1>1, <1>3, <2>1 DEF ForgeTypes
  <2>3. /\ content' \in [Disk -> {"old", "part", "bad", "good"}] /\ styrene' \subseteq Disk /\ spoiled' \in BOOLEAN
    BY <1>1, <2>1 DEF ForgeTypes
  <2>4. ~spoiled' => \A g \in Kind : image'[g] \in {Missing, Whole} /\ extracted'[g] \in {"none", "whole"}
    BY <1>1, <1>3, <1>5, <2>1 DEF ForgeTypes
  <2>5. ~spoiled' => extracted'[k] = "whole"
    BY <1>1, <1>3, <1>5, <2>1 DEF ForgeTypes
  <2>6. ~OnDisk'
    BY <1>3, <2>1 DEF OnDisk
  <2>7. step' \in step + 1..LastStage(k)
    BY <1>3, <2>1
  <2>8. step > 2
    BY <1>3
  <2> QED
    BY <1>4, <2>1, <2>2, <2>3, <2>4, <2>5, <2>6, <2>7, <2>8, StageGoes
<1>7. CASE ExtractFails
  <2>1. PICK left \in (IF k = "x86" THEN {"none", "broken"} ELSE {"none"}) :
           extracted' = [extracted EXCEPT ![k] = left] /\ spoiled' = (spoiled \/ left = "broken")
    BY <1>7 DEF ExtractFails
  <2>2. Stops /\ UNCHANGED screenVars /\ UNCHANGED watchVars /\ UNCHANGED <<image, partial, fetching, writing, content, styrene>>
    BY <1>7 DEF ExtractFails, diskVars
  <2>3. left \in {"none", "broken"}
    BY <2>1
  <2>4. extracted' \in [Kind -> {"none", "broken", "whole"}]
    BY <1>1, <2>1, <2>3 DEF ForgeTypes
  <2>5. spoiled' \in BOOLEAN
    BY <2>1, Zenon
  <2>6. ~spoiled' => ~spoiled /\ left = "none"
    BY <2>1, <2>3
  <2>7. ~spoiled' => \A g \in Kind : image'[g] \in {Missing, Whole} /\ extracted'[g] \in {"none", "whole"}
    BY <1>1, <1>3, <1>5, <2>1, <2>2, <2>6 DEF ForgeTypes
  <2>8. /\ image' \in [Kind -> {Missing, Whole, CutOff} \cup Run] /\ content' \in [Disk -> {"old", "part", "bad", "good"}]
        /\ styrene' \subseteq Disk
    BY <1>1, <2>2 DEF ForgeTypes
  <2> QED
    BY <1>2, <1>4, <2>2, <2>4, <2>5, <2>6, <2>7, <2>8, StageStops
<1> QED
  BY <1>6, <1>7

LEMMA WriteKeeps == ASSUME ForgeInv, DdWrite PROVE ForgeInv'
<1> DEFINE d == job.disk
<1>1. /\ At("write") /\ ~waits /\ styrene' = styrene \ {d} /\ writing' = writing \cup {<<run, d>>} /\ waits' = TRUE
      /\ content' = [content EXCEPT ![d] = IF \E r \in Run : <<r, d>> \in writing THEN "bad" ELSE "part"]
      /\ UNCHANGED screenVars /\ UNCHANGED watchVars
      /\ UNCHANGED <<run, job, step, log, image, partial, fetching, extracted, spoiled>>
  BY DEF DdWrite, fileVars
<1>2. UNCHANGED <<panel, detected, choice, dialog, agreed, watch, handler>>
  BY <1>1 DEF screenVars, watchVars
<1>3. ForgeTypes /\ MediaAreWhole /\ WorkersAreKnown /\ RunIsShown /\ step # 0
  BY <1>1 DEF ForgeInv, At
<1>4. /\ (step = 3 /\ job.device = "nix") \/ (step = 4 /\ job.device = "sd")
      /\ d \in Disk /\ run \in Run /\ job = agreed[run] /\ log = "running"
  BY <1>1, <1>3, RunStands
<1>5. (\A g \in Kind : <<run, g>> \notin fetching) /\ (\A e \in Disk : <<run, e>> \notin writing)
  BY <1>1, <1>3, NobodyWorks
<1>6. run <= run
  BY <1>4, ForgeAssumption DEF Run
<1>7. \A s : At(s)' <=> At(s)
  BY <1>1 DEF At
<1>8. /\ content' \in [Disk -> {"old", "part", "bad", "good"}] /\ writing' \subseteq Run \X Disk /\ styrene' \subseteq Disk
      /\ \A e \in Disk : e # d => content'[e] = content[e]
  BY <1>1, <1>3, <1>4 DEF ForgeTypes
<1>9. ForgeTypes'
  <2>1. waits' \in BOOLEAN
    BY <1>1, Zenon
  <2> QED
    BY <1>1, <1>2, <1>3, <1>8, <2>1 DEF ForgeTypes
<1>10. RunIsShown'
  BY <1>1, <1>2, <1>3, <1>7 DEF RunIsShown
<1>11. \A r \in Run, e \in Disk : <<r, e>> \in writing' => <<r, e>> \in writing \/ (r = run /\ e = d)
  BY <1>1
<1>12. WorkersAreKnown'
  <2>1. \A r \in Run, k \in Kind : <<r, k>> \in fetching' => r <= run /\ r # run
    BY <1>1, <1>3, <1>5 DEF WorkersAreKnown
  <2>2. \A r \in Run, e \in Disk : <<r, e>> \in writing' => r <= run /\ agreed[r].disk = e /\ (r = run => e = job.disk)
    BY <1>3, <1>4, <1>5, <1>6, <1>11 DEF WorkersAreKnown
  <2>3. \A e \in Disk : content'[e] # "old" => \E r \in Run : r <= run /\ agreed[r].disk = e
    BY <1>3, <1>4, <1>6, <1>8 DEF WorkersAreKnown
  <2> QED
    BY <1>1, <1>2, <1>7, <2>1, <2>2, <2>3 DEF WorkersAreKnown
<1>13. MediaAreWhole'
  <2>1. ~OnDisk' /\ (Unpacked' <=> Unpacked) /\ ~At("extract")
    BY <1>1, <1>3, <1>4, RunStands DEF OnDisk, Unpacked
  <2>2. ASSUME ~spoiled PROVE content'[d] = "part"
    <3>1. ~\E r \in Run : <<r, d>> \in writing
      BY <1>3, <1>4, <1>5, <2>2 DEF MediaAreWhole
    <3> QED
      BY <1>1, <1>3, <1>4, <3>1 DEF ForgeTypes
  <2>3. ~spoiled => \A r \in Run, e \in Disk : <<r, e>> \in writing' => r = run
    BY <1>3, <1>11 DEF MediaAreWhole
  <2> QED
    BY <1>1, <1>2, <1>3, <1>4, <1>7, <2>1, <2>2, <2>3 DEF MediaAreWhole
<1> QED
  BY <1>9, <1>10, <1>12, <1>13 DEF ForgeInv

LEMMA DdEndsKeeps ==
  ASSUME ForgeInv, NEW r \in Run, NEW d \in Disk, NEW ok \in BOOLEAN, <<r, d>> \in writing, Heard(r, ok),
         writing' = writing \ {<<r, d>>}, NEW c \in {"good", "bad"}, content' = [content EXCEPT ![d] = c],
         UNCHANGED screenVars, UNCHANGED watchVars, UNCHANGED <<fileVars, styrene>>,
         spoiled' \in BOOLEAN, ~spoiled' => ~spoiled,
         ~spoiled' /\ ok /\ content[d] = "part" /\ Own(r) /\ WholeImage(job.device) => c = "good"
  PROVE  ForgeInv'
<1>1. UNCHANGED <<panel, detected, choice, dialog, agreed, watch, handler, image, partial, fetching, extracted, styrene>>
  BY DEF screenVars, watchVars, fileVars
<1>2. ForgeTypes /\ MediaAreWhole /\ WorkersAreKnown /\ RunIsShown
  BY DEF ForgeInv
<1>3. /\ content' \in [Disk -> {"old", "part", "bad", "good"}] /\ writing' \subseteq writing
      /\ (\A e \in Disk : e # d => content'[e] = content[e]) /\ content'[d] = c
  BY <1>2 DEF ForgeTypes
<1>4. ASSUME Own(r)
      PROVE  /\ r = run /\ step # 0 /\ At("write") /\ d = job.disk /\ waits
             /\ (step = 3 /\ job.device = "nix" /\ LastStage(job.device) = 4)
                   \/ (step = 4 /\ job.device = "sd" /\ LastStage(job.device) = 7)
             /\ (\A g \in Kind : <<run, g>> \notin fetching) /\ (\A e \in Disk : <<run, e>> \notin writing')
             /\ job.device \in Kind
  <2>1. r = run /\ waits /\ step # 0
    BY <1>2, <1>4 DEF Own, RunIsShown, At
  <2>2. At("write") /\ d = job.disk
    BY <1>2, <2>1 DEF WorkersAreKnown
  <2>3. (step = 3 /\ job.device = "nix") \/ (step = 4 /\ job.device = "sd")
    BY <2>1, <2>2, RunStands
  <2>4. ~At("download") /\ job.device \in Kind
    BY <2>1, <2>3, RunStands
  <2>5. \A g \in Kind : <<run, g>> \notin fetching
    BY <1>2, <2>1, <2>4 DEF WorkersAreKnown
  <2>6. \A e \in Disk : <<run, e>> \in writing => e = job.disk
    BY <1>2, <2>1 DEF WorkersAreKnown
  <2>7. \A e \in Disk : <<run, e>> \notin writing'
    BY <2>1, <2>2, <2>6
  <2>8. (job.device = "nix" => LastStage(job.device) = 4) /\ (job.device = "sd" => LastStage(job.device) = 7)
    BY DEF LastStage
  <2> QED
    BY <2>1, <2>2, <2>3, <2>4, <2>5, <2>7, <2>8
<1>5. /\ image' \in [Kind -> {Missing, Whole, CutOff} \cup Run] /\ extracted' \in [Kind -> {"none", "broken", "whole"}]
      /\ styrene' \subseteq Disk
  BY <1>1, <1>2 DEF ForgeTypes
<1>6. ~spoiled' => \A k \in Kind : image'[k] \in {Missing, Whole} /\ extracted'[k] \in {"none", "whole"}
  BY <1>1, <1>2 DEF MediaAreWhole
<1>7. CASE ~Own(r)
  <2>1. UNCHANGED runVars
    BY <1>7 DEF Heard
  <2>2. UNCHANGED <<run, job, step, waits, log>>
    BY <2>1 DEF runVars
  <2>3. /\ RunIsShown' /\ run' \in 0..MaxRuns /\ step' \in 0..7 /\ waits' \in BOOLEAN /\ job' \in Choice
        /\ log' \in {"none", "running", "error", "complete"}
        /\ \A s : At(s)' <=> At(s)
    BY <2>1, RunStays
  <2>4. ForgeTypes'
    BY <1>1, <1>2, <1>3, <2>3 DEF ForgeTypes
  <2>5. \A e \in Disk : content'[e] # "old" => \E q \in Run : q <= run /\ agreed[q].disk = e
    <3>1. r <= run /\ agreed[r].disk = d
      BY <1>2 DEF WorkersAreKnown
    <3> QED
      BY <1>2, <1>3, <3>1 DEF WorkersAreKnown
  <2>6. WorkersAreKnown'
    BY <1>1, <1>2, <1>3, <2>2, <2>3, <2>5 DEF WorkersAreKnown
  <2>7. spoiled
    <3>1. ASSUME ~spoiled PROVE FALSE
      <4>1. r = run /\ step # 0
        BY <1>2, <3>1 DEF MediaAreWhole
      <4>2. waits
        BY <1>2, <4>1 DEF WorkersAreKnown
      <4> QED
        BY <1>7, <4>1, <4>2 DEF Own
    <3> QED
      BY <3>1
  <2>8. MediaAreWhole'
    BY <2>7 DEF MediaAreWhole
  <2> QED
    BY <2>3, <2>4, <2>6, <2>8 DEF ForgeInv
<1>8. CASE Own(r) /\ ok
  <2>1. step' = step + 1 /\ waits' = FALSE /\ UNCHANGED <<run, job, log>>
    BY <1>8 DEF Heard, Goes
  <2>2. step' \in step + 1..LastStage(job.device) /\ step > 2
    BY <1>4, <1>8, <2>1
  <2>3. ASSUME ~spoiled' PROVE content[d] = "part" /\ (job.device # "nix" => extracted[job.device] = "whole")
    <3>1. content[d] = "part"
      BY <1>2, <1>4, <1>8, <2>3 DEF MediaAreWhole
    <3>2. job.device # "nix" => Unpacked
      BY <1>4, <1>8 DEF Unpacked
    <3> QED
      BY <1>2, <1>4, <1>8, <2>3, <3>1, <3>2 DEF MediaAreWhole
  <2>4. ~spoiled' => c = "good"
    BY <1>8, <2>3 DEF WholeImage
  <2> QED
    BY <1>1, <1>3, <1>4, <1>5, <1>6, <1>8, <2>1, <2>2, <2>3, <2>4, StageGoes
<1>9. CASE Own(r) /\ ~ok
  <2>1. Stops
    BY <1>9 DEF Heard
  <2> QED
    BY <1>1, <1>3, <1>4, <1>5, <1>6, <1>9, <2>1, StageStops
<1> QED
  BY <1>7, <1>8, <1>9

LEMMA WritingEndsKeeps ==
  ASSUME ForgeInv, NEW r \in Run, NEW d \in Disk, PipeEnds(r, d) \/ \E ok \in BOOLEAN : DdEnds(r, d, ok)
  PROVE  ForgeInv'
<1>1. CASE PipeEnds(r, d)
  <2>1. /\ <<r, d>> \in writing /\ Heard(r, TRUE) /\ writing' = writing \ {<<r, d>>}
        /\ content' = [content EXCEPT ![d] = "bad"] /\ spoiled' = TRUE
        /\ UNCHANGED screenVars /\ UNCHANGED watchVars /\ UNCHANGED <<fileVars, styrene>>
    BY <1>1 DEF PipeEnds
  <2>2. spoiled' \in BOOLEAN /\ TRUE \in BOOLEAN
    BY <2>1, Zenon
  <2>3. "bad" \in {"good", "bad"}
    OBVIOUS
  <2> QED
    BY <2>1, <2>2, <2>3, DdEndsKeeps
<1>2. ASSUME NEW ok \in BOOLEAN, DdEnds(r, d, ok) PROVE ForgeInv'
  <2> DEFINE c == IF ok /\ content[d] = "part" /\ Own(r) /\ WholeImage(job.device) THEN "good" ELSE "bad"
  <2>1. /\ <<r, d>> \in writing /\ Heard(r, ok) /\ writing' = writing \ {<<r, d>>}
        /\ content' = [content EXCEPT ![d] = c]
        /\ UNCHANGED screenVars /\ UNCHANGED watchVars /\ UNCHANGED <<fileVars, styrene>> /\ UNCHANGED spoiled
    BY <1>2 DEF DdEnds
  <2>2. c \in {"good", "bad"}
    OBVIOUS
  <2>3. spoiled' \in BOOLEAN
    BY <2>1 DEF ForgeInv, ForgeTypes
  <2>4. ok /\ content[d] = "part" /\ Own(r) /\ WholeImage(job.device) => c = "good"
    OBVIOUS
  <2> HIDE DEF c
  <2> QED
    BY <2>1, <2>2, <2>3, <2>4, DdEndsKeeps
<1> QED
  BY <1>1, <1>2

LEMMA CopyingKeeps == ASSUME ForgeInv, Partition \/ Copy \/ Remount \/ CopyStyreneFiles PROVE ForgeInv'
<1> DEFINE d == job.disk
<1>1. ForgeTypes /\ MediaAreWhole /\ step # 0
  BY DEF Partition, Copy, Remount, CopyStyreneFiles, At, ForgeInv
<1>2. /\ At("partition") \/ At("copy") \/ At("remount") \/ At("styrene")
      /\ UNCHANGED screenVars /\ UNCHANGED watchVars /\ UNCHANGED <<run, job, log, fileVars, writing, spoiled>>
  BY DEF Partition, Copy, Remount, CopyStyreneFiles, Goes, diskVars
<1>3. /\ (step = 4 /\ job.device = "x86") \/ (step = 5 /\ job.device = "x86") \/ (step = 5 /\ job.device = "sd") \/ step = 6
      /\ ~At("download") /\ ~At("write") /\ job.device \in Kind /\ d \in Disk /\ run \in Run
  BY <1>1, <1>2, RunStands
<1>4. ~waits /\ (\A g \in Kind : <<run, g>> \notin fetching) /\ (\A e \in Disk : <<run, e>> \notin writing)
  BY <1>1, <1>3, NobodyWorks
<1>5. step \in 1..LastStage(job.device) /\ job.device \in {"nix", "x86", "sd"}
  BY <1>1, RunStands
<1>6. job.device # "nix" /\ LastStage(job.device) = 7 /\ step > 2
  BY <1>3, <1>5 DEF LastStage
<1>7. UNCHANGED <<image, partial, fetching, extracted>>
  BY <1>2 DEF fileVars
<1>8. /\ image' \in [Kind -> {Missing, Whole, CutOff} \cup Run] /\ extracted' \in [Kind -> {"none", "broken", "whole"}]
      /\ spoiled' \in BOOLEAN
  BY <1>1, <1>2, <1>7 DEF ForgeTypes
<1>9. ~spoiled' => \A k \in Kind : image'[k] \in {Missing, Whole} /\ extracted'[k] \in {"none", "whole"}
  BY <1>1, <1>2, <1>7 DEF MediaAreWhole
<1>10. ~spoiled' => extracted'[job.device] = "whole" /\ extracted[job.device] = "whole"
  <2>1. Unpacked
    BY <1>3, <1>6 DEF Unpacked
  <2> QED
    BY <1>1, <1>2, <1>7, <2>1 DEF MediaAreWhole
<1>11. waits' = FALSE
  BY <1>4 DEF Partition, Copy, Remount, CopyStyreneFiles, Goes
<1>12. writing' \subseteq writing /\ \A e \in Disk : <<run, e>> \notin writing'
  BY <1>2, <1>4
<1>13. CASE Partition
  <2>1. content' = [content EXCEPT ![d] = "part"] /\ styrene' = styrene \ {d} /\ step' = step + 1 /\ step = 4 /\ job.device = "x86"
    BY <1>1, <1>13, RunStands DEF Partition, Goes
  <2>2. /\ content' \in [Disk -> {"old", "part", "bad", "good"}] /\ styrene' \subseteq Disk
        /\ \A e \in Disk : e # d => content'[e] = content[e]
    BY <1>1, <2>1 DEF ForgeTypes
  <2>3. ~OnDisk'
    BY <1>2, <2>1 DEF OnDisk
  <2>4. step' \in step + 1..LastStage(job.device)
    BY <1>6, <2>1
  <2> QED
    BY <1>2, <1>4, <1>6, <1>7, <1>8, <1>9, <1>10, <1>11, <1>12, <2>2, <2>3, <2>4, StageGoes
<1>14. CASE Copy
  <2>1. /\ content' = [content EXCEPT ![d] =
             IF WholeImage(job.device) /\ ~\E r \in Run : <<r, d>> \in writing THEN "good" ELSE "bad"]
        /\ UNCHANGED styrene /\ step' = step + 1 /\ step = 5 /\ job.device = "x86"
    BY <1>1, <1>14, RunStands DEF Copy, Goes
  <2>2. /\ content' \in [Disk -> {"old", "part", "bad", "good"}] /\ styrene' \subseteq Disk
        /\ \A e \in Disk : e # d => content'[e] = content[e]
    BY <1>1, <2>1 DEF ForgeTypes
  <2>3. ASSUME ~spoiled' PROVE content'[d] = "good"
    <3>1. ~\E r \in Run : <<r, d>> \in writing
      BY <1>1, <1>2, <1>3, <1>4, <2>3 DEF MediaAreWhole
    <3>2. WholeImage(job.device)
      BY <1>10, <2>3 DEF WholeImage
    <3> QED
      BY <1>1, <1>3, <2>1, <3>1, <3>2 DEF ForgeTypes
  <2>4. step' \in step + 1..LastStage(job.device)
    BY <1>6, <2>1
  <2> QED
    BY <1>2, <1>4, <1>6, <1>7, <1>8, <1>9, <1>10, <1>11, <1>12, <2>2, <2>3, <2>4, StageGoes
<1>15. CASE Remount \/ CopyStyreneFiles
  <2>1. /\ step' = step + 1 \/ (step' = step + 2 /\ step = 5)
        /\ styrene' = styrene \/ styrene' = styrene \cup {d}
    BY <1>1, <1>15, RunStands DEF Remount, CopyStyreneFiles, Goes, diskVars
  <2>2. /\ content' \in [Disk -> {"old", "part", "bad", "good"}] /\ styrene' \subseteq Disk
        /\ \A e \in Disk : content'[e] = content[e]
    <3>1. UNCHANGED content
      BY <1>15 DEF Remount, CopyStyreneFiles, diskVars
    <3> QED
      BY <1>1, <1>3, <2>1, <3>1 DEF ForgeTypes
  <2>3. step' \in step + 1..LastStage(job.device)
    <3>1. step # 4
      <4>1. At("remount") \/ At("styrene")
        BY <1>15 DEF Remount, CopyStyreneFiles
      <4> QED
        BY <1>1, <4>1, RunStands
    <3>2. step = 5 \/ step = 6
      BY <1>3, <3>1
    <3> QED
      BY <1>6, <2>1, <3>2
  <2>4. ~spoiled' => content'[d] = "good"
    <3>1. At("remount") \/ At("styrene")
      BY <1>15 DEF Remount, CopyStyreneFiles
    <3>2. (step = 5 /\ job.device = "sd") \/ step = 6
      BY <1>1, <3>1, RunStands
    <3>3. OnDisk
      BY <1>5, <1>6, <3>2 DEF OnDisk
    <3> QED
      BY <1>1, <1>2, <1>3, <2>2, <3>3 DEF MediaAreWhole
  <2> QED
    BY <1>2, <1>4, <1>6, <1>7, <1>8, <1>9, <1>10, <1>11, <1>12, <2>2, <2>3, <2>4, StageGoes
<1> QED
  BY <1>13, <1>14, <1>15

-----------------------------------------------------------------------------
(* The end of it.                                                           *)

LEMMA FinishKeeps == ASSUME ForgeInv, FinishMedia PROVE ForgeInv'
<1>1. /\ At("finish") /\ step' = 0 /\ log' = "complete"
      /\ watch' = [active |-> TRUE, owns |-> handler = "none"]
      /\ handler' = IF handler = "none" THEN "watch" ELSE handler
      /\ UNCHANGED <<panel, detected, choice, dialog, agreed, run, job, waits, image, partial, fetching, extracted,
                     writing, content, styrene, spoiled>>
  BY DEF FinishMedia, WatchStarts, screenVars, fileVars, diskVars
<1>2. ForgeTypes /\ MediaAreWhole /\ WorkersAreKnown /\ RunIsShown /\ step # 0
  BY <1>1 DEF ForgeInv, At
<1>3. /\ step = LastStage(job.device) /\ job.device \in {"nix", "x86", "sd"} /\ panel = "forge" /\ ~watch.owns
      /\ job.disk \in Disk
  BY <1>1, <1>2, RunStands
<1>4. step > 3 /\ (job.device # "nix" => step > 5)
  BY <1>3 DEF LastStage
<1>5. ~At("download") /\ ~At("write")
  BY <1>2, <1>3, <1>4, RunStands
<1>6. ~waits /\ (\A g \in Kind : <<run, g>> \notin fetching) /\ (\A e \in Disk : <<run, e>> \notin writing)
  BY <1>2, <1>5, NobodyWorks
<1>7. watch'.owns <=> handler = "none"
  BY <1>1
<1>8. watch'.owns <=> handler' = "watch"
  BY <1>1, <1>2, <1>3, <1>7 DEF RunIsShown
<1>9. ForgeTypes'
  <2>1. watch' \in [active : BOOLEAN, owns : BOOLEAN]
    <3>1. (handler = "none") \in BOOLEAN /\ TRUE \in BOOLEAN
      BY Zenon
    <3> QED
      BY <1>1, <3>1
  <2>2. handler' \in {"none", "watch", "other"} /\ step' \in 0..7 /\ log' \in {"none", "running", "error", "complete"}
    BY <1>1, <1>2 DEF ForgeTypes
  <2> QED
    BY <1>1, <1>2, <2>1, <2>2 DEF ForgeTypes
<1>10. RunIsShown'
  BY <1>1, <1>2, <1>3, <1>6, <1>8 DEF RunIsShown
<1>11. WorkersAreKnown'
  BY <1>1, <1>2, <1>6 DEF WorkersAreKnown
<1>12. MediaAreWhole'
  <2>1. OnDisk
    <3>1. IF job.device = "nix" THEN step = 4 ELSE step = 7
      BY <1>3 DEF LastStage
    <3> QED
      BY <1>3, <3>1 DEF OnDisk
  <2>2. \A s : ~At(s)'
    BY <1>1 DEF At
  <2> QED
    BY <1>1, <1>2, <1>6, <2>1, <2>2 DEF MediaAreWhole
<1> QED
  BY <1>9, <1>10, <1>11, <1>12 DEF ForgeInv

\* The watch is over.
LEMMA WatchEnds ==
  ASSUME ForgeInv, WatchStops
  PROVE  /\ watch' \in [active : BOOLEAN, owns : BOOLEAN] /\ handler' \in {"none", "watch", "other"}
         /\ ~watch'.owns /\ handler' # "watch"
<1>1. watch' = Off /\ handler' = IF watch.owns THEN "none" ELSE handler
  BY DEF WatchStops
<1>2. handler \in {"none", "watch", "other"} /\ (watch.owns <=> handler = "watch")
  BY DEF ForgeInv, ForgeTypes, RunIsShown
<1> QED
  BY <1>1, <1>2 DEF Off

LEMMA LeavingKeeps ==
  ASSUME ForgeInv, panel # "confirm", panel' \in {"gone", "select"}, WatchStops, UNCHANGED <<dialog, agreed>>,
         detected' \subseteq Disk, choice' \in Choice, log' \in {"none", "running", "error", "complete"},
         IF step = 0 THEN UNCHANGED <<run, job, step, waits, fileVars, diskVars, spoiled>> ELSE WorkerIsCancelled
  PROVE  ForgeInv'
<1>1. ForgeTypes /\ MediaAreWhole /\ WorkersAreKnown /\ RunIsShown
  BY DEF ForgeInv
<1>2. /\ watch' \in [active : BOOLEAN, owns : BOOLEAN] /\ handler' \in {"none", "watch", "other"}
      /\ ~watch'.owns /\ handler' # "watch"
  BY WatchEnds
<1>3. /\ step' = 0 /\ UNCHANGED <<run, job, image, partial, fetching, writing, content, styrene>>
      /\ step = 0 => UNCHANGED <<waits, extracted, spoiled>>
      /\ step # 0 => waits' = FALSE
  BY DEF WorkerIsCancelled, fileVars, diskVars
<1>4. ~waits' /\ waits' \in BOOLEAN
  <2>1. CASE step = 0
    <3>1. ~At("download") /\ ~At("write")
      BY <2>1, NotAtAll
    <3> QED
      BY <1>1, <1>3, <2>1, <3>1 DEF RunIsShown, ForgeTypes
  <2>2. CASE step # 0
    <3>1. waits' = FALSE
      BY <1>3, <2>2
    <3> QED
      BY <3>1, Zenon
  <2> QED
    BY <2>1, <2>2
<1>5. /\ extracted' \in [Kind -> {"none", "broken", "whole"}] /\ spoiled' \in BOOLEAN /\ (~spoiled' => ~spoiled)
      /\ ~spoiled' => \A k \in Kind : extracted'[k] \in {"none", "whole"}
      /\ ~spoiled' /\ step # 0 => ~(waits /\ At("write"))
  <2>1. CASE step = 0
    BY <1>1, <1>3, <2>1 DEF ForgeTypes, MediaAreWhole
  <2>2. CASE step # 0
    <3>1. /\ spoiled' = (spoiled \/ At("extract") \/ (waits /\ At("write")))
          /\ \/ At("extract") /\ \E left \in {"none", "broken"} : extracted' = [extracted EXCEPT ![job.device] = left]
             \/ UNCHANGED extracted
          /\ ~At("extract") => UNCHANGED extracted
      BY <2>2 DEF WorkerIsCancelled
    <3>2. extracted' \in [Kind -> {"none", "broken", "whole"}]
      BY <1>1, <3>1 DEF ForgeTypes
    <3>3. spoiled' \in BOOLEAN
      BY <3>1, Zenon
    <3>4. ~spoiled' => ~spoiled /\ ~At("extract") /\ ~(waits /\ At("write"))
      BY <3>1
    <3>5. ~spoiled' => \A k \in Kind : extracted'[k] \in {"none", "whole"}
      BY <1>1, <3>1, <3>4 DEF MediaAreWhole
    <3> QED
      BY <3>2, <3>3, <3>4, <3>5
  <2> QED
    BY <2>1, <2>2
<1>6. ForgeTypes'
  <2>1. step' \in 0..7 /\ panel' \in {"gone", "select", "confirm", "forge"}
    BY <1>3
  <2> QED
    BY <1>1, <1>2, <1>3, <1>4, <1>5, <2>1 DEF ForgeTypes
<1>7. RunIsShown'
  BY <1>1, <1>2, <1>3, <1>4 DEF RunIsShown
<1>8. WorkersAreKnown'
  BY <1>1, <1>3 DEF WorkersAreKnown
<1>9. MediaAreWhole'
  <2>1. \A s : ~At(s)'
    BY <1>3 DEF At
  <2>2. ASSUME ~spoiled' PROVE writing = {}
    <3>1. \A r \in Run, d \in Disk : <<r, d>> \notin writing
      BY <1>1, <1>5, <2>2 DEF MediaAreWhole, WorkersAreKnown
    <3> QED
      BY <1>1, <3>1 DEF ForgeTypes
  <2> QED
    BY <1>1, <1>3, <1>4, <1>5, <2>1, <2>2 DEF MediaAreWhole
<1> QED
  BY <1>6, <1>7, <1>8, <1>9 DEF ForgeInv

LEMMA EndOfRunKeeps == ASSUME ForgeInv, OnForgeLogAborted \/ PopProvision \/ MeshNodeFound PROVE ForgeInv'
<1>1. ForgeTypes /\ MediaAreWhole /\ WorkersAreKnown /\ RunIsShown
  BY DEF ForgeInv
<1>2. CASE OnForgeLogAborted
  BY <1>1, <1>2, LeavingKeeps DEF OnForgeLogAborted, ForgeTypes
<1>3. CASE PopProvision
  <2>1. Nothing \in Choice
    BY DEF Nothing, Choice
  <2> QED
    BY <1>1, <1>3, <2>1, LeavingKeeps DEF PopProvision
<1>4. CASE MeshNodeFound
  <2>1. /\ WatchStops /\ UNCHANGED <<panel, detected, choice, dialog, agreed, run, job, step, waits, log, image, partial,
                     fetching, extracted, writing, content, styrene, spoiled>>
    BY <1>4 DEF MeshNodeFound, screenVars, runVars, fileVars, diskVars
  <2>2. /\ watch' \in [active : BOOLEAN, owns : BOOLEAN] /\ handler' \in {"none", "watch", "other"}
        /\ ~watch'.owns /\ handler' # "watch"
    BY <2>1, WatchEnds
  <2>3. \A s : At(s)' <=> At(s)
    BY <2>1 DEF At
  <2>4. ForgeTypes'
    BY <1>1, <2>1, <2>2 DEF ForgeTypes
  <2>5. RunIsShown'
    BY <1>1, <2>1, <2>2, <2>3 DEF RunIsShown
  <2>6. WorkersAreKnown'
    BY <1>1, <2>1, <2>3 DEF WorkersAreKnown
  <2>7. (Unpacked' <=> Unpacked) /\ (OnDisk' <=> OnDisk)
    BY <2>1 DEF Unpacked, OnDisk
  <2>8. MediaAreWhole'
    BY <1>1, <2>1, <2>3, <2>7 DEF MediaAreWhole
  <2> QED
    BY <2>4, <2>5, <2>6, <2>8 DEF ForgeInv
<1> QED
  BY <1>2, <1>3, <1>4

LEMMA ForgeStands == ASSUME ForgeInv, UNCHANGED forgeVars PROVE ForgeInv'
<1>1. UNCHANGED <<panel, detected, choice, dialog, agreed, run, job, step, waits, log, image, partial,
                  fetching, extracted, writing, content, styrene, watch, handler, spoiled>>
  BY DEF forgeVars, screenVars, runVars, fileVars, diskVars, watchVars
<1>2. ForgeTypes /\ MediaAreWhole /\ WorkersAreKnown /\ RunIsShown
  BY DEF ForgeInv
<1>3. \A s : At(s)' <=> At(s)
  BY <1>1 DEF At
<1>4. (Unpacked' <=> Unpacked) /\ (OnDisk' <=> OnDisk)
  BY <1>1 DEF Unpacked, OnDisk
<1>5. ForgeTypes'
  BY <1>1, <1>2 DEF ForgeTypes
<1>6. RunIsShown' /\ WorkersAreKnown'
  BY <1>1, <1>2, <1>3 DEF RunIsShown, WorkersAreKnown
<1>7. MediaAreWhole'
  BY <1>1, <1>2, <1>3, <1>4 DEF MediaAreWhole
<1> QED
  BY <1>5, <1>6, <1>7 DEF ForgeInv

LEMMA ForgeStays == ASSUME ForgeInv, [ForgeNext]_forgeVars PROVE ForgeInv'
<1>1. CASE UNCHANGED forgeVars
  BY <1>1, ForgeStands
<1>2. CASE ForgeNext
  BY <1>2, ChoosingKeeps, ConfirmKeeps, FailsKeeps, PassesKeeps, DownloadKeeps, DownloadEndsKeeps, ExtractKeeps,
     WriteKeeps, WritingEndsKeeps, CopyingKeeps, FinishKeeps, EndOfRunKeeps, Zenon DEF ForgeNext
<1> QED
  BY <1>1, <1>2

LEMMA ForgeInvariant == ForgeSpec => []ForgeInv
  BY ForgeStarts, ForgeStays, PTL DEF ForgeSpec

LEMMA ForgeShows == ForgeInv => ForgeTypeOK /\ ConfirmedIsWritten /\ CompleteIsTrue /\ WatchIsReleased
<1> SUFFICES ASSUME ForgeInv PROVE ForgeTypeOK /\ ConfirmedIsWritten /\ CompleteIsTrue /\ WatchIsReleased
  OBVIOUS
<1>1. ForgeTypes /\ MediaAreWhole /\ WorkersAreKnown /\ RunIsShown
  BY DEF ForgeInv
<1>2. ForgeTypeOK
  BY <1>1 DEF ForgeTypes, ForgeTypeOK
<1>3. ConfirmedIsWritten
  BY <1>1 DEF RunIsShown, WorkersAreKnown, ConfirmedIsWritten
<1>4. CompleteIsTrue
  BY <1>1 DEF MediaAreWhole, CompleteIsTrue
<1>5. WatchIsReleased
  BY <1>1 DEF RunIsShown, WatchIsReleased
<1> QED
  BY <1>2, <1>3, <1>4, <1>5

\* What is erased is what the operator confirmed, though disks come and go while the dialog
\* is shown; a run that is reported complete has written a medium that boots, unless
\* something was spoiled before it; discovery started for the watch ends with it
\* (tui/screens/provision.py, tui/forge).
THEOREM MediaAreTrue == ForgeSpec => [](ConfirmedIsWritten /\ CompleteIsTrue /\ WatchIsReleased)
  BY ForgeInvariant, ForgeShows, PTL

-----------------------------------------------------------------------------
(* The operator's identity.                                                 *)

EnsureCall == [at : {"idle", "damaged", "search", "truncate", "save", "returned"},
               adopt : BOOLEAN, from : Place, key : 0..MaxKeys, calm : BOOLEAN]
ShareCall == [op : {"none", "share", "unshare"}, todo : SUBSET App, app : App, slot : Slot,
              at : {"next", "move", "unlink", "link", "restore"}, safe : BOOLEAN,
              force : BOOLEAN, target : Place]

\* An identity is in a file, in a backup, in the hands of a call that writes it, or excused.
Found(k) ==
    \/ \E x \in Place \cup App : file[x] = k
    \/ \E a \in App, s \in Slot : kept[a][s] = k
    \/ \E p \in Starter : ensures[p].at \in {"truncate", "save"} /\ ensures[p].key = k
    \/ k \in excused

KeysFound == \A k \in 1..made : Found(k)

\* A call writes an identity; and if it is calm no file comes before the one it writes.
CalmCall(p) ==
    /\ ensures[p].at \in {"truncate", "save"} => ensures[p].key \in Key
    /\ ensures[p].calm /\ ensures[p].from # "config" =>
          /\ ensures[p].at \in {"search", "truncate", "save"} => file["system"] = NoKey
          /\ ensures[p].at = "damaged" /\ ensures[p].from = "user" => file["system"] = NoKey
          /\ ensures[p].at = "returned" => OperatorIdentity = ensures[p].key
CallsAreCalm == \A p \in Starter : CalmCall(p)

\* A command moves a file to a backup that is free, and restores where there is no link.
CommandIsSafe ==
    /\ command.target \in {"system", "user"}
    /\ command.at = "move" => kept[command.app][command.slot] = NoKey
    /\ command.at = "restore" => symlink[command.app] = "no"

IdentityInv == IdentityTypeOK /\ KeysFound /\ CallsAreCalm /\ CommandIsSafe /\ LinksAreKnown

LEMMA IdentityNumbers ==
  /\ MaxKeys \in Nat /\ MaxCommands \in Nat /\ MaxEnsures \in Nat /\ MaxDamages \in Nat
  /\ Damaged \notin Key /\ NoKey \notin Key /\ Damaged # NoKey /\ Key \subseteq Content
  /\ Damaged \in Content /\ NoKey \in Content /\ NoKey \in 0..MaxKeys
  /\ \A k \in Content : k # Damaged => k \in 0..MaxKeys
  /\ \A k \in Content : k # NoKey /\ k # Damaged => k \in Key
  /\ Key \subseteq 0..MaxKeys
<1>1. MaxKeys \in Nat /\ MaxCommands \in Nat /\ MaxEnsures \in Nat /\ MaxDamages \in Nat
  BY IdentityAssumption
<1> QED
  BY <1>1 DEF Damaged, NoKey, Key, Content

LEMMA NamesOfPlaces ==
  /\ AppOrder[1] \in App /\ App \cap Place = {}
  /\ "user" \in Place /\ "system" \in Place /\ "config" \in Place
  /\ "user" \notin App /\ "system" \notin App
<1>1. 1 \in DOMAIN AppOrder /\ App \cap Place = {}
  BY IdentityAssumption
<1>2. AppOrder[1] \in App
  BY <1>1 DEF App
<1> QED
  BY <1>1, <1>2 DEF Place

LEMMA IdleOnes ==
  /\ IdleCall \in EnsureCall /\ IdleCall.at = "idle" /\ IdleCall.from = "user" /\ IdleCall.key = NoKey
  /\ IdleCall.adopt = FALSE /\ IdleCall.calm = TRUE
  /\ IdleCommand \in ShareCall /\ IdleCommand.at = "next" /\ IdleCommand.target = "user"
  /\ IdleCommand.op = "none"
<1>1. NoKey \in 0..MaxKeys
  BY IdentityNumbers
<1>2. IdleCall \in EnsureCall
  BY <1>1 DEF IdleCall, EnsureCall, Place
<1>3. IdleCommand \in ShareCall
  BY NamesOfPlaces DEF IdleCommand, ShareCall, Slot
<1> QED
  BY <1>2, <1>3 DEF IdleCall, IdleCommand

LEMMA IdentityTypes ==
  IdentityTypeOK <=>
    /\ file \in [Place \cup App -> Content] /\ symlink \in [App -> Place \cup {"no"}]
    /\ kept \in [App -> [Slot -> Content]] /\ made \in 0..MaxKeys
    /\ ensures \in [Starter -> EnsureCall] /\ command \in ShareCall
    /\ calls \in 0..MaxEnsures /\ commands \in 0..MaxCommands /\ damages \in 0..MaxDamages
    /\ excused \subseteq Key
  BY DEF IdentityTypeOK, EnsureCall, ShareCall

LEMMA IdentityStarts == ASSUME IdentityInit PROVE IdentityInv
<1>1. /\ file = [p \in Place \cup App |-> NoKey] /\ symlink = [a \in App |-> "no"]
      /\ kept = [a \in App |-> [s \in Slot |-> NoKey]] /\ made = 0
      /\ ensures = [p \in Starter |-> IdleCall] /\ command = IdleCommand
      /\ calls = 0 /\ commands = 0 /\ damages = 0 /\ excused = {}
  BY DEF IdentityInit
<1>2. file \in [Place \cup App -> Content] /\ symlink \in [App -> Place \cup {"no"}]
      /\ kept \in [App -> [Slot -> Content]] /\ ensures \in [Starter -> EnsureCall] /\ command \in ShareCall
  BY <1>1, IdentityNumbers, IdleOnes
<1>3. made \in 0..MaxKeys /\ calls \in 0..MaxEnsures /\ commands \in 0..MaxCommands /\ damages \in 0..MaxDamages
  BY <1>1, IdentityNumbers
<1>4. IdentityTypeOK
  BY <1>1, <1>2, <1>3, IdentityTypes
<1>5. KeysFound
  BY <1>1 DEF KeysFound
<1>6. CallsAreCalm
  BY <1>1, IdleOnes DEF CallsAreCalm, CalmCall
<1>7. CommandIsSafe
  BY <1>1, IdleOnes DEF CommandIsSafe
<1>8. LinksAreKnown
  BY <1>1 DEF LinksAreKnown
<1> QED
  BY <1>4, <1>5, <1>6, <1>7, <1>8 DEF IdentityInv

-----------------------------------------------------------------------------
(* What the operators say.                                                 *)

\* A call that was disturbed is where it was, and no longer calm.
Jolted(p) ==
    /\ ensures'[p].at = ensures[p].at /\ ensures'[p].key = ensures[p].key
    /\ ensures[p].at # "idle" => ~ensures'[p].calm

LEMMA DisturbedCalls ==
  ASSUME ensures \in [Starter -> EnsureCall], NEW procs
  PROVE  /\ Disturbed(procs) \in [Starter -> EnsureCall]
         /\ \A p \in Starter :
               /\ Disturbed(procs)[p].at = ensures[p].at /\ Disturbed(procs)[p].key = ensures[p].key
               /\ p \in procs /\ ensures[p].at # "idle" => ~Disturbed(procs)[p].calm
<1>1. ASSUME NEW p \in Starter
      PROVE  LET d == IF p \in procs /\ ensures[p].at # "idle" THEN [ensures[p] EXCEPT !.calm = FALSE] ELSE ensures[p]
             IN /\ d \in EnsureCall /\ d.at = ensures[p].at /\ d.key = ensures[p].key
                /\ p \in procs /\ ensures[p].at # "idle" => ~d.calm
  BY DEF EnsureCall
<1> QED
  BY <1>1 DEF Disturbed

LEMMA StepsOfCalls ==
  ASSUME ensures \in [Starter -> EnsureCall], NEW p \in Starter, NEW how \in EnsureCall, Steps(p, how)
  PROVE  /\ ensures' \in [Starter -> EnsureCall] /\ ensures'[p] = how
         /\ \A q \in Starter : q # p => Jolted(q)
<1> DEFINE d == Disturbed(Starter \ {p})
<1>1. ensures' = [d EXCEPT ![p] = how]
  BY DEF Steps
<1>2. /\ d \in [Starter -> EnsureCall]
      /\ \A q \in Starter :
               /\ d[q].at = ensures[q].at /\ d[q].key = ensures[q].key
               /\ q \in Starter \ {p} /\ ensures[q].at # "idle" => ~d[q].calm
  BY DisturbedCalls
<1> HIDE DEF d
<1> QED
  BY <1>1, <1>2 DEF Jolted

LEMMA JoltsOfCalls ==
  ASSUME ensures \in [Starter -> EnsureCall], Jolts
  PROVE  ensures' \in [Starter -> EnsureCall] /\ \A q \in Starter : Jolted(q)
<1>1. ensures' = Disturbed(Starter)
  BY DEF Jolts
<1> QED
  BY <1>1, DisturbedCalls DEF Jolted

\* Where the identity is found.
LEMMA PathResolved ==
  ASSUME IdentityTypeOK, NEW conf \in BOOLEAN
  PROVE  LET from == ResolveIdentityPath(conf) IN
         /\ from \in Place \cup {"none"}
         /\ from # "none" => file[from] # NoKey
         /\ from = "config" => conf
         /\ from = "user" => file["system"] = NoKey
         /\ from = "none" => file["system"] = NoKey /\ file["user"] = NoKey
         /\ from \in {"system", "user"} /\ file[from] # Damaged => OperatorIdentity = file[from]
<1>1. file \in [Place \cup App -> Content]
  BY IdentityTypes
<1>2. ResolveIdentityPath(FALSE) = IF file["system"] # NoKey THEN "system" ELSE IF file["user"] # NoKey THEN "user" ELSE "none"
  BY DEF ResolveIdentityPath
<1>3. ResolveIdentityPath(conf) =
         IF conf /\ file["config"] # NoKey THEN "config"
         ELSE IF file["system"] # NoKey THEN "system" ELSE IF file["user"] # NoKey THEN "user" ELSE "none"
  BY DEF ResolveIdentityPath
<1>4. OperatorIdentity = IF ResolveIdentityPath(FALSE) = "none" \/ file[ResolveIdentityPath(FALSE)] = Damaged THEN NoKey
                         ELSE file[ResolveIdentityPath(FALSE)]
  BY DEF OperatorIdentity
<1> QED
  BY <1>2, <1>3, <1>4 DEF Place

\* Nothing that a call has is read anew when the files are as they were.
LEMMA CalmWithoutFiles ==
  ASSUME NEW p \in Starter, CalmCall(p), file' = file, ensures'[p] = ensures[p]
  PROVE  CalmCall(p)'
<1>1. OperatorIdentity' = OperatorIdentity
  BY DEF OperatorIdentity, ResolveIdentityPath
<1> QED
  BY <1>1 DEF CalmCall

\* A call that was disturbed promises nothing.
LEMMA JoltedIsCalm ==
  ASSUME NEW p \in Starter, CalmCall(p), Jolted(p)
  PROVE  CalmCall(p)'
  BY DEF CalmCall, Jolted

-----------------------------------------------------------------------------
(* The calls.                                                              *)

\* A step of a call: what it takes out of a file it writes elsewhere, or may.
LEMMA CallProceeds ==
  ASSUME IdentityInv, NEW p \in Starter, NEW how \in EnsureCall, Steps(p, how),
         UNCHANGED <<symlink, kept, command, commands, damages>>,
         calls' \in 0..MaxEnsures, file' \in [Place \cup App -> Content], \A a \in App : file'[a] = file[a],
         excused \subseteq excused', excused' \subseteq Key,
         \A x \in Place : file[x] \in Key /\ file'[x] # file[x] =>
             file[x] \in excused' \/ (how.at \in {"truncate", "save"} /\ how.key = file[x]),
         ensures[p].at \in {"truncate", "save"} =>
             \/ ensures[p].key \in excused'
             \/ how.at \in {"truncate", "save"} /\ how.key = ensures[p].key
             \/ \E x \in Place : file'[x] = ensures[p].key,
         \/ made' = made
         \/ made < MaxKeys /\ made' = made + 1 /\ how.at = "truncate" /\ how.key = made',
         how.at \in {"truncate", "save"} => how.key \in Key,
         how.calm /\ how.from # "config" =>
              /\ how.at \in {"search", "truncate", "save"} => file'["system"] = NoKey
              /\ how.at = "damaged" /\ how.from = "user" => file'["system"] = NoKey
              /\ how.at = "returned" => OperatorIdentity' = how.key
  PROVE  IdentityInv'
<1>1. IdentityTypeOK /\ KeysFound /\ CallsAreCalm /\ CommandIsSafe /\ LinksAreKnown
  BY DEF IdentityInv
<1>2. ensures \in [Starter -> EnsureCall] /\ made \in 0..MaxKeys
  BY <1>1, IdentityTypes
<1>3. /\ ensures' \in [Starter -> EnsureCall] /\ ensures'[p] = how
      /\ \A q \in Starter : q # p => Jolted(q)
  BY <1>2, StepsOfCalls
<1>4. made' \in 0..MaxKeys
  BY <1>2, IdentityNumbers
<1>5. IdentityTypeOK'
  <2>1. /\ file' \in [Place \cup App -> Content] /\ symlink' \in [App -> Place \cup {"no"}]
        /\ kept' \in [App -> [Slot -> Content]] /\ made' \in 0..MaxKeys
        /\ ensures' \in [Starter -> EnsureCall] /\ command' \in ShareCall
        /\ calls' \in 0..MaxEnsures /\ commands' \in 0..MaxCommands /\ damages' \in 0..MaxDamages
        /\ excused' \subseteq Key
    BY <1>1, <1>3, <1>4, IdentityTypes
  <2> QED
    BY <2>1 DEF IdentityTypeOK, EnsureCall, ShareCall
<1>6. CallsAreCalm'
  <2>1. CalmCall(p)'
    BY <1>3 DEF CalmCall
  <2>2. ASSUME NEW q \in Starter, q # p PROVE CalmCall(q)'
    <3>1. CalmCall(q)
      BY <1>1 DEF CallsAreCalm
    <3> QED
      BY <1>3, <2>2, <3>1, JoltedIsCalm
  <2> QED
    BY <2>1, <2>2 DEF CallsAreCalm
<1>7. ASSUME NEW k \in Key, Found(k) PROVE Found(k)'
  <2>1. CASE \E x \in Place \cup App : file[x] = k
    <3>1. PICK x \in Place \cup App : file[x] = k
      BY <2>1
    <3>2. x \in App => file'[x] = k
      BY <3>1
    <3>3. x \in Place /\ file'[x] # k => k \in excused' \/ (how.at \in {"truncate", "save"} /\ how.key = k)
      BY <3>1
    <3> QED
      BY <1>3, <3>1, <3>2, <3>3 DEF Found
  <2>2. CASE \E a \in App, s \in Slot : kept[a][s] = k
    BY <2>2 DEF Found
  <2>3. CASE \E q \in Starter : ensures[q].at \in {"truncate", "save"} /\ ensures[q].key = k
    <3>1. PICK q \in Starter : ensures[q].at \in {"truncate", "save"} /\ ensures[q].key = k
      BY <2>3
    <3>2. CASE q # p
      BY <1>3, <3>1, <3>2 DEF Found, Jolted
    <3>3. CASE q = p
      <4>1. k \in excused' \/ (how.at \in {"truncate", "save"} /\ how.key = k) \/ \E x \in Place : file'[x] = k
        BY <3>1, <3>3
      <4> QED
        BY <1>3, <4>1 DEF Found
    <3> QED
      BY <3>2, <3>3
  <2>4. CASE k \in excused
    BY <2>4 DEF Found
  <2> QED
    BY <1>7, <2>1, <2>2, <2>3, <2>4 DEF Found
<1>8. KeysFound'
  <2>1. ASSUME NEW k \in 1..made' PROVE Found(k)'
    <3>1. k \in Key
      BY <1>4, IdentityNumbers DEF Key
    <3>2. CASE k \in 1..made
      BY <1>1, <1>7, <3>1, <3>2 DEF KeysFound
    <3>3. CASE k \notin 1..made
      <4>1. made' = made + 1 /\ how.at = "truncate" /\ how.key = made'
        BY <3>3
      <4>2. k = made'
        BY <1>2, <3>3, <4>1, IdentityNumbers
      <4> QED
        BY <1>3, <4>1, <4>2 DEF Found
    <3> QED
      BY <3>2, <3>3
  <2> QED
    BY <2>1 DEF KeysFound
<1>9. CommandIsSafe'
  BY <1>1 DEF CommandIsSafe
<1>10. LinksAreKnown'
  BY <1>1 DEF LinksAreKnown, PointsToStyrene
<1> QED
  BY <1>5, <1>6, <1>8, <1>9, <1>10 DEF IdentityInv

\* A step of a call that writes nothing, and holds what it held or nothing yet.
LEMMA CallMovesOn ==
  ASSUME IdentityInv, NEW p \in Starter, NEW how \in EnsureCall, Steps(p, how),
         UNCHANGED <<file, symlink, kept, command, commands, damages, excused, made>>, calls' \in 0..MaxEnsures,
         ensures[p].at \notin {"truncate", "save"}, how.at \in {"truncate", "save"} => how.key \in Key,
         how.calm /\ how.from # "config" =>
              /\ how.at \in {"search", "truncate", "save"} => file["system"] = NoKey
              /\ how.at = "damaged" /\ how.from = "user" => file["system"] = NoKey
              /\ how.at = "returned" => OperatorIdentity = how.key
  PROVE  IdentityInv'
<1>1. OperatorIdentity' = OperatorIdentity
  BY DEF OperatorIdentity, ResolveIdentityPath
<1>2. file \in [Place \cup App -> Content] /\ excused \subseteq Key
  BY IdentityTypes DEF IdentityInv
<1> QED
  BY <1>1, <1>2, CallProceeds

LEMMA EnsureKeeps == ASSUME IdentityInv, NEW p \in Starter, EnsureIdentity(p) PROVE IdentityInv'
<1>1. /\ ensures[p].at = "idle" /\ calls < MaxEnsures /\ calls' = calls + 1
      /\ UNCHANGED <<file, symlink, kept, command, commands, damages, excused, made>>
  BY DEF EnsureIdentity, Others, pathVars
<1>2. PICK conf \in BOOLEAN, adopt \in BOOLEAN :
         LET from == ResolveIdentityPath(conf)
             call == [IdleCall EXCEPT !.adopt = adopt, !.calm = \A q \in Starter : ensures[q].at = "idle"]
         IN Steps(p, CASE from = "none" -> [call EXCEPT !.at = "search"]
                       [] from # "none" /\ file[from] = Damaged -> [call EXCEPT !.at = "damaged", !.from = from]
                       [] OTHER -> [call EXCEPT !.at = "returned", !.adopt = FALSE, !.from = from,
                                                 !.key = file[from]])
  BY DEF EnsureIdentity
<1> DEFINE from == ResolveIdentityPath(conf)
           call == [IdleCall EXCEPT !.adopt = adopt, !.calm = \A q \in Starter : ensures[q].at = "idle"]
           how == CASE from = "none" -> [call EXCEPT !.at = "search"]
                    [] from # "none" /\ file[from] = Damaged -> [call EXCEPT !.at = "damaged", !.from = from]
                    [] OTHER -> [call EXCEPT !.at = "returned", !.adopt = FALSE, !.from = from, !.key = file[from]]
<1>3. Steps(p, how)
  BY <1>2
<1>4. IdentityTypeOK /\ file \in [Place \cup App -> Content] /\ calls' \in 0..MaxEnsures
  BY <1>1, IdentityTypes, IdentityNumbers DEF IdentityInv
<1>5. /\ from \in Place \cup {"none"}
      /\ from # "none" => file[from] # NoKey
      /\ from = "user" => file["system"] = NoKey
      /\ from = "none" => file["system"] = NoKey /\ file["user"] = NoKey
      /\ from \in {"system", "user"} /\ file[from] # Damaged => OperatorIdentity = file[from]
  BY <1>4, PathResolved
<1>6. call \in EnsureCall /\ call.from = "user"
  BY IdleOnes DEF EnsureCall
<1>7. from # "none" /\ file[from] # Damaged => file[from] \in 0..MaxKeys
  <2>1. from # "none" => file[from] \in Content
    BY <1>4, <1>5
  <2>2. \A k \in Content : k # Damaged => k \in 0..MaxKeys
    BY IdentityNumbers
  <2> QED
    BY <2>1, <2>2
<1> HIDE DEF from, call
<1>8. how \in EnsureCall
      /\ \/ from = "none" /\ how.at = "search" /\ how.from = "user"
         \/ from # "none" /\ file[from] = Damaged /\ how.at = "damaged" /\ how.from = from
         \/ from # "none" /\ file[from] # Damaged /\ how.at = "returned" /\ how.from = from /\ how.key = file[from]
  <2>1. CASE from = "none"
    BY <1>6, <2>1 DEF EnsureCall
  <2>2. CASE from # "none" /\ file[from] = Damaged
    <3>1. how = [call EXCEPT !.at = "damaged", !.from = from]
      BY <2>2
    <3>2. from \in Place
      BY <1>5, <2>2
    <3>3. how \in EnsureCall /\ how.at = "damaged" /\ how.from = from
      BY <1>6, <3>1, <3>2 DEF EnsureCall
    <3> QED
      BY <2>2, <3>3, Zenon
  <2>3. CASE from # "none" /\ file[from] # Damaged
    <3>1. how = [call EXCEPT !.at = "returned", !.adopt = FALSE, !.from = from, !.key = file[from]]
      BY <2>3
    <3>2. from \in Place
      BY <1>5, <2>3
    <3>3. how \in EnsureCall /\ how.at = "returned" /\ how.from = from /\ how.key = file[from]
      BY <1>6, <1>7, <2>3, <3>1, <3>2 DEF EnsureCall
    <3> QED
      BY <2>3, <3>3, Zenon
  <2> QED
    BY <2>1, <2>2, <2>3
<1> HIDE DEF how
<1>9. how.at = "returned" /\ how.from # "config" => OperatorIdentity = how.key
  <2>1. how.at = "returned" => from # "none" /\ file[from] # Damaged /\ how.from = from /\ how.key = file[from]
    BY <1>8
  <2>2. from # "none" /\ from # "config" => from \in {"system", "user"}
    BY <1>5 DEF Place
  <2> QED
    BY <1>5, <2>1, <2>2
<1>10. how.at = "damaged" /\ how.from = "user" => file["system"] = NoKey
  BY <1>5, <1>8
<1>11. how.at = "search" => file["system"] = NoKey
  BY <1>5, <1>8
<1>12. how.at \notin {"truncate", "save"}
  BY <1>8
<1> QED
  BY <1>1, <1>3, <1>4, <1>8, <1>9, <1>10, <1>11, <1>12, CallMovesOn

LEMMA SetAsideKeeps == ASSUME IdentityInv, NEW p \in Starter, SetAside(p) PROVE IdentityInv'
<1>1. /\ ensures[p].at = "damaged" /\ UNCHANGED <<symlink, kept, command, commands, damages, made, calls>>
      /\ \/ Steps(p, IdleCall) /\ UNCHANGED <<file, excused>>
         \/ /\ file[ensures[p].from] # NoKey /\ Steps(p, [ensures[p] EXCEPT !.at = "search"])
            /\ file' = [file EXCEPT ![ensures[p].from] = NoKey]
            /\ excused' = excused \cup ({file[ensures[p].from]} \cap Key)
  BY DEF SetAside, Others
<1>2. IdentityTypeOK /\ file \in [Place \cup App -> Content] /\ ensures \in [Starter -> EnsureCall]
      /\ calls' \in 0..MaxEnsures /\ excused \subseteq Key /\ CalmCall(p)
  BY <1>1, IdentityTypes DEF IdentityInv, CallsAreCalm
<1>3. CASE Steps(p, IdleCall) /\ UNCHANGED <<file, excused>>
  BY <1>1, <1>2, <1>3, IdleOnes, CallMovesOn
<1>4. CASE /\ Steps(p, [ensures[p] EXCEPT !.at = "search"])
           /\ file' = [file EXCEPT ![ensures[p].from] = NoKey]
           /\ excused' = excused \cup ({file[ensures[p].from]} \cap Key)
  <2> DEFINE how == [ensures[p] EXCEPT !.at = "search"]
             from == ensures[p].from
  <2>1. how \in EnsureCall /\ how.at = "search" /\ how.from = from /\ how.calm = ensures[p].calm /\ from \in Place
    BY <1>2 DEF EnsureCall
  <2>2. Steps(p, how)
    BY <1>4
  <2> HIDE DEF how
  <2>3. /\ file' \in [Place \cup App -> Content] /\ file'[from] = NoKey
        /\ \A x \in Place \cup App : x # from => file'[x] = file[x]
    BY <1>2, <1>4, <2>1, IdentityNumbers
  <2>4. \A a \in App : file'[a] = file[a]
    BY <2>1, <2>3, NamesOfPlaces
  <2>5. \A x \in Place : file[x] \in Key /\ file'[x] # file[x] => file[x] \in excused'
    BY <1>4, <2>3
  <2>6. how.calm /\ how.from # "config" => file'["system"] = NoKey
    <3>1. how.calm /\ from = "user" => file["system"] = NoKey
      BY <1>1, <1>2, <2>1 DEF CalmCall
    <3> QED
      BY <2>1, <2>3, <3>1, NamesOfPlaces DEF Place
  <2>7. excused \subseteq excused' /\ excused' \subseteq Key
    BY <1>2, <1>4
  <2> QED
    BY <1>1, <1>2, <2>1, <2>2, <2>3, <2>4, <2>5, <2>6, <2>7, CallProceeds
<1> QED
  BY <1>1, <1>3, <1>4

LEMMA AdoptKeeps == ASSUME IdentityInv, NEW p \in Starter, GenerateOrAdopt(p) PROVE IdentityInv'
<1>1. /\ ensures[p].at = "search" /\ UNCHANGED <<file, symlink, kept, command, commands, damages, excused, calls>>
      /\ \/ /\ \E i \in DOMAIN AppOrder :
                  Behind(AppOrder[i]) \in Key /\ Steps(p, [ensures[p] EXCEPT !.at = "truncate", !.key = Behind(AppOrder[i])])
            /\ made' = made
         \/ made < MaxKeys /\ made' = made + 1 /\ Steps(p, [ensures[p] EXCEPT !.at = "truncate", !.key = made'])
  BY DEF GenerateOrAdopt, Others, pathVars
<1>2. PICK k : /\ Steps(p, [ensures[p] EXCEPT !.at = "truncate", !.key = k])
               /\ \/ k \in Key /\ made' = made
                  \/ k = made' /\ made < MaxKeys /\ made' = made + 1
  BY <1>1
<1>3. /\ file \in [Place \cup App -> Content] /\ ensures \in [Starter -> EnsureCall] /\ made \in 0..MaxKeys
      /\ calls' \in 0..MaxEnsures /\ excused \subseteq Key /\ CalmCall(p)
  BY <1>1, IdentityTypes DEF IdentityInv, CallsAreCalm
<1>4. k \in Key /\ k \in 0..MaxKeys
  BY <1>2, <1>3, IdentityNumbers DEF Key
<1> DEFINE how == [ensures[p] EXCEPT !.at = "truncate", !.key = k]
<1>5. how \in EnsureCall /\ how.at = "truncate" /\ how.key = k /\ how.calm = ensures[p].calm /\ how.from = ensures[p].from
  BY <1>3, <1>4 DEF EnsureCall
<1>6. Steps(p, how)
  BY <1>2
<1> HIDE DEF how
<1>7. how.calm /\ how.from # "config" => file["system"] = NoKey
  BY <1>1, <1>3, <1>5 DEF CalmCall
<1>8. \/ made' = made
      \/ made < MaxKeys /\ made' = made + 1 /\ how.at = "truncate" /\ how.key = made'
  BY <1>2, <1>5
<1> QED
  BY <1>1, <1>3, <1>4, <1>5, <1>6, <1>7, <1>8, CallProceeds

\* A file of the user that is written: what it held is excused, but for the same identity.
LEMMA UserWritten ==
  ASSUME IdentityTypeOK, NEW v \in Content, NEW k, file' = [file EXCEPT !["user"] = v],
         excused' = excused \cup (({file["user"]} \ {k}) \cap Key)
  PROVE  /\ file' \in [Place \cup App -> Content] /\ file'["user"] = v /\ file'["system"] = file["system"]
         /\ \A a \in App : file'[a] = file[a]
         /\ \A x \in Place : file[x] \in Key /\ file'[x] # file[x] => file[x] \in excused' \/ file[x] = k
         /\ excused \subseteq excused' /\ excused' \subseteq Key
<1>1. file \in [Place \cup App -> Content] /\ excused \subseteq Key
  BY IdentityTypes
<1>2. /\ file' \in [Place \cup App -> Content] /\ file'["user"] = v
      /\ \A x \in Place \cup App : x # "user" => file'[x] = file[x]
  BY <1>1, NamesOfPlaces
<1>3. file'["system"] = file["system"] /\ \A a \in App : file'[a] = file[a]
  BY <1>2, NamesOfPlaces
<1>4. file["user"] \in Key => file["user"] \in excused' \/ file["user"] = k
  OBVIOUS
<1>5. \A x \in Place : file[x] \in Key /\ file'[x] # file[x] => file[x] \in excused' \/ file[x] = k
  BY <1>2, <1>4
<1>6. excused \subseteq excused' /\ excused' \subseteq Key
  BY <1>1
<1> QED
  BY <1>2, <1>3, <1>5, <1>6

LEMMA TruncateKeeps == ASSUME IdentityInv, NEW p \in Starter, Truncate(p) PROVE IdentityInv'
<1> DEFINE how == [ensures[p] EXCEPT !.at = "save"]
           k == ensures[p].key
<1>1. /\ ensures[p].at = "truncate" /\ Steps(p, how)
      /\ UNCHANGED <<symlink, kept, command, commands, damages, made, calls>>
      /\ file' = [file EXCEPT !["user"] = Damaged]
      /\ excused' = excused \cup (({file["user"]} \ {k}) \cap Key)
  BY DEF Truncate, Others
<1>2. IdentityTypeOK /\ ensures \in [Starter -> EnsureCall] /\ calls' \in 0..MaxEnsures /\ CalmCall(p)
  BY <1>1, IdentityTypes DEF IdentityInv, CallsAreCalm
<1>3. /\ how \in EnsureCall /\ how.at = "save" /\ how.key = k /\ how.calm = ensures[p].calm
      /\ how.from = ensures[p].from
  BY <1>2 DEF EnsureCall
<1>4. k \in Key /\ (ensures[p].calm /\ ensures[p].from # "config" => file["system"] = NoKey)
  BY <1>1, <1>2 DEF CalmCall
<1> HIDE DEF how, k
<1>5. Damaged \in Content
  BY IdentityNumbers
<1>6. /\ file' \in [Place \cup App -> Content] /\ file'["system"] = file["system"]
      /\ \A a \in App : file'[a] = file[a]
      /\ \A x \in Place : file[x] \in Key /\ file'[x] # file[x] => file[x] \in excused' \/ file[x] = k
      /\ excused \subseteq excused' /\ excused' \subseteq Key
  BY <1>1, <1>2, <1>5, UserWritten
<1>7. ensures[p].key = k
  BY DEF k
<1> QED
  BY <1>1, <1>2, <1>3, <1>4, <1>6, <1>7, CallProceeds

LEMMA SaveKeeps == ASSUME IdentityInv, NEW p \in Starter, SaveIdentity(p) PROVE IdentityInv'
<1> DEFINE how == [ensures[p] EXCEPT !.at = "returned"]
           k == ensures[p].key
<1>1. /\ ensures[p].at = "save" /\ Steps(p, how)
      /\ UNCHANGED <<symlink, kept, command, commands, damages, made, calls>>
      /\ file' = [file EXCEPT !["user"] = k]
      /\ excused' = excused \cup (({file["user"]} \ {k}) \cap Key)
  BY DEF SaveIdentity, Others
<1>2. IdentityTypeOK /\ ensures \in [Starter -> EnsureCall] /\ calls' \in 0..MaxEnsures /\ CalmCall(p)
  BY <1>1, IdentityTypes DEF IdentityInv, CallsAreCalm
<1>3. /\ how \in EnsureCall /\ how.at = "returned" /\ how.key = k /\ how.calm = ensures[p].calm
      /\ how.from = ensures[p].from
  BY <1>2 DEF EnsureCall
<1>4. k \in Key /\ (ensures[p].calm /\ ensures[p].from # "config" => file["system"] = NoKey)
  BY <1>1, <1>2 DEF CalmCall
<1>5. k = ensures[p].key
  OBVIOUS
<1> HIDE DEF how, k
<1>6. k \in Content /\ k # NoKey /\ k # Damaged
  BY <1>4, IdentityNumbers
<1>7. /\ file' \in [Place \cup App -> Content] /\ file'["system"] = file["system"] /\ file'["user"] = k
      /\ \A a \in App : file'[a] = file[a]
      /\ \A x \in Place : file[x] \in Key /\ file'[x] # file[x] => file[x] \in excused' \/ file[x] = k
      /\ excused \subseteq excused' /\ excused' \subseteq Key
  BY <1>1, <1>2, <1>6, UserWritten
<1>8. \A x \in Place : file[x] \in Key /\ file'[x] # file[x] => file[x] \in excused'
  <2>1. ASSUME file["user"] = k PROVE file'["user"] = file["user"]
    BY <1>7, <2>1
  <2>2. \A x \in Place : x # "user" => file'[x] = file[x]
    <3>1. file \in [Place \cup App -> Content]
      BY <1>2, IdentityTypes
    <3> QED
      BY <1>1, <3>1
  <2> QED
    BY <1>7, <2>1, <2>2
<1>9. how.calm /\ how.from # "config" => OperatorIdentity' = how.key
  <2> SUFFICES ASSUME file'["system"] = NoKey PROVE OperatorIdentity' = k
    BY <1>3, <1>4, <1>7
  <2>1. ResolveIdentityPath(FALSE)' = "user"
    BY <1>6, <1>7 DEF ResolveIdentityPath
  <2> QED
    BY <1>6, <1>7, <2>1 DEF OperatorIdentity
<1>10. \E x \in Place : file'[x] = ensures[p].key
  BY <1>5, <1>7, NamesOfPlaces
<1> QED
  BY <1>1, <1>2, <1>3, <1>7, <1>8, <1>9, <1>10, CallProceeds

LEMMA StarterLeavesKeeps == ASSUME IdentityInv, NEW p \in Starter, StarterLeaves(p) PROVE IdentityInv'
<1>1. /\ Steps(p, IdleCall) /\ UNCHANGED <<file, symlink, kept, command, commands, damages, made, calls>>
      /\ excused' = excused \cup (IF ensures[p].at = "returned" THEN {} ELSE {ensures[p].key} \cap Key)
  BY DEF StarterLeaves, Others, pathVars
<1>2. /\ file \in [Place \cup App -> Content] /\ calls' \in 0..MaxEnsures /\ excused \subseteq Key /\ CalmCall(p)
  BY <1>1, IdentityTypes DEF IdentityInv, CallsAreCalm
<1>3. ensures[p].at \in {"truncate", "save"} => ensures[p].key \in excused'
  BY <1>1, <1>2 DEF CalmCall
<1>4. excused \subseteq excused' /\ excused' \subseteq Key
  BY <1>1, <1>2
<1> QED
  BY <1>1, <1>2, <1>3, <1>4, IdleOnes, CallProceeds

-----------------------------------------------------------------------------
(* The commands, the applications and the owner.                           *)

\* A step of a command that changes no file.
LEMMA CommandMovesOn ==
  ASSUME IdentityInv, NEW c \in ShareCall, command' = c, commands' \in 0..MaxCommands,
         UNCHANGED <<file, symlink, kept, ensures, excused, made, calls, damages>>,
         c.target \in {"system", "user"}, c.at # "restore",
         c.at = "move" => kept[c.app][c.slot] = NoKey
  PROVE  IdentityInv'
<1>1. IdentityTypeOK /\ KeysFound /\ CallsAreCalm /\ CommandIsSafe /\ LinksAreKnown
  BY DEF IdentityInv
<1>2. IdentityTypeOK'
  BY <1>1 DEF IdentityTypeOK, ShareCall
<1>3. \A k : Found(k) => Found(k)'
  BY DEF Found
<1>4. KeysFound'
  BY <1>1, <1>3 DEF KeysFound
<1>5. CallsAreCalm'
  BY <1>1, CalmWithoutFiles DEF CallsAreCalm
<1>6. CommandIsSafe'
  BY DEF CommandIsSafe
<1>7. LinksAreKnown'
  BY <1>1 DEF LinksAreKnown, PointsToStyrene
<1> QED
  BY <1>2, <1>4, <1>5, <1>6, <1>7 DEF IdentityInv

LEMMA ShareBeginsKeeps == ASSUME IdentityInv, ShareBegins PROVE IdentityInv'
<1>1. PICK apps \in SUBSET App \ {{}}, safe \in BOOLEAN, force \in BOOLEAN :
          command' = [IdleCommand EXCEPT !.op = "share", !.todo = apps, !.safe = safe, !.force = force,
                                         !.target = ResolveIdentityPath(FALSE)]
  BY DEF ShareBegins
<1>2. /\ commands < MaxCommands /\ commands' = commands + 1 /\ ResolveIdentityPath(FALSE) # "none"
      /\ UNCHANGED <<file, symlink, kept, ensures, excused, made, calls, damages>>
  BY DEF ShareBegins, pathVars, Untouched
<1>3. ResolveIdentityPath(FALSE) \in {"system", "user"}
  BY <1>2 DEF ResolveIdentityPath
<1>4. commands' \in 0..MaxCommands
  BY <1>2, IdentityTypes, IdentityNumbers DEF IdentityInv
<1> DEFINE target == ResolveIdentityPath(FALSE)
           c == [IdleCommand EXCEPT !.op = "share", !.todo = apps, !.safe = safe, !.force = force, !.target = target]
<1>5. command' = c
  BY <1>1
<1> HIDE DEF target
<1>6. target \in {"system", "user"} /\ target \in Place
  BY <1>3 DEF target, Place
<1>7. c \in ShareCall /\ c.target = target /\ c.at = "next"
  BY <1>6, IdleOnes DEF ShareCall
<1> HIDE DEF c
<1> QED
  BY <1>2, <1>4, <1>5, <1>6, <1>7, CommandMovesOn

LEMMA UnshareBeginsKeeps == ASSUME IdentityInv, UnshareBegins PROVE IdentityInv'
<1>1. PICK apps \in SUBSET App \ {{}}, restore \in BOOLEAN :
          command' = [IdleCommand EXCEPT !.op = "unshare", !.todo = apps, !.safe = restore]
  BY DEF UnshareBegins
<1>2. /\ commands < MaxCommands /\ commands' = commands + 1
      /\ UNCHANGED <<file, symlink, kept, ensures, excused, made, calls, damages>>
  BY DEF UnshareBegins, pathVars, Untouched
<1>3. commands' \in 0..MaxCommands
  BY <1>2, IdentityTypes, IdentityNumbers DEF IdentityInv
<1> DEFINE c == [IdleCommand EXCEPT !.op = "unshare", !.todo = apps, !.safe = restore]
<1>4. command' = c /\ c \in ShareCall /\ c.target = "user" /\ c.at = "next"
  BY <1>1, IdleOnes DEF ShareCall
<1> HIDE DEF c
<1> QED
  BY <1>2, <1>3, <1>4, CommandMovesOn

LEMMA CommandEndsKeeps == ASSUME IdentityInv, CommandEnds PROVE IdentityInv'
<1>1. command' = IdleCommand /\ UNCHANGED <<file, symlink, kept, ensures, excused, made, calls, damages, commands>>
  BY DEF CommandEnds, pathVars, Untouched
<1>2. commands' \in 0..MaxCommands
  BY <1>1, IdentityTypes DEF IdentityInv
<1> QED
  BY <1>1, <1>2, IdleOnes, CommandMovesOn

LEMMA ShareLooksKeeps == ASSUME IdentityInv, NEW a \in App, ShareLooks(a) PROVE IdentityInv'
<1> DEFINE rest == [command EXCEPT !.todo = @ \ {a}]
           turn == [rest EXCEPT !.app = a]
           free == {s \in Slot : kept[a][s] = NoKey}
           slot == IF 1 \in free THEN 1 ELSE 2
<1>1. /\ command.at = "next" /\ UNCHANGED <<file, symlink, kept, ensures, excused, made, calls, damages, commands>>
      /\ \/ command' = rest
         \/ free # {} /\ command' = [turn EXCEPT !.at = "move", !.slot = slot]
         \/ command' = [turn EXCEPT !.at = "unlink"]
         \/ command' = [turn EXCEPT !.at = "link"]
  BY DEF ShareLooks, pathVars, Untouched
<1>2. command \in ShareCall /\ commands' \in 0..MaxCommands /\ command.target \in {"system", "user"}
  BY <1>1, IdentityTypes DEF IdentityInv, CommandIsSafe
<1>3. rest \in ShareCall /\ rest.at = "next" /\ rest.target = command.target
  BY <1>1, <1>2 DEF ShareCall
<1>4. free # {} => slot \in Slot /\ kept[a][slot] = NoKey
  BY DEF Slot
<1> HIDE DEF rest, slot
<1>5. turn \in ShareCall /\ turn.target = command.target /\ turn.app = a
  BY <1>2, <1>3 DEF ShareCall
<1> HIDE DEF turn
<1>6. CASE command' = rest
  BY <1>1, <1>2, <1>3, <1>6, CommandMovesOn
<1>7. CASE free # {} /\ command' = [turn EXCEPT !.at = "move", !.slot = slot]
  <2> DEFINE c == [turn EXCEPT !.at = "move", !.slot = slot]
  <2>1. c \in ShareCall /\ c.target = command.target /\ c.at = "move" /\ c.app = a /\ c.slot = slot
    BY <1>4, <1>5, <1>7 DEF ShareCall
  <2>2. command' = c
    BY <1>7
  <2> HIDE DEF c
  <2>3. kept[c.app][c.slot] = NoKey
    BY <1>4, <1>7, <2>1
  <2> QED
    BY <1>1, <1>2, <2>1, <2>2, <2>3, CommandMovesOn
<1>8. ASSUME NEW here \in {"unlink", "link"}, command' = [turn EXCEPT !.at = here] PROVE IdentityInv'
  <2> DEFINE c == [turn EXCEPT !.at = here]
  <2>1. c \in ShareCall /\ c.target = command.target /\ c.at = here
    BY <1>5 DEF ShareCall
  <2>2. command' = c
    BY <1>8
  <2> HIDE DEF c
  <2> QED
    BY <1>1, <1>2, <2>1, <2>2, CommandMovesOn
<1> QED
  BY <1>1, <1>6, <1>7, <1>8

LEMMA UnshareLooksKeeps == ASSUME IdentityInv, NEW a \in App, UnshareLooks(a) PROVE IdentityInv'
<1> DEFINE rest == [command EXCEPT !.todo = @ \ {a}]
<1>1. /\ command.at = "next" /\ UNCHANGED <<file, symlink, kept, ensures, excused, made, calls, damages, commands>>
      /\ command' = rest \/ command' = [rest EXCEPT !.app = a, !.at = "unlink"]
  BY DEF UnshareLooks, pathVars, Untouched
<1>2. command \in ShareCall /\ commands' \in 0..MaxCommands /\ command.target \in {"system", "user"}
  BY <1>1, IdentityTypes DEF IdentityInv, CommandIsSafe
<1>3. rest \in ShareCall /\ rest.at = "next" /\ rest.target = command.target
  BY <1>1, <1>2 DEF ShareCall
<1> HIDE DEF rest
<1>4. CASE command' = rest
  BY <1>1, <1>2, <1>3, <1>4, CommandMovesOn
<1>5. CASE command' = [rest EXCEPT !.app = a, !.at = "unlink"]
  <2> DEFINE c == [rest EXCEPT !.app = a, !.at = "unlink"]
  <2>1. c \in ShareCall /\ c.target = command.target /\ c.at = "unlink"
    BY <1>3 DEF ShareCall
  <2>2. command' = c
    BY <1>5
  <2> HIDE DEF c
  <2> QED
    BY <1>1, <1>2, <2>1, <2>2, CommandMovesOn
<1> QED
  BY <1>1, <1>4, <1>5

\* Files change under the calls: what goes out of a file goes to a backup or is excused, and
\* what goes out of a backup goes to a file.
LEMMA FilesChange ==
  ASSUME IdentityInv, Jolts, UNCHANGED <<calls, commands>>, damages' \in 0..MaxDamages,
         command' \in ShareCall, made' \in 0..MaxKeys, file' \in [Place \cup App -> Content],
         kept' \in [App -> [Slot -> Content]], symlink' \in [App -> Place \cup {"no"}],
         excused \subseteq excused', excused' \subseteq Key,
         \A x \in Place \cup App : file[x] \in Key /\ file'[x] # file[x] =>
             file[x] \in excused' \/ \E a \in App, s \in Slot : kept'[a][s] = file[x],
         \A a \in App, s \in Slot : kept[a][s] \in Key /\ kept'[a][s] # kept[a][s] =>
             \E x \in Place \cup App : file'[x] = kept[a][s],
         made' = made \/ (made' = made + 1 /\ \E x \in Place \cup App : file'[x] = made'),
         CommandIsSafe', LinksAreKnown'
  PROVE  IdentityInv'
<1>1. IdentityTypeOK /\ KeysFound /\ CallsAreCalm
  BY DEF IdentityInv
<1>2. ensures \in [Starter -> EnsureCall] /\ made \in 0..MaxKeys
  BY <1>1, IdentityTypes
<1>3. ensures' \in [Starter -> EnsureCall] /\ \A q \in Starter : Jolted(q)
  BY <1>2, JoltsOfCalls
<1>4. IdentityTypeOK'
  <2>1. calls' \in 0..MaxEnsures /\ commands' \in 0..MaxCommands
    BY <1>1, IdentityTypes
  <2> QED
    BY <1>3, <2>1 DEF IdentityTypeOK, EnsureCall, ShareCall
<1>5. CallsAreCalm'
  BY <1>1, <1>3, JoltedIsCalm DEF CallsAreCalm
<1>6. ASSUME NEW k \in Key, Found(k) PROVE Found(k)'
  <2>1. CASE \E x \in Place \cup App : file[x] = k
    <3>1. PICK x \in Place \cup App : file[x] = k
      BY <2>1
    <3>2. file'[x] # k => k \in excused' \/ \E a \in App, s \in Slot : kept'[a][s] = k
      BY <3>1
    <3> QED
      BY <3>1, <3>2 DEF Found
  <2>2. CASE \E a \in App, s \in Slot : kept[a][s] = k
    <3>1. PICK a \in App, s \in Slot : kept[a][s] = k
      BY <2>2
    <3>2. kept'[a][s] # k => \E x \in Place \cup App : file'[x] = k
      BY <3>1
    <3> QED
      BY <3>1, <3>2 DEF Found
  <2>3. CASE \E q \in Starter : ensures[q].at \in {"truncate", "save"} /\ ensures[q].key = k
    BY <1>3, <2>3 DEF Found, Jolted
  <2>4. CASE k \in excused
    BY <2>4 DEF Found
  <2> QED
    BY <1>6, <2>1, <2>2, <2>3, <2>4 DEF Found
<1>7. KeysFound'
  <2>1. ASSUME NEW k \in 1..made' PROVE Found(k)'
    <3>1. k \in Key
      BY IdentityNumbers DEF Key
    <3>2. CASE k \in 1..made
      BY <1>1, <1>6, <3>1, <3>2 DEF KeysFound
    <3>3. CASE k \notin 1..made
      <4>1. made' = made + 1 /\ \E x \in Place \cup App : file'[x] = made'
        BY <3>3
      <4>2. k = made'
        BY <1>2, <3>3, <4>1, IdentityNumbers
      <4> QED
        BY <4>1, <4>2 DEF Found
    <3> QED
      BY <3>2, <3>3
  <2> QED
    BY <2>1 DEF KeysFound
<1> QED
  BY <1>4, <1>5, <1>7 DEF IdentityInv

LEMMA BacksUpKeeps == ASSUME IdentityInv, ShareBacksUp PROVE IdentityInv'
<1> DEFINE a == command.app
           c == [command EXCEPT !.at = "link"]
<1>1. /\ command.at = "move" /\ Jolts /\ command' = c
      /\ kept' = [kept EXCEPT ![a][command.slot] = file[a]] /\ file' = [file EXCEPT ![a] = NoKey]
      /\ UNCHANGED <<symlink, commands, excused, made, calls, damages>>
  BY DEF ShareBacksUp, Untouched
<1>2. /\ file \in [Place \cup App -> Content] /\ kept \in [App -> [Slot -> Content]] /\ command \in ShareCall
      /\ symlink \in [App -> Place \cup {"no"}] /\ excused \subseteq Key /\ made \in 0..MaxKeys /\ damages \in 0..MaxDamages
  BY IdentityTypes DEF IdentityInv
<1>3. /\ kept[a][command.slot] = NoKey /\ command.target \in {"system", "user"} /\ LinksAreKnown
  BY <1>1 DEF IdentityInv, CommandIsSafe
<1>4. c \in ShareCall /\ c.at = "link" /\ c.target = command.target /\ a \in App /\ command.slot \in Slot
  BY <1>2 DEF ShareCall
<1> HIDE DEF a, c
<1>5. /\ file' \in [Place \cup App -> Content] /\ file'[a] = NoKey
      /\ \A x \in Place \cup App : x # a => file'[x] = file[x]
  BY <1>1, <1>2, <1>4, IdentityNumbers
<1>6. /\ kept' \in [App -> [Slot -> Content]] /\ kept'[a][command.slot] = file[a]
      /\ \A b \in App, s \in Slot : b # a \/ s # command.slot => kept'[b][s] = kept[b][s]
  BY <1>1, <1>2, <1>4
<1>7. \A x \in Place \cup App : file[x] \in Key /\ file'[x] # file[x] => \E b \in App, s \in Slot : kept'[b][s] = file[x]
  BY <1>4, <1>5, <1>6
<1>8. \A b \in App, s \in Slot : kept[b][s] \in Key => kept'[b][s] = kept[b][s]
  BY <1>3, <1>6, IdentityNumbers
<1>9. CommandIsSafe'
  BY <1>1, <1>3, <1>4 DEF CommandIsSafe
<1>10. LinksAreKnown'
  BY <1>1, <1>3, <1>5 DEF LinksAreKnown, PointsToStyrene
<1> QED
  BY <1>1, <1>2, <1>4, <1>5, <1>6, <1>7, <1>8, <1>9, <1>10, FilesChange

LEMMA UnlinksKeeps == ASSUME IdentityInv, Unlinks PROVE IdentityInv'
<1> DEFINE a == command.app
           go == IF command.op = "share" THEN "link" ELSE "restore"
           c == [command EXCEPT !.at = go]
<1>1. /\ Jolts /\ command' = c /\ symlink' = [symlink EXCEPT ![a] = "no"]
      /\ file' = [file EXCEPT ![a] = NoKey] /\ excused' = excused \cup ({file[a]} \cap Key)
      /\ UNCHANGED <<kept, commands, made, calls, damages>>
  BY DEF Unlinks, Untouched
<1>2. /\ file \in [Place \cup App -> Content] /\ kept \in [App -> [Slot -> Content]] /\ command \in ShareCall
      /\ symlink \in [App -> Place \cup {"no"}] /\ excused \subseteq Key /\ made \in 0..MaxKeys /\ damages \in 0..MaxDamages
  BY IdentityTypes DEF IdentityInv
<1>3. command.target \in {"system", "user"} /\ LinksAreKnown
  BY DEF IdentityInv, CommandIsSafe
<1>4. c \in ShareCall /\ c.at \in {"link", "restore"} /\ c.target = command.target /\ c.app = a /\ a \in App
  BY <1>2 DEF ShareCall
<1> HIDE DEF a, c
<1>5. /\ file' \in [Place \cup App -> Content] /\ file'[a] = NoKey
      /\ \A x \in Place \cup App : x # a => file'[x] = file[x]
  BY <1>1, <1>2, <1>4, IdentityNumbers
<1>6. /\ symlink' \in [App -> Place \cup {"no"}] /\ symlink'[a] = "no"
      /\ \A b \in App : b # a => symlink'[b] = symlink[b]
  BY <1>1, <1>2, <1>4
<1>7. \A x \in Place \cup App : file[x] \in Key /\ file'[x] # file[x] => file[x] \in excused'
  BY <1>1, <1>5
<1>8. CommandIsSafe'
  BY <1>1, <1>3, <1>4, <1>6 DEF CommandIsSafe
<1>9. LinksAreKnown'
  BY <1>3, <1>5, <1>6 DEF LinksAreKnown, PointsToStyrene
<1>10. excused \subseteq excused' /\ excused' \subseteq Key
  BY <1>1, <1>2
<1> QED
  BY <1>1, <1>2, <1>4, <1>5, <1>6, <1>7, <1>8, <1>9, <1>10, FilesChange

LEMMA NextAppIs ==
  ASSUME command \in ShareCall
  PROVE  NextApp \in ShareCall /\ NextApp.at = "next" /\ NextApp.target = command.target
  BY NamesOfPlaces DEF NextApp, ShareCall, Slot

LEMMA LinksKeeps == ASSUME IdentityInv, ShareLinks PROVE IdentityInv'
<1> DEFINE a == command.app
<1>1. /\ Jolts /\ command' = NextApp
      /\ symlink' = IF file[a] = NoKey THEN [symlink EXCEPT ![a] = command.target] ELSE symlink
      /\ UNCHANGED <<file, kept, commands, excused, made, calls, damages>>
  BY DEF ShareLinks, Untouched
<1>2. /\ file \in [Place \cup App -> Content] /\ kept \in [App -> [Slot -> Content]] /\ command \in ShareCall
      /\ symlink \in [App -> Place \cup {"no"}] /\ excused \subseteq Key /\ made \in 0..MaxKeys /\ damages \in 0..MaxDamages
  BY IdentityTypes DEF IdentityInv
<1>3. command.target \in {"system", "user"} /\ LinksAreKnown
  BY DEF IdentityInv, CommandIsSafe
<1>4. NextApp \in ShareCall /\ NextApp.at = "next" /\ NextApp.target = command.target
  BY <1>2, NextAppIs
<1>5. a \in App /\ command.target \in Place
  BY <1>2, <1>3 DEF ShareCall, Place
<1> HIDE DEF a
<1>6. /\ symlink' \in [App -> Place \cup {"no"}]
      /\ symlink'[a] = symlink[a] \/ (symlink'[a] = command.target /\ file[a] = NoKey)
      /\ \A b \in App : b # a => symlink'[b] = symlink[b]
  BY <1>1, <1>2, <1>5
<1>7. CommandIsSafe'
  BY <1>1, <1>3, <1>4 DEF CommandIsSafe
<1>8. LinksAreKnown'
  BY <1>1, <1>3, <1>6 DEF LinksAreKnown, PointsToStyrene
<1> QED
  BY <1>1, <1>2, <1>4, <1>6, <1>7, <1>8, FilesChange

LEMMA RestoresKeeps == ASSUME IdentityInv, UnshareRestores PROVE IdentityInv'
<1> DEFINE a == command.app
<1>1. /\ command.at = "restore" /\ Jolts /\ command' = NextApp /\ UNCHANGED <<symlink, commands, made, calls, damages>>
      /\ \/ /\ kept[a][1] # NoKey
            /\ file' = [file EXCEPT ![a] = kept[a][1]] /\ kept' = [kept EXCEPT ![a][1] = NoKey]
            /\ excused' = excused \cup ({file[a]} \cap Key)
         \/ UNCHANGED <<file, kept, excused>>
  BY DEF UnshareRestores, Untouched
<1>2. /\ file \in [Place \cup App -> Content] /\ kept \in [App -> [Slot -> Content]] /\ command \in ShareCall
      /\ symlink \in [App -> Place \cup {"no"}] /\ excused \subseteq Key /\ made \in 0..MaxKeys /\ damages \in 0..MaxDamages
  BY IdentityTypes DEF IdentityInv
<1>3. command.target \in {"system", "user"} /\ LinksAreKnown /\ symlink[a] = "no"
  BY <1>1 DEF IdentityInv, CommandIsSafe
<1>4. NextApp \in ShareCall /\ NextApp.at = "next" /\ NextApp.target = command.target /\ a \in App
  BY <1>2, NextAppIs DEF ShareCall
<1> HIDE DEF a
<1>5. CommandIsSafe'
  BY <1>1, <1>3, <1>4 DEF CommandIsSafe
<1>6. CASE UNCHANGED <<file, kept, excused>>
  <2>1. LinksAreKnown'
    BY <1>1, <1>3, <1>6 DEF LinksAreKnown, PointsToStyrene
  <2> QED
    BY <1>1, <1>2, <1>4, <1>5, <1>6, <2>1, FilesChange
<1>7. CASE /\ file' = [file EXCEPT ![a] = kept[a][1]] /\ kept' = [kept EXCEPT ![a][1] = NoKey]
           /\ excused' = excused \cup ({file[a]} \cap Key)
  <2>1. 1 \in Slot /\ kept[a][1] \in Content
    BY <1>2, <1>4 DEF Slot
  <2>2. /\ file' \in [Place \cup App -> Content] /\ file'[a] = kept[a][1]
        /\ \A x \in Place \cup App : x # a => file'[x] = file[x]
    BY <1>2, <1>4, <1>7, <2>1
  <2>3. /\ kept' \in [App -> [Slot -> Content]]
        /\ \A b \in App, s \in Slot : b # a \/ s # 1 => kept'[b][s] = kept[b][s]
    BY <1>2, <1>4, <1>7, <2>1, IdentityNumbers
  <2>4. \A b \in App, s \in Slot : kept'[b][s] # kept[b][s] => file'[a] = kept[b][s]
    BY <2>2, <2>3
  <2>5. \A x \in Place \cup App : file[x] \in Key /\ file'[x] # file[x] => file[x] \in excused'
    BY <1>7, <2>2
  <2>6. excused \subseteq excused' /\ excused' \subseteq Key
    BY <1>2, <1>7
  <2>7. LinksAreKnown'
    BY <1>1, <1>3, <2>2 DEF LinksAreKnown, PointsToStyrene
  <2> QED
    BY <1>1, <1>2, <1>4, <1>5, <2>2, <2>3, <2>4, <2>5, <2>6, <2>7, FilesChange
<1> QED
  BY <1>1, <1>6, <1>7

\* An identity that is new, in a file that was empty.
LEMMA NewIdentity ==
  ASSUME IdentityInv, Jolts, NEW x \in Place \cup App, file[x] = NoKey, file' = [file EXCEPT ![x] = made'],
         made < MaxKeys, made' = made + 1, x \in App => symlink[x] = "no",
         UNCHANGED <<symlink, kept, command, calls, commands, damages, excused>>
  PROVE  IdentityInv'
<1>1. /\ file \in [Place \cup App -> Content] /\ kept \in [App -> [Slot -> Content]] /\ command \in ShareCall
      /\ symlink \in [App -> Place \cup {"no"}] /\ excused \subseteq Key /\ made \in 0..MaxKeys /\ damages \in 0..MaxDamages
  BY IdentityTypes DEF IdentityInv
<1>2. CommandIsSafe /\ LinksAreKnown
  BY DEF IdentityInv
<1>3. made' \in 0..MaxKeys /\ made' \in Content
  BY <1>1, IdentityNumbers DEF Content, Damaged
<1>4. /\ file' \in [Place \cup App -> Content] /\ file'[x] = made'
      /\ \A y \in Place \cup App : y # x => file'[y] = file[y]
  BY <1>1, <1>3
<1>5. \A y \in Place \cup App : file[y] \in Key => file'[y] = file[y]
  BY <1>4, IdentityNumbers
<1>6. CommandIsSafe'
  BY <1>2 DEF CommandIsSafe
<1>7. LinksAreKnown'
  BY <1>2, <1>4 DEF LinksAreKnown, PointsToStyrene
<1> QED
  BY <1>1, <1>3, <1>4, <1>5, <1>6, <1>7, FilesChange

LEMMA AppStartsKeeps == ASSUME IdentityInv, NEW a \in App, AppStarts(a) PROVE IdentityInv'
<1> DEFINE x == IF symlink[a] = "no" THEN a ELSE symlink[a]
<1>1. /\ Behind(a) = NoKey /\ made < MaxKeys /\ made' = made + 1 /\ file' = [file EXCEPT ![x] = made'] /\ Jolts
      /\ UNCHANGED <<symlink, kept, command, calls, commands, damages, excused>>
  BY DEF AppStarts
<1>2. symlink[a] \in Place \cup {"no"}
  BY IdentityTypes DEF IdentityInv
<1>3. file[x] = NoKey
  BY <1>1 DEF Behind
<1>4. x \in Place \cup App /\ (x \in App => symlink[x] = "no")
  BY <1>2, NamesOfPlaces
<1> HIDE DEF x
<1> QED
  BY <1>1, <1>3, <1>4, NewIdentity

LEMMA ProvidesKeeps == ASSUME IdentityInv, NEW p \in Place, OwnerProvides(p) PROVE IdentityInv'
<1>1. /\ file[p] = NoKey /\ made < MaxKeys /\ made' = made + 1 /\ file' = [file EXCEPT ![p] = made'] /\ Jolts
      /\ UNCHANGED <<symlink, kept, command, calls, commands, damages, excused>>
  BY DEF OwnerProvides
<1>2. p \notin App
  BY NamesOfPlaces
<1> QED
  BY <1>1, <1>2, NewIdentity

LEMMA DamagedKeeps == ASSUME IdentityInv, NEW x \in Place \cup App, FileDamaged(x) PROVE IdentityInv'
<1>1. /\ file[x] \in Key /\ damages < MaxDamages /\ damages' = damages + 1
      /\ file' = [file EXCEPT ![x] = Damaged] /\ excused' = excused \cup {file[x]} /\ Jolts
      /\ UNCHANGED <<symlink, kept, made, command, calls, commands>>
  BY DEF FileDamaged
<1>2. /\ file \in [Place \cup App -> Content] /\ kept \in [App -> [Slot -> Content]] /\ command \in ShareCall
      /\ symlink \in [App -> Place \cup {"no"}] /\ excused \subseteq Key /\ made \in 0..MaxKeys /\ damages \in 0..MaxDamages
  BY IdentityTypes DEF IdentityInv
<1>3. CommandIsSafe /\ LinksAreKnown
  BY DEF IdentityInv
<1>4. /\ file' \in [Place \cup App -> Content] /\ \A y \in Place \cup App : y # x => file'[y] = file[y]
  BY <1>1, <1>2, IdentityNumbers
<1>5. damages' \in 0..MaxDamages
  BY <1>1, <1>2, IdentityNumbers
<1>6. \A y \in Place \cup App : file[y] \in Key /\ file'[y] # file[y] => file[y] \in excused'
  BY <1>1, <1>4
<1>7. excused \subseteq excused' /\ excused' \subseteq Key
  BY <1>1, <1>2
<1>8. CommandIsSafe'
  BY <1>1, <1>3 DEF CommandIsSafe
<1>9. LinksAreKnown'
  <2>1. x \in App => symlink[x] = "no"
    BY <1>1, <1>3, IdentityNumbers DEF LinksAreKnown
  <2> QED
    BY <1>1, <1>3, <1>4, <2>1 DEF LinksAreKnown, PointsToStyrene
<1> QED
  BY <1>1, <1>2, <1>4, <1>5, <1>6, <1>7, <1>8, <1>9, FilesChange

LEMMA IdentityStays == ASSUME IdentityInv, [IdentityNext]_identityVars PROVE IdentityInv'
<1>1. CASE UNCHANGED identityVars
  <2>1. UNCHANGED <<file, symlink, kept, ensures, command, excused, made, calls, damages, commands>>
    BY <1>1 DEF identityVars, pathVars
  <2>2. \A k : Found(k) => Found(k)'
    BY <2>1 DEF Found
  <2>3. KeysFound' /\ CommandIsSafe' /\ LinksAreKnown'
    BY <2>1, <2>2 DEF IdentityInv, KeysFound, CommandIsSafe, LinksAreKnown, PointsToStyrene
  <2>4. CallsAreCalm'
    BY <2>1, CalmWithoutFiles DEF IdentityInv, CallsAreCalm
  <2>5. IdentityTypeOK'
    BY <2>1 DEF IdentityInv, IdentityTypeOK
  <2> QED
    BY <2>3, <2>4, <2>5 DEF IdentityInv
<1>2. CASE \E p \in Starter : EnsureIdentity(p) \/ SetAside(p) \/ GenerateOrAdopt(p) \/ Truncate(p)
                               \/ SaveIdentity(p) \/ StarterLeaves(p)
  BY <1>2, EnsureKeeps, SetAsideKeeps, AdoptKeeps, TruncateKeeps, SaveKeeps, StarterLeavesKeeps, Zenon
<1>3. CASE ShareBegins \/ ShareBacksUp \/ Unlinks \/ ShareLinks \/ UnshareBegins \/ UnshareRestores \/ CommandEnds
  BY <1>3, ShareBeginsKeeps, BacksUpKeeps, UnlinksKeeps, LinksKeeps, UnshareBeginsKeeps, RestoresKeeps,
     CommandEndsKeeps, Zenon
<1>4. CASE \E a \in App : ShareLooks(a) \/ UnshareLooks(a) \/ AppStarts(a)
  BY <1>4, ShareLooksKeeps, UnshareLooksKeeps, AppStartsKeeps, Zenon
<1>5. CASE \E p \in Place : OwnerProvides(p)
  BY <1>5, ProvidesKeeps, Zenon
<1>6. CASE \E x \in Place \cup App : FileDamaged(x)
  BY <1>6, DamagedKeeps, Zenon
<1> QED
  BY <1>1, <1>2, <1>3, <1>4, <1>5, <1>6, Zenon DEF IdentityNext

LEMMA IdentityInvariant == IdentitySpec => []IdentityInv
  BY IdentityStarts, IdentityStays, PTL DEF IdentitySpec

LEMMA IdentityShows ==
  ASSUME IdentityInv PROVE IdentityTypeOK /\ IdentitiesKept /\ EnsuredIsStored /\ LinksAreKnown
<1>1. IdentityTypeOK /\ KeysFound /\ CallsAreCalm /\ LinksAreKnown
  BY DEF IdentityInv
<1>2. IdentitiesKept
  <2> SUFFICES ASSUME NEW k \in 1..made PROVE k \in Somewhere \cup excused
    BY DEF IdentitiesKept
  <2>1. Found(k)
    BY <1>1 DEF KeysFound
  <2> QED
    BY <2>1 DEF Found, Somewhere
<1>3. EnsuredIsStored
  BY <1>1 DEF EnsuredIsStored, CallsAreCalm, CalmCall
<1> QED
  BY <1>1, <1>2, <1>3

\* No identity is lost but those that may be; a call that nobody has disturbed returns the
\* identity the services load; a path of an application is a file or a link to a place that
\* unshare knows: for any applications, processes, commands, damages and deaths.
THEOREM IdentitiesAreKept == IdentitySpec => [](IdentitiesKept /\ EnsuredIsStored /\ LinksAreKnown)
  BY IdentityInvariant, IdentityShows, PTL

-----------------------------------------------------------------------------
(* The core configuration file.                                             *)

\* A configuration keeps apart what differs from the defaults of its profile.
Owns == UNION {[D -> Value] : D \in SUBSET Field}
Conf == {c \in [profile : Profile, own : Owns] : \A f \in DOMAIN c.own : c.own[f] # Default(c.profile, f)}

LEMMA FieldsByName ==
  /\ "provider" \in Field /\ "provider" \notin NeverRead \cup NeedsText \cup TokenFields \cup CanBeNothing
  /\ "credential_id" \in TokenFields /\ "credential_id" \in CanBeNothing
  /\ "credential_id" \notin WhenGiven \cup NeverRead \cup NeedsText
  /\ "peers" \notin CanBeNothing \cup TokenFields \cup NeedsText \cup NeverRead
  /\ "peers" # "provider" /\ "peers" # "credential_id" /\ "provider" # "credential_id"
  BY DEF Field, NeverRead, NeedsText, TokenFields, CanBeNothing, WhenGiven

LEMMA ProfilesByName ==
  ASSUME NEW p \in Profile
  PROVE  /\ "peers" \in ProfileSets[p] /\ "provider" \notin ProfileSets[p] /\ "credential_id" \notin ProfileSets[p]
         /\ ProfileSets[p] \subseteq Field
<1>1. CASE p = "operator"
  <2>1. ProfileSets[p] = {"allow_command_execution", "propagation_destination", "peers"}
    BY <1>1 DEF ProfileSets, Profile
  <2>2. ProfileSets[p] \subseteq Field
    BY <2>1 DEF Field, RPCFields, WhenGiven
  <2> QED
    BY <2>1, <2>2
<1>2. CASE p = "endpoint"
  <2>1. ProfileSets[p] = {"auto_reply_mode", "ipc_enabled", "terminal_enabled", "notifications_enabled", "peers"}
    BY <1>2 DEF ProfileSets, Profile
  <2>2. ProfileSets[p] \subseteq Field
    BY <2>1 DEF Field, ChatFields, ServiceFields
  <2> QED
    BY <2>1, <2>2
<1>3. CASE p = "hub"
  <2>1. ProfileSets[p] = {"mode", "enable_transport", "relay_mode", "allow_command_execution",
                          "auto_reply_mode", "auto_reply_cooldown", "api_enabled", "public_mode",
                          "ipc_enabled", "notifications_enabled", "propagation_enabled", "peers"}
    BY <1>3 DEF ProfileSets, Profile
  <2>2. ProfileSets[p] \subseteq Field
    BY <2>1 DEF Field, ReticulumFields, WhenGiven, RPCFields, ChatFields, APIFields, ServiceFields, LXMFFields
  <2> QED
    BY <2>1, <2>2
<1> QED
  BY <1>1, <1>2, <1>3 DEF Profile

LEMMA DefaultsAreValues ==
  ASSUME NEW p \in Profile, NEW f
  PROVE  /\ Default(p, f) \in Value
         /\ f \in CanBeNothing /\ f \notin ProfileSets[p] => Default(p, f) = "nothing"
         /\ f = "provider" => Default(p, f) = "usual"
<1>1. f = "provider" => f \notin ProfileSets[p] /\ f \notin CanBeNothing
  BY ProfilesByName, FieldsByName
<1> QED
  BY <1>1 DEF Default, Value

\* What is normal is a configuration, of which every field has its value.
LEMMA NormalIsConf ==
  ASSUME NEW p \in Profile, NEW own \in Owns
  PROVE  /\ Normal(p, own) \in Conf /\ Normal(p, own).profile = p
         /\ DOMAIN Normal(p, own).own = {g \in DOMAIN own : own[g] # Default(p, g)}
         /\ \A g \in DOMAIN Normal(p, own).own : Normal(p, own).own[g] = own[g]
         /\ \A f : Get(Normal(p, own), f) = IF f \in DOMAIN own THEN own[f] ELSE Default(p, f)
<1>1. DOMAIN own \in SUBSET Field /\ \A g \in DOMAIN own : own[g] \in Value
  BY DEF Owns
<1> DEFINE D == {g \in DOMAIN own : own[g] # Default(p, g)}
           n == [f \in D |-> own[f]]
<1>2. Normal(p, own) = [profile |-> p, own |-> n]
  BY DEF Normal
<1>3. DOMAIN n = D /\ (\A g \in D : n[g] = own[g]) /\ D \subseteq Field /\ n \in [D -> Value]
  BY <1>1
<1> HIDE DEF n
<1>4. n \in Owns
  BY <1>3 DEF Owns
<1>5. Normal(p, own).profile = p /\ Normal(p, own).own = n
  BY <1>2
<1>6. Normal(p, own) \in Conf
  BY <1>2, <1>3, <1>4, <1>5 DEF Conf
<1>7. \A f : Get(Normal(p, own), f) = IF f \in DOMAIN own THEN own[f] ELSE Default(p, f)
  BY <1>3, <1>5 DEF Get
<1> QED
  BY <1>3, <1>5, <1>6, <1>7

\* What a configuration is.
LEMMA ConfIs ==
  ASSUME NEW c \in Conf
  PROVE  /\ c.profile \in Profile /\ c.own \in Owns /\ DOMAIN c.own \subseteq Field
         /\ \A f \in DOMAIN c.own : c.own[f] \in Value /\ c.own[f] # Default(c.profile, f)
         /\ c = [profile |-> c.profile, own |-> [f \in DOMAIN c.own |-> c.own[f]]]
         /\ ConfigIsOne(c)
         /\ \A f : Get(c, f) \in Value
<1>1. c.profile \in Profile /\ c.own \in Owns /\ c = [profile |-> c.profile, own |-> c.own]
  BY DEF Conf
<1>2. DOMAIN c.own \subseteq Field /\ \A f \in DOMAIN c.own : c.own[f] \in Value
  BY <1>1 DEF Owns
<1>3. c.own = [f \in DOMAIN c.own |-> c.own[f]]
  BY <1>1 DEF Owns
<1>4. \A f \in DOMAIN c.own : c.own[f] # Default(c.profile, f)
  BY DEF Conf
<1>5. \A f : Get(c, f) \in Value
  BY <1>1, <1>2, DefaultsAreValues DEF Get
<1> QED
  BY <1>1, <1>2, <1>3, <1>4, <1>5 DEF ConfigIsOne

LEMMA FreshIsConf == Fresh \in Conf
<1>1. [f \in {} |-> "usual"] \in [{} -> Value] /\ DOMAIN [f \in {} |-> "usual"] = {}
  OBVIOUS
<1>2. [f \in {} |-> "usual"] \in Owns
  BY <1>1 DEF Owns
<1> QED
  BY <1>1, <1>2 DEF Fresh, Conf, Profile

\* A field that is set.
LEMMA SetIsConf ==
  ASSUME NEW c \in Conf, NEW f \in Field, NEW v \in Value
  PROVE  Set(c, f, v) \in Conf
<1> DEFINE o == [g \in DOMAIN c.own \cup {f} |-> IF g = f THEN v ELSE c.own[g]]
<1>1. DOMAIN c.own \cup {f} \in SUBSET Field /\ o \in [DOMAIN c.own \cup {f} -> Value] /\ c.profile \in Profile
  BY ConfIs
<1>2. o \in Owns
  BY <1>1 DEF Owns
<1> QED
  BY <1>1, <1>2, NormalIsConf DEF Set

\* A configuration comes back as it was saved, but for the fields that may differ, and
\* what has come back comes back unchanged.
LEMMA ReadsBack ==
  ASSUME NEW d \in Conf
  PROVE  /\ ReadBack(d) \in Conf /\ ReadBack(d).profile = d.profile
         /\ \A f \in DOMAIN ReadBack(d).own \cup DOMAIN d.own : Get(ReadBack(d), f) # Get(d, f) => MayDiffer(d, f)
         /\ ReadBack(ReadBack(d)) = ReadBack(d)
<1> DEFINE legible == {f \in DOMAIN d.own : Written(d, f) /\ f \notin NeverRead /\ (f \in NeedsText => d.own[f] # "nothing")}
           o == [f \in legible |-> IF f = "peers" /\ d.own[f] = "own" THEN "merged" ELSE d.own[f]]
           c == ReadBack(d)
<1>0. /\ d.profile \in Profile /\ DOMAIN d.own \subseteq Field
      /\ \A f \in DOMAIN d.own : d.own[f] \in Value /\ d.own[f] # Default(d.profile, f)
  BY ConfIs
<1>1. c = Normal(d.profile, o)
  BY DEF ReadBack
<1>2. legible \subseteq Field /\ o \in [legible -> Value]
  BY <1>0 DEF Value
<1>3. o \in Owns /\ DOMAIN o = legible /\ \A f \in legible : o[f] = IF f = "peers" /\ d.own[f] = "own" THEN "merged" ELSE d.own[f]
  BY <1>2 DEF Owns
<1>4. /\ c \in Conf /\ c.profile = d.profile
      /\ DOMAIN c.own = {g \in legible : o[g] # Default(d.profile, g)}
      /\ \A g \in DOMAIN c.own : c.own[g] = o[g]
      /\ \A f : Get(c, f) = IF f \in legible THEN o[f] ELSE Default(d.profile, f)
  BY <1>0, <1>1, <1>3, NormalIsConf
<1> HIDE DEF o, c
<1>5. ASSUME NEW f \in DOMAIN d.own, Get(c, f) # Get(d, f) PROVE MayDiffer(d, f)
  <2>1. Get(d, f) = d.own[f]
    BY DEF Get
  <2>2. CASE f \in legible
    BY <1>3, <1>4, <1>5, <2>1, <2>2 DEF MayDiffer
  <2>3. CASE f \notin legible
    <3>1. Get(c, f) = Default(d.profile, f)
      BY <1>4, <2>3
    <3>2. CASE f \in NeverRead
      BY <3>2 DEF MayDiffer
    <3>3. CASE f \in NeedsText /\ d.own[f] = "nothing"
      BY <2>1, <3>3 DEF MayDiffer
    <3>4. CASE ~Written(d, f)
      <4>1. CASE f \in TokenFields /\ Get(d, "provider") # "own"
        BY <4>1 DEF MayDiffer
      <4>2. CASE f \in WhenGiven \cup {"peers"} /\ Get(d, f) = "nothing"
        <5>1. f \in ProfileSets[d.profile] \/ f \in CanBeNothing
          BY <1>0, <4>2, ProfilesByName DEF CanBeNothing
        <5>2. f \notin ProfileSets[d.profile] => Default(d.profile, f) = "nothing"
          BY <1>0, <5>1, DefaultsAreValues
        <5>3. f \in ProfileSets[d.profile]
          BY <1>5, <3>1, <4>2, <5>2
        <5> QED
          BY <4>2, <5>3 DEF MayDiffer
      <4> QED
        BY <3>4, <4>1, <4>2 DEF Written
    <3> QED
      BY <2>3, <3>2, <3>3, <3>4
  <2> QED
    BY <2>2, <2>3
<1>6. ASSUME NEW f \in DOMAIN c.own
      PROVE  /\ f \in DOMAIN d.own /\ f \notin NeverRead /\ Written(d, f)
             /\ f # "peers" => c.own[f] = d.own[f] /\ Get(c, f) = Get(d, f)
             /\ f = "peers" => c.own[f] # "own" /\ c.own[f] # "nothing"
             /\ Get(c, f) = c.own[f]
  <2>1. f \in legible /\ c.own[f] = o[f] /\ Get(c, f) = c.own[f] /\ Get(d, f) = d.own[f]
    BY <1>4 DEF Get
  <2>2. f = "peers" => d.own[f] # "nothing"
    BY <2>1 DEF Written
  <2> QED
    BY <1>3, <2>1, <2>2
<1>7. ASSUME NEW f \in DOMAIN c.own
      PROVE  Written(c, f) /\ f \notin NeverRead /\ (f \in NeedsText => c.own[f] # "nothing")
  <2>1. f \in WhenGiven \cup {"peers"} => Get(c, f) # "nothing"
    BY <1>6 DEF Written
  <2>2. f \in TokenFields => Get(c, "provider") = "own" \/ Get(c, "credential_id") # "nothing"
    <3> SUFFICES ASSUME f \in TokenFields
                 PROVE  Get(c, "provider") = "own" \/ Get(c, "credential_id") # "nothing"
      OBVIOUS
    <3>1. Get(d, "provider") = "own" \/ Get(d, "credential_id") # "nothing"
      BY <1>6 DEF Written
    <3>2. ASSUME Get(d, "provider") = "own" PROVE Get(c, "provider") = "own"
      <4>1. "provider" \in DOMAIN d.own /\ d.own["provider"] = "own"
        BY <1>0, <3>2, DefaultsAreValues DEF Get
      <4>2. "provider" \in legible
        BY <4>1, FieldsByName DEF Written, CanBeNothing
      <4> QED
        BY <1>3, <1>4, <4>1, <4>2, FieldsByName
    <3>3. ASSUME Get(d, "credential_id") # "nothing" PROVE Get(c, "credential_id") # "nothing"
      <4>1. Default(d.profile, "credential_id") = "nothing"
        BY <1>0, DefaultsAreValues, ProfilesByName, FieldsByName
      <4>2. "credential_id" \in DOMAIN d.own /\ d.own["credential_id"] # "nothing"
        BY <3>3, <4>1 DEF Get
      <4>3. "credential_id" \in legible
        BY <3>3, <4>2, FieldsByName DEF Written
      <4> QED
        BY <1>3, <1>4, <4>2, <4>3, FieldsByName
    <3> QED
      BY <3>1, <3>2, <3>3
  <2>3. f \in NeedsText => c.own[f] # "nothing"
    <3>1. f \in legible
      BY <1>4
    <3> QED
      BY <1>6, <3>1, FieldsByName
  <2> QED
    BY <1>6, <2>1, <2>2, <2>3 DEF Written
<1>8. ReadBack(c) = c
  <2> DEFINE again == {f \in DOMAIN c.own : Written(c, f) /\ f \notin NeverRead /\ (f \in NeedsText => c.own[f] # "nothing")}
             q == [f \in again |-> IF f = "peers" /\ c.own[f] = "own" THEN "merged" ELSE c.own[f]]
  <2>1. ReadBack(c) = Normal(c.profile, q)
    BY DEF ReadBack
  <2>2. again = DOMAIN c.own
    BY <1>7
  <2>3. q = [f \in DOMAIN c.own |-> c.own[f]]
    BY <1>6, <2>2
  <2>4. /\ c = [profile |-> c.profile, own |-> [f \in DOMAIN c.own |-> c.own[f]]]
        /\ \A f \in DOMAIN c.own : c.own[f] # Default(c.profile, f)
    BY <1>4, ConfIs
  <2>5. {g \in DOMAIN q : q[g] # Default(c.profile, g)} = DOMAIN c.own
    BY <2>3, <2>4
  <2>6. [f \in DOMAIN c.own |-> q[f]] = [f \in DOMAIN c.own |-> c.own[f]]
    BY <2>3
  <2> HIDE DEF q
  <2>7. Normal(c.profile, q) = [profile |-> c.profile, own |-> [f \in DOMAIN c.own |-> q[f]]]
    BY <2>5 DEF Normal
  <2> QED
    BY <2>1, <2>4, <2>6, <2>7
<1>9. DOMAIN c.own \subseteq DOMAIN d.own
  BY <1>6
<1> QED
  BY <1>4, <1>5, <1>8, <1>9 DEF c

-----------------------------------------------------------------------------
(* The file and its editors.                                               *)

ConfigTypes ==
    /\ on_disk \in Conf /\ meant \in Conf /\ intact \in {"absent", "whole", "cut"}
    /\ editing \in [Editor -> [at : {"away", "edits", "writes"}, conf : Conf]]
    /\ changes \in 0..MaxChanges /\ edits \in 0..MaxEdits /\ alone \in BOOLEAN

\* While they take turns one holds a configuration at most, and what it holds is what is meant.
TakeTurns ==
    alone =>
        /\ \A e \in Editor : editing[e].at # "away" =>
              meant = editing[e].conf /\ \A o \in Editor : editing[o].at # "away" => o = e
        /\ (\A e \in Editor : editing[e].at = "away") /\ intact = "whole" => on_disk = meant

ConfigInv == ConfigTypes /\ TakeTurns

LEMMA ConfigStarts == ASSUME ConfigInit PROVE ConfigInv
<1>1. editing = [e \in Editor |-> Away] /\ Away.at = "away" /\ on_disk = Fresh /\ meant = Fresh
      /\ intact = "absent" /\ changes = 0 /\ edits = 0 /\ alone = TRUE
  BY DEF ConfigInit, Away
<1>2. Away \in [at : {"away", "edits", "writes"}, conf : Conf]
  BY FreshIsConf DEF Away
<1>3. editing \in [Editor -> [at : {"away", "edits", "writes"}, conf : Conf]]
      /\ \A e \in Editor : editing[e].at = "away"
  BY <1>1, <1>2
<1>4. changes \in 0..MaxChanges /\ edits \in 0..MaxEdits
  BY <1>1, ConfigAssumption
<1>5. ConfigTypes
  BY <1>1, <1>3, <1>4, FreshIsConf DEF ConfigTypes
<1>6. TakeTurns
  BY <1>1, <1>3 DEF TakeTurns
<1> QED
  BY <1>5, <1>6 DEF ConfigInv

LEMMA FieldValuesAreValues == ASSUME NEW f \in Field PROVE FieldValues(f) \subseteq Value
  BY DEF FieldValues, Value

\* What the wizard makes of a configuration is one.
LEMMA ChosenIsConf ==
  ASSUME NEW c \in Conf, NEW p \in Profile
  PROVE  Normal(p, [f \in DOMAIN c.own \cup ProfileSets[c.profile] \cup ProfileSets[p] |-> Get(c, f)]) \in Conf
<1> DEFINE K == DOMAIN c.own \cup ProfileSets[c.profile] \cup ProfileSets[p]
           k == [f \in K |-> Get(c, f)]
<1>1. K \in SUBSET Field /\ \A f \in K : Get(c, f) \in Value
  BY ConfIs, ProfilesByName
<1>2. k \in [K -> Value]
  BY <1>1
<1>3. k \in Owns
  BY <1>1, <1>2 DEF Owns
<1> HIDE DEF k
<1>4. Normal(p, k) \in Conf
  BY <1>3, NormalIsConf
<1> QED
  BY <1>4 DEF k

\* An editor that is replaced: the others are as they were.
LEMMA OneEdits ==
  ASSUME ConfigTypes, NEW e \in Editor,
         NEW r \in [at : {"away", "edits", "writes"}, conf : Conf], editing' = [editing EXCEPT ![e] = r]
  PROVE  /\ editing' \in [Editor -> [at : {"away", "edits", "writes"}, conf : Conf]]
         /\ editing'[e] = r /\ \A o \in Editor : o # e => editing'[o] = editing[o]
  BY DEF ConfigTypes

LEMMA LoadKeeps == ASSUME ConfigInv, NEW e \in Editor, LoadConfig(e) PROVE ConfigInv'
<1> DEFINE c == IF intact = "whole" THEN ReadBack(on_disk) ELSE Fresh
           r == [at |-> "edits", conf |-> c]
<1>1. /\ editing[e].at = "away" /\ edits < MaxEdits /\ edits' = edits + 1
      /\ editing' = [editing EXCEPT ![e] = r] /\ meant' = IF alone /\ Busy = {} THEN c ELSE meant
      /\ alone' = (alone /\ Busy = {}) /\ on_disk' = on_disk /\ intact' = intact /\ changes' = changes
  BY DEF LoadConfig
<1>2. ConfigTypes /\ TakeTurns
  BY DEF ConfigInv
<1>3. c \in Conf
  BY <1>2, FreshIsConf, ReadsBack DEF ConfigTypes
<1> HIDE DEF c
<1>4. /\ editing' \in [Editor -> [at : {"away", "edits", "writes"}, conf : Conf]]
      /\ editing'[e].at = "edits" /\ editing'[e].conf = c /\ \A o \in Editor : o # e => editing'[o] = editing[o]
  BY <1>1, <1>2, <1>3, OneEdits
<1>5. edits' \in 0..MaxEdits
  BY <1>1, <1>2, ConfigAssumption DEF ConfigTypes
<1>6. meant' \in Conf /\ alone' \in BOOLEAN
  BY <1>1, <1>2, <1>3 DEF ConfigTypes
<1>7. ConfigTypes'
  BY <1>1, <1>2, <1>4, <1>5, <1>6 DEF ConfigTypes
<1>8. alone' => meant' = c /\ \A o \in Editor : editing[o].at = "away"
  BY <1>1 DEF Busy
<1>9. TakeTurns'
  BY <1>4, <1>8 DEF TakeTurns
<1> QED
  BY <1>7, <1>9 DEF ConfigInv

\* What an editor makes of its configuration is what is meant, while it is alone.
LEMMA EditKeeps ==
  ASSUME ConfigInv, NEW e \in Editor, NEW c \in Conf, editing[e].at = "edits",
         changes < MaxChanges, changes' = changes + 1, editing' = [editing EXCEPT ![e].conf = c],
         meant' = (IF alone THEN c ELSE meant),
         on_disk' = on_disk, intact' = intact, edits' = edits, alone' = alone
  PROVE  ConfigInv'
<1>1. ConfigTypes /\ TakeTurns
  BY DEF ConfigInv
<1>2. /\ editing' \in [Editor -> [at : {"away", "edits", "writes"}, conf : Conf]]
      /\ editing'[e].at = "edits" /\ editing'[e].conf = c /\ \A o \in Editor : o # e => editing'[o] = editing[o]
  BY <1>1 DEF ConfigTypes
<1>3. changes' \in 0..MaxChanges
  BY <1>1, ConfigAssumption DEF ConfigTypes
<1>4. ConfigTypes'
  BY <1>1, <1>2, <1>3 DEF ConfigTypes
<1>5. alone' => \A o \in Editor : editing[o].at # "away" => o = e
  BY <1>1 DEF TakeTurns
<1>6. TakeTurns'
  BY <1>2, <1>5 DEF TakeTurns
<1> QED
  BY <1>4, <1>6 DEF ConfigInv

LEMMA ChangeKeeps == ASSUME ConfigInv, NEW e \in Editor, NEW f \in Field, ChangeField(e, f) PROVE ConfigInv'
<1>1. PICK v \in FieldValues(f) :
         /\ editing' = [editing EXCEPT ![e].conf = Set(@, f, v)]
         /\ meant' = IF alone THEN Set(meant, f, v) ELSE meant
  BY DEF ChangeField
<1>2. editing[e].at = "edits" /\ changes < MaxChanges /\ changes' = changes + 1
      /\ on_disk' = on_disk /\ intact' = intact /\ edits' = edits /\ alone' = alone
  BY DEF ChangeField
<1>3. editing[e].conf \in Conf /\ v \in Value
  BY FieldValuesAreValues DEF ConfigInv, ConfigTypes
<1> DEFINE c == Set(editing[e].conf, f, v)
<1>4. c \in Conf
  BY <1>3, SetIsConf
<1>5. editing' = [editing EXCEPT ![e].conf = c]
  BY <1>1
<1>6. alone => meant = editing[e].conf
  BY <1>2 DEF ConfigInv, TakeTurns
<1>7. meant' = IF alone THEN c ELSE meant
  BY <1>1, <1>6
<1> HIDE DEF c
<1> QED
  BY <1>2, <1>4, <1>5, <1>7, EditKeeps

LEMMA ChooseKeeps == ASSUME ConfigInv, NEW e \in Editor, NEW p \in Profile, ChooseProfile(e, p) PROVE ConfigInv'
<1> DEFINE k == editing[e].conf
           c == Normal(p, [f \in DOMAIN k.own \cup ProfileSets[k.profile] \cup ProfileSets[p] |-> Get(k, f)])
<1>1. /\ editing[e].at = "edits" /\ changes < MaxChanges /\ changes' = changes + 1
      /\ on_disk' = on_disk /\ intact' = intact /\ edits' = edits /\ alone' = alone
      /\ editing' = [editing EXCEPT ![e].conf = c] /\ meant' = IF alone THEN c ELSE meant
  BY DEF ChooseProfile
<1>2. k \in Conf
  BY DEF ConfigInv, ConfigTypes
<1>3. c \in Conf
  BY <1>2, ChosenIsConf
<1> HIDE DEF c
<1> QED
  BY <1>1, <1>3, EditKeeps

LEMMA SaveBeginsKeeps == ASSUME ConfigInv, NEW e \in Editor, SaveBegins(e) PROVE ConfigInv'
<1>1. editing[e].at = "edits" /\ editing' = [editing EXCEPT ![e].at = "writes"] /\ intact' = "cut"
      /\ on_disk' = on_disk /\ changes' = changes /\ edits' = edits /\ alone' = alone /\ meant' = meant
  BY DEF SaveBegins
<1>2. ConfigTypes /\ TakeTurns
  BY DEF ConfigInv
<1>3. /\ editing' \in [Editor -> [at : {"away", "edits", "writes"}, conf : Conf]]
      /\ editing'[e].at = "writes" /\ editing'[e].conf = editing[e].conf
      /\ \A o \in Editor : o # e => editing'[o] = editing[o]
  BY <1>1, <1>2 DEF ConfigTypes
<1>4. ConfigTypes'
  BY <1>1, <1>2, <1>3 DEF ConfigTypes
<1>5. alone' => meant = editing[e].conf /\ \A o \in Editor : editing[o].at # "away" => o = e
  BY <1>1, <1>2 DEF TakeTurns
<1>6. TakeTurns'
  BY <1>1, <1>3, <1>5 DEF TakeTurns
<1> QED
  BY <1>4, <1>6 DEF ConfigInv

LEMMA SaveEndsKeeps == ASSUME ConfigInv, NEW e \in Editor, SaveEnds(e) PROVE ConfigInv'
<1>1. editing[e].at = "writes" /\ editing' = [editing EXCEPT ![e] = Away] /\ intact' = "whole"
      /\ on_disk' = editing[e].conf /\ changes' = changes /\ edits' = edits /\ alone' = alone /\ meant' = meant
  BY DEF SaveEnds
<1>2. ConfigTypes /\ TakeTurns
  BY DEF ConfigInv
<1>3. Away \in [at : {"away", "edits", "writes"}, conf : Conf] /\ Away.at = "away"
  BY FreshIsConf DEF Away
<1>4. /\ editing' \in [Editor -> [at : {"away", "edits", "writes"}, conf : Conf]]
      /\ editing'[e] = Away /\ \A o \in Editor : o # e => editing'[o] = editing[o]
  BY <1>1, <1>2, <1>3, OneEdits
<1>5. on_disk' \in Conf
  BY <1>1, <1>2 DEF ConfigTypes
<1>6. ConfigTypes'
  BY <1>1, <1>2, <1>4, <1>5 DEF ConfigTypes
<1>7. alone' => meant = editing[e].conf /\ \A o \in Editor : editing[o].at # "away" => o = e
  BY <1>1, <1>2 DEF TakeTurns
<1>8. TakeTurns'
  BY <1>1, <1>3, <1>4, <1>7 DEF TakeTurns
<1> QED
  BY <1>6, <1>8 DEF ConfigInv

LEMMA LeaveKeeps == ASSUME ConfigInv, NEW e \in Editor, EditorLeaves(e) PROVE ConfigInv'
<1> DEFINE c == IF intact = "whole" THEN on_disk ELSE Fresh
<1>1. /\ editing[e].at # "away" /\ editing' = [editing EXCEPT ![e] = Away]
      /\ alone' = (alone /\ editing[e].at = "edits") /\ meant' = IF alone THEN c ELSE meant
      /\ on_disk' = on_disk /\ intact' = intact /\ changes' = changes /\ edits' = edits
  BY DEF EditorLeaves
<1>2. ConfigTypes /\ TakeTurns
  BY DEF ConfigInv
<1>3. Away \in [at : {"away", "edits", "writes"}, conf : Conf] /\ Away.at = "away"
  BY FreshIsConf DEF Away
<1>4. /\ editing' \in [Editor -> [at : {"away", "edits", "writes"}, conf : Conf]]
      /\ editing'[e] = Away /\ \A o \in Editor : o # e => editing'[o] = editing[o]
  BY <1>1, <1>2, <1>3, OneEdits
<1>5. meant' \in Conf /\ alone' \in BOOLEAN
  BY <1>1, <1>2, FreshIsConf DEF ConfigTypes
<1>6. ConfigTypes'
  BY <1>1, <1>2, <1>4, <1>5 DEF ConfigTypes
<1>7. alone' => meant' = c /\ \A o \in Editor : editing[o].at # "away" => o = e
  BY <1>1, <1>2 DEF TakeTurns
<1>8. alone' => \A o \in Editor : editing'[o].at = "away"
  BY <1>3, <1>4, <1>7
<1>9. TakeTurns'
  BY <1>1, <1>7, <1>8 DEF TakeTurns
<1> QED
  BY <1>6, <1>9 DEF ConfigInv

LEMMA ConfigStays == ASSUME ConfigInv, [ConfigNext]_configVars PROVE ConfigInv'
<1>1. CASE UNCHANGED configVars
  BY <1>1 DEF configVars, ConfigInv, ConfigTypes, TakeTurns
<1>2. CASE ConfigNext
  <2>1. PICK e \in Editor :
           \/ LoadConfig(e) \/ SaveBegins(e) \/ SaveEnds(e) \/ EditorLeaves(e)
           \/ (\E f \in Field : ChangeField(e, f)) \/ (\E p \in Profile : ChooseProfile(e, p))
    BY <1>2, Zenon DEF ConfigNext
  <2> QED
    BY <2>1, LoadKeeps, SaveBeginsKeeps, SaveEndsKeeps, LeaveKeeps, ChangeKeeps, ChooseKeeps, Zenon
<1> QED
  BY <1>1, <1>2

LEMMA ConfigInvariant == ConfigSpec => []ConfigInv
  BY ConfigStarts, ConfigStays, PTL DEF ConfigSpec

LEMMA ConfigShows == ASSUME ConfigInv PROVE ConfigTypeOK /\ ConfigReadsBack /\ ChangesAreKept
<1>1. ConfigTypes /\ TakeTurns
  BY DEF ConfigInv
<1>2. ConfigTypeOK
  BY <1>1, ConfIs DEF ConfigTypeOK, ConfigTypes
<1>3. ConfigReadsBack
  BY <1>1, ReadsBack DEF ConfigReadsBack, ConfigTypes
<1>4. ChangesAreKept
  BY <1>1 DEF ChangesAreKept, TakeTurns, Busy
<1> QED
  BY <1>2, <1>3, <1>4

\* A configuration comes back from the file as it was saved, but for the fields that may
\* differ, and once read it comes back unchanged; while processes take turns and none dies
\* writing, every change is in the file: for any processes, changes and edits.
THEOREM ConfigurationIsKept == ConfigSpec => [](ConfigReadsBack /\ ChangesAreKept)
  BY ConfigInvariant, ConfigShows, PTL

-----------------------------------------------------------------------------
(* The database of messages and contacts.                                   *)

Phases == {"closed", "looking", "creating", "copying", "committing", "indexing", "open", "failed"}
DatabaseTypes ==
    /\ schema \in {"none", "destination", "identity"} /\ scratch \in BOOLEAN /\ half \in BOOLEAN /\ clash \in BOOLEAN
    /\ opening \in [Opener -> Phases] /\ writer \in Opener \cup {Nobody}
RowTypes == contacts \subseteq Contacts /\ owned \subseteq Keyed
MailTypes == mails \subseteq Letter /\ indexed \subseteq Letter /\ early \subseteq Letter /\ triggers \in BOOLEAN
DeathTypes == died \in 0..MaxCrashes

\* Who writes the index or has the file open has seen the schema of today; who writes has
\* the lock, and the table is still the old one.
PhaseInv ==
    /\ \A p \in Opener : opening[p] \in {"indexing", "open"} => schema = "identity"
    /\ \A p \in Opener : opening[p] = "looking" => schema # "none"
    /\ \A p \in Opener : opening[p] = "committing" => writer = p /\ schema = "destination"

\* Two that bring the file up at once clash, and so does one that finds it done.
MigrationInv ==
    /\ \A p, q \in Opener : Migrating(p) /\ Migrating(q) /\ p # q => clash
    /\ \A p \in Opener : opening[p] \in {"creating", "copying"} => schema = "destination" \/ clash
    /\ \A p \in Opener : opening[p] = "failed" => half \/ clash
    /\ scratch => half \/ clash \/ \E p \in Opener : opening[p] \in {"copying", "committing"}

\* The rows of the old table are kept by destination, none of them marked.
RowsInv ==
    /\ schema = "none" => contacts = {}
    /\ schema = "destination" => \A c \in contacts : c.key \in Known /\ ~c.backfill

DatabaseInv ==
    /\ DatabaseTypes /\ RowTypes /\ MailTypes /\ DeathTypes
    /\ PhaseInv /\ MigrationInv /\ RowsInv /\ ContactsSurvive /\ SearchFindsStored

LEMMA DatabaseStarts == DatabaseInit => DatabaseInv
<1> SUFFICES ASSUME DatabaseInit PROVE DatabaseInv
  OBVIOUS
<1>1. DatabaseTypes
  BY DEF DatabaseInit, DatabaseTypes, Phases
<1>2. /\ \A c \in contacts : c.name \in Known /\ c.key = c.name /\ c.backfill = FALSE /\ c \in Contacts
      /\ schema = "none" => contacts = {}
  <2>1. \/ schema = "none" /\ contacts = {}
        \/ schema = "destination" /\ contacts \subseteq {[name |-> d, key |-> d, backfill |-> FALSE] : d \in Known}
    BY DEF DatabaseInit
  <2>2. ASSUME NEW d \in Known
        PROVE  LET c == [name |-> d, key |-> d, backfill |-> FALSE] IN
               c.name = d /\ c.key = d /\ c.backfill = FALSE /\ c \in Contacts
    BY DEF Contacts, Keyed
  <2>3. ASSUME NEW c \in contacts PROVE c.name \in Known /\ c.key = c.name /\ c.backfill = FALSE /\ c \in Contacts
    <3>1. PICK d \in Known : c = [name |-> d, key |-> d, backfill |-> FALSE]
      BY <2>1
    <3> QED
      BY <2>2, <3>1
  <2> QED
    BY <2>1, <2>3
<1>3. contacts \subseteq Contacts /\ owned = {c.name : c \in contacts} /\ owned \subseteq Keyed
  BY <1>2 DEF DatabaseInit, Keyed
<1>4. MailTypes /\ SearchFindsStored
  BY DEF DatabaseInit, MailTypes, SearchFindsStored
<1>5. PhaseInv /\ MigrationInv /\ DeathTypes
  BY OpenersAssumption DEF DatabaseInit, PhaseInv, MigrationInv, Migrating, DeathTypes
<1>6. ContactsSurvive /\ RowsInv
  <2>1. ASSUME NEW c \in contacts, NEW e \in contacts, c.key = e.key PROVE c = e
    BY <1>2, <2>1 DEF Contacts
  <2> QED
    BY <1>2, <1>3, <2>1 DEF ContactsSurvive, RowsInv
<1> QED
  BY <1>1, <1>3, <1>4, <1>5, <1>6 DEF DatabaseInv, RowTypes

\* A process that goes on changes nothing of the others.
LEMMA OpenerProceeds ==
  ASSUME DatabaseTypes, NEW p \in Opener, NEW to \in Phases, Proceeds(p, to)
  PROVE  /\ opening' \in [Opener -> Phases]
         /\ \A q \in Opener : opening'[q] = IF q = p THEN to ELSE opening[q]
BY DEF DatabaseTypes, Proceeds

\* What a step does that has no row of contacts change.
LEMMA PhasesStay ==
  ASSUME DatabaseInv, [DatabaseNext]_databaseVars
  PROVE  DatabaseTypes' /\ PhaseInv' /\ MigrationInv'
<1>0. DatabaseTypes /\ PhaseInv /\ MigrationInv
  BY DEF DatabaseInv
<1>1. ASSUME UNCHANGED <<schema, scratch, half, clash, opening, writer>>
      PROVE  DatabaseTypes' /\ PhaseInv' /\ MigrationInv'
  BY <1>0, <1>1 DEF DatabaseTypes, PhaseInv, MigrationInv, Migrating
<1>2. CASE UNCHANGED databaseVars
  BY <1>1, <1>2 DEF databaseVars
<1>3. ASSUME NEW p \in Opener, CreatesTables(p) PROVE DatabaseTypes' /\ PhaseInv' /\ MigrationInv'
  <2>1. /\ opening[p] = "closed" /\ schema' = IF schema = "none" THEN "identity" ELSE schema
        /\ UNCHANGED <<scratch, half, clash, writer>>
    BY <1>3 DEF CreatesTables
  <2>2. /\ opening' \in [Opener -> Phases]
        /\ \A q \in Opener : opening'[q] = IF q = p THEN "looking" ELSE opening[q]
    BY <1>0, <1>3, OpenerProceeds DEF CreatesTables, Phases
  <2> QED
    BY <1>0, <2>1, <2>2 DEF DatabaseTypes, PhaseInv, MigrationInv, Migrating
<1>4. ASSUME NEW p \in Opener, LooksAtContacts(p) PROVE DatabaseTypes' /\ PhaseInv' /\ MigrationInv'
  <2>1. /\ opening[p] = "looking" /\ UNCHANGED <<schema, scratch, half, writer>>
        /\ clash' = (clash \/ \E q \in Opener \ {p} : Migrating(q))
    BY <1>4 DEF LooksAtContacts
  <2>2. /\ opening' \in [Opener -> Phases]
        /\ \A q \in Opener : opening'[q] = IF q = p THEN IF schema = "destination" THEN "creating" ELSE "indexing"
                                           ELSE opening[q]
    BY <1>0, <1>4, OpenerProceeds DEF LooksAtContacts, Phases
  <2>3. clash' \in BOOLEAN /\ (clash => clash') /\ \A q \in Opener \ {p} : Migrating(q) => clash'
    BY <1>0, <2>1 DEF DatabaseTypes
  <2>4. DatabaseTypes'
    BY <1>0, <2>1, <2>2, <2>3 DEF DatabaseTypes
  <2>5. PhaseInv'
    BY <1>0, <2>1, <2>2 DEF DatabaseTypes, PhaseInv
  <2>6. MigrationInv'
    BY <1>0, <2>1, <2>2, <2>3 DEF MigrationInv, Migrating
  <2> QED
    BY <2>4, <2>5, <2>6
<1>5. ASSUME NEW p \in Opener, CreatesScratch(p) PROVE DatabaseTypes' /\ PhaseInv' /\ MigrationInv'
  <2>1. opening[p] = "creating" /\ scratch' = TRUE /\ UNCHANGED <<schema, half, clash, writer>>
    BY <1>5 DEF CreatesScratch
  <2>2. /\ opening' \in [Opener -> Phases]
        /\ \A q \in Opener : opening'[q] = IF q = p THEN IF scratch THEN "failed" ELSE "copying" ELSE opening[q]
    BY <1>0, <1>5, OpenerProceeds DEF CreatesScratch, Phases
  <2>3. DatabaseTypes' /\ PhaseInv'
    BY <1>0, <2>1, <2>2 DEF DatabaseTypes, PhaseInv
  <2>4. scratch => half \/ clash
    BY <1>0, <2>1 DEF MigrationInv, Migrating
  <2>5. MigrationInv'
    BY <1>0, <2>1, <2>2, <2>4 DEF MigrationInv, Migrating
  <2> QED
    BY <2>3, <2>5
<1>6. ASSUME NEW p \in Opener, CopiesRows(p) PROVE DatabaseTypes' /\ PhaseInv' /\ MigrationInv'
  <2>1. /\ opening[p] = "copying" /\ writer = Nobody /\ UNCHANGED <<schema, scratch, half, clash>>
        /\ writer' = IF schema = "destination" THEN p ELSE writer
    BY <1>6 DEF CopiesRows
  <2>2. /\ opening' \in [Opener -> Phases]
        /\ \A q \in Opener : opening'[q] = IF q = p THEN IF schema = "destination" THEN "committing" ELSE "failed"
                                           ELSE opening[q]
    BY <1>0, <1>6, OpenerProceeds DEF CopiesRows, Phases
  <2>3. DatabaseTypes'
    BY <1>0, <2>1, <2>2 DEF DatabaseTypes
  <2>4. PhaseInv'
    BY <1>0, <2>1, <2>2, OpenersAssumption DEF PhaseInv
  <2>5. MigrationInv'
    BY <1>0, <2>1, <2>2 DEF MigrationInv, Migrating
  <2> QED
    BY <2>3, <2>4, <2>5
<1>7. ASSUME NEW p \in Opener, Commits(p) PROVE DatabaseTypes' /\ PhaseInv' /\ MigrationInv'
  <2>1. /\ opening[p] = "committing" /\ writer' = Nobody /\ schema' = "identity" /\ scratch' = FALSE
        /\ UNCHANGED <<half, clash>>
    BY <1>7 DEF Commits
  <2>2. /\ opening' \in [Opener -> Phases]
        /\ \A q \in Opener : opening'[q] = IF q = p THEN "indexing" ELSE opening[q]
    BY <1>0, <1>7, OpenerProceeds DEF Commits, Phases
  <2>3. DatabaseTypes'
    BY <1>0, <2>1, <2>2 DEF DatabaseTypes
  <2>4. PhaseInv' /\ MigrationInv'
    BY <1>0, <2>1, <2>2 DEF PhaseInv, MigrationInv, Migrating
  <2> QED
    BY <2>3, <2>4
<1>8. ASSUME NEW p \in Opener, CreatesIndex(p) PROVE DatabaseTypes' /\ PhaseInv' /\ MigrationInv'
  <2>1. opening[p] = "indexing" /\ UNCHANGED <<schema, scratch, half, clash, writer>>
    BY <1>8 DEF CreatesIndex
  <2>2. /\ opening' \in [Opener -> Phases]
        /\ \A q \in Opener : opening'[q] = IF q = p THEN "open" ELSE opening[q]
    BY <1>0, <1>8, OpenerProceeds DEF CreatesIndex, Phases
  <2>3. DatabaseTypes'
    BY <1>0, <2>1, <2>2 DEF DatabaseTypes
  <2>4. PhaseInv' /\ MigrationInv'
    BY <1>0, <2>1, <2>2 DEF PhaseInv, MigrationInv, Migrating
  <2> QED
    BY <2>3, <2>4
<1>11. ASSUME NEW p \in Opener, Leaves(p) PROVE DatabaseTypes' /\ PhaseInv' /\ MigrationInv'
  <2>1. opening[p] \in {"open", "failed"} /\ UNCHANGED <<schema, scratch, half, clash, writer>>
    BY <1>11 DEF Leaves
  <2>2. /\ opening' \in [Opener -> Phases]
        /\ \A q \in Opener : opening'[q] = IF q = p THEN "closed" ELSE opening[q]
    BY <1>0, <1>11, OpenerProceeds DEF Leaves, Phases
  <2>3. DatabaseTypes'
    BY <1>0, <2>1, <2>2 DEF DatabaseTypes
  <2>4. PhaseInv' /\ MigrationInv'
    BY <1>0, <2>1, <2>2 DEF PhaseInv, MigrationInv, Migrating
  <2> QED
    BY <2>3, <2>4
<1>9. ASSUME NEW p \in Opener, Dies(p) PROVE DatabaseTypes' /\ PhaseInv' /\ MigrationInv'
  <2>1. /\ half' = (half \/ opening[p] \in {"copying", "committing"})
        /\ writer' = IF writer = p THEN Nobody ELSE writer
        /\ UNCHANGED <<schema, scratch, clash>>
    BY <1>9 DEF Dies
  <2>2. /\ opening' \in [Opener -> Phases]
        /\ \A q \in Opener : opening'[q] = IF q = p THEN "closed" ELSE opening[q]
    BY <1>0, <1>9, OpenerProceeds DEF Dies, Phases
  <2>3. half' \in BOOLEAN /\ (half => half') /\ (opening[p] \in {"copying", "committing"} => half')
    BY <1>0, <2>1 DEF DatabaseTypes
  <2>4. DatabaseTypes'
    BY <1>0, <2>1, <2>2, <2>3 DEF DatabaseTypes
  <2>5. PhaseInv'
    BY <1>0, <2>1, <2>2 DEF PhaseInv
  <2>6. MigrationInv'
    BY <1>0, <2>1, <2>2, <2>3 DEF MigrationInv, Migrating
  <2> QED
    BY <2>4, <2>5, <2>6
<1>10. ASSUME NEW p \in Opener,
              \/ \E l \in Letter : StoresMail(p, l) \/ DeletesMail(p, l) \/ UpdatesMail(p, l)
              \/ \E d \in Known : AddsContact(p, d)
              \/ \E known \in SUBSET Known : Backfills(p, known)
       PROVE  UNCHANGED <<schema, scratch, half, clash, opening, writer>>
  BY <1>10 DEF StoresMail, DeletesMail, UpdatesMail, AddsContact, Backfills
<1> QED
  BY <1>1, <1>2, <1>3, <1>4, <1>5, <1>6, <1>7, <1>8, <1>9, <1>10, <1>11 DEF DatabaseNext, OpenerStep

\* The rows: a contact is renamed by none but its own migration and backfill.
LEMMA RowsStay ==
  ASSUME DatabaseInv, [DatabaseNext]_databaseVars
  PROVE  RowTypes' /\ RowsInv' /\ ContactsSurvive'
<1>0. /\ contacts \subseteq Contacts /\ owned \subseteq Keyed /\ RowsInv /\ ContactsSurvive
      /\ \A p \in Opener : opening[p] = "open" => schema = "identity"
  BY DEF DatabaseInv, RowTypes, PhaseInv
<1>1. ASSUME UNCHANGED <<schema, contacts, owned>> PROVE RowTypes' /\ RowsInv' /\ ContactsSurvive'
  BY <1>0, <1>1 DEF RowTypes, RowsInv, ContactsSurvive
<1>2. CASE UNCHANGED databaseVars
  BY <1>1, <1>2 DEF databaseVars
<1>3. ASSUME NEW p \in Opener,
             \/ LooksAtContacts(p) \/ CreatesScratch(p) \/ CopiesRows(p) \/ CreatesIndex(p) \/ Dies(p) \/ Leaves(p)
             \/ \E l \in Letter : StoresMail(p, l) \/ DeletesMail(p, l) \/ UpdatesMail(p, l)
      PROVE  UNCHANGED <<schema, contacts, owned>>
  BY <1>3 DEF LooksAtContacts, CreatesScratch, CopiesRows, CreatesIndex, Dies, Leaves, StoresMail, DeletesMail,
              UpdatesMail
<1>4. ASSUME NEW p \in Opener, CreatesTables(p) PROVE RowTypes' /\ RowsInv' /\ ContactsSurvive'
  <2>1. schema' = (IF schema = "none" THEN "identity" ELSE schema) /\ UNCHANGED <<contacts, owned>>
    BY <1>4 DEF CreatesTables
  <2> QED
    BY <1>0, <2>1 DEF RowTypes, RowsInv, ContactsSurvive
<1>5. \A c \in Contacts : /\ [c EXCEPT !.backfill = TRUE] \in Contacts /\ [c EXCEPT !.backfill = FALSE] \in Contacts
                          /\ [c EXCEPT !.backfill = TRUE].name = c.name /\ [c EXCEPT !.backfill = FALSE].name = c.name
                          /\ [c EXCEPT !.backfill = TRUE].key = c.key /\ [c EXCEPT !.backfill = FALSE].key = c.key
                          /\ ~[c EXCEPT !.backfill = FALSE].backfill
  BY DEF Contacts
<1>6. ASSUME NEW p \in Opener, Commits(p) PROVE RowTypes' /\ RowsInv' /\ ContactsSurvive'
  <2>1. /\ schema = "destination" /\ schema' = "identity" /\ UNCHANGED owned
        /\ contacts' = {[c EXCEPT !.backfill = TRUE] : c \in contacts}
    BY <1>6 DEF Commits, DatabaseInv, PhaseInv
  <2>2. \A c \in contacts : c \in Contacts /\ c.key \in Known
    BY <1>0, <2>1 DEF RowsInv
  <2>3. \A c \in contacts' : \E e \in contacts : c = [e EXCEPT !.backfill = TRUE] /\ c.name = e.name /\ c.key = e.key
                                               /\ c \in Contacts
    BY <1>5, <2>1, <2>2
  <2>4. \A e \in contacts : \E c \in contacts' : c.name = e.name
    BY <1>5, <2>1, <2>2
  <2>5. {c.name : c \in contacts'} = {c.name : c \in contacts}
    BY <2>3, <2>4
  <2>6. ASSUME NEW x \in contacts', NEW y \in contacts', x.key = y.key PROVE x = y
    <3>1. PICK c \in contacts : x = [c EXCEPT !.backfill = TRUE] /\ x.key = c.key
      BY <2>3
    <3>2. PICK e \in contacts : y = [e EXCEPT !.backfill = TRUE] /\ y.key = e.key
      BY <2>3
    <3>3. c = e
      BY <1>0, <2>6, <3>1, <3>2 DEF ContactsSurvive
    <3> QED
      BY <3>1, <3>2, <3>3
  <2>7. \A c \in contacts' : c.key \in Known /\ c \in Contacts
    BY <2>2, <2>3
  <2> QED
    BY <1>0, <2>1, <2>5, <2>6, <2>7 DEF RowTypes, RowsInv, ContactsSurvive
<1>7. ASSUME NEW p \in Opener, NEW d \in Known, AddsContact(p, d) PROVE RowTypes' /\ RowsInv' /\ ContactsSurvive'
  <2> DEFINE row == [name |-> IdentityOf[d], key |-> IdentityOf[d], backfill |-> FALSE]
  <2>1. /\ schema = "identity" /\ UNCHANGED schema
        /\ \A c \in contacts : c.key # IdentityOf[d]
        /\ contacts' = contacts \cup {row} /\ owned' = owned \cup {IdentityOf[d]}
    BY <1>0, <1>7 DEF AddsContact
  <2>2. row \in Contacts /\ row.name = IdentityOf[d] /\ row.key = IdentityOf[d] /\ ~row.backfill /\ IdentityOf[d] \in Keyed
    BY DEF Contacts, Keyed
  <2> HIDE DEF row
  <2>3. {c.name : c \in contacts'} = owned'
    BY <1>0, <2>1, <2>2 DEF ContactsSurvive
  <2> QED
    BY <1>0, <2>1, <2>2, <2>3 DEF RowTypes, RowsInv, ContactsSurvive
<1>8. ASSUME NEW p \in Opener, NEW known \in SUBSET Known, Backfills(p, known)
      PROVE  RowTypes' /\ RowsInv' /\ ContactsSurvive'
  <2> DEFINE done == {c \in contacts : c.backfill /\ c.key \in known}
             Named(c) == [c EXCEPT !.backfill = FALSE, !.key = IdentityOf[@]]
             Left(c) == [c EXCEPT !.backfill = FALSE]
  <2>1. schema = "identity" /\ UNCHANGED <<schema, owned>>
    BY <1>0, <1>8 DEF Backfills
  <2>2. PICK first \in SUBSET {c \in done : \A e \in contacts : e.key # IdentityOf[c.key]} :
           /\ \A c, e \in first : IdentityOf[c.key] = IdentityOf[e.key] => c = e
           /\ contacts' = (contacts \ done) \cup {Left(c) : c \in done \ first} \cup {Named(c) : c \in first}
    BY <1>8, Zenon DEF Backfills
  <2>3. /\ \A c \in done : c \in contacts /\ c \in Contacts /\ c.key \in Known
        /\ \A c \in first : c \in done /\ \A e \in contacts : e.key # IdentityOf[c.key]
    BY <1>0, <2>2
  <2>4. \A c \in first : /\ Named(c) \in Contacts /\ Named(c).name = c.name /\ Named(c).key = IdentityOf[c.key]
                        /\ ~Named(c).backfill
    <3>1. \A c \in first : c \in Contacts /\ IdentityOf[c.key] \in Keyed
      BY <2>3 DEF Keyed
    <3> QED
      BY <3>1 DEF Contacts
  <2>5. \A c \in done \ first : Left(c) \in Contacts /\ Left(c).name = c.name /\ Left(c).key = c.key /\ ~Left(c).backfill
    BY <1>5, <2>3
  <2> HIDE DEF Named, Left, done
  <2>6. \A x \in contacts' :
           \/ x \in contacts \ done
           \/ \E c \in done \ first : x = Left(c) /\ x.key = c.key
           \/ \E c \in first : x = Named(c) /\ x.key = IdentityOf[c.key]
    BY <2>2, <2>4, <2>5
  <2>7. \A x \in contacts' : \E c \in contacts : x.name = c.name /\ x \in Contacts /\ (x.backfill => x = c)
    BY <1>0, <2>2, <2>3, <2>4, <2>5
  <2>8. \A c \in contacts : \E x \in contacts' : x.name = c.name
    BY <1>0, <2>2, <2>3, <2>4, <2>5
  <2>9. {c.name : c \in contacts'} = {c.name : c \in contacts}
    BY <2>7, <2>8
  <2>10. ASSUME NEW x \in contacts', NEW y \in contacts', x.key = y.key PROVE x = y
    <3>1. \A c, e \in contacts : c.key = e.key => c = e
      BY <1>0 DEF ContactsSurvive
    <3>2. CASE \E c \in first : x = Named(c) /\ x.key = IdentityOf[c.key]
      BY <2>2, <2>3, <2>6, <2>10, <3>2
    <3>3. CASE \E c \in first : y = Named(c) /\ y.key = IdentityOf[c.key]
      BY <2>2, <2>3, <2>6, <2>10, <3>3
    <3>4. CASE /\ x \in contacts \ done \/ \E c \in done \ first : x = Left(c) /\ x.key = c.key
               /\ y \in contacts \ done \/ \E c \in done \ first : y = Left(c) /\ y.key = c.key
      BY <2>3, <2>10, <3>1, <3>4
    <3> QED
      BY <2>6, <3>2, <3>3, <3>4
  <2>11. /\ \A x \in contacts' : x \in Contacts
         /\ \A x \in contacts' : x.backfill => x \in contacts
    BY <2>7
  <2> QED
    BY <1>0, <2>1, <2>9, <2>10, <2>11 DEF RowTypes, RowsInv, ContactsSurvive
<1> QED
  BY <1>1, <1>2, <1>3, <1>4, <1>6, <1>7, <1>8 DEF DatabaseNext, OpenerStep

LEMMA MailsStay ==
  ASSUME DatabaseInv, [DatabaseNext]_databaseVars
  PROVE  MailTypes' /\ DeathTypes' /\ SearchFindsStored'
<1>0. MailTypes /\ DeathTypes /\ SearchFindsStored /\ MaxCrashes \in Nat
  BY OpenersAssumption DEF DatabaseInv
<1>1. CASE UNCHANGED <<mails, indexed, early, triggers, died>>
  BY <1>0, <1>1 DEF MailTypes, DeathTypes, SearchFindsStored
<1>2. CASE UNCHANGED databaseVars
  BY <1>1, <1>2 DEF databaseVars
<1>3. ASSUME NEW p \in Opener, NEW l \in Letter, StoresMail(p, l) \/ DeletesMail(p, l) \/ UpdatesMail(p, l)
      PROVE  MailTypes' /\ DeathTypes' /\ SearchFindsStored'
  <2>1. UNCHANGED <<died, triggers>>
    BY <1>3 DEF StoresMail, DeletesMail, UpdatesMail
  <2>2. \/ mails' = mails \cup {l} /\ indexed' = indexed \cup {l} /\ UNCHANGED early
        \/ mails' = mails \ {l} /\ indexed' = indexed \ {l} /\ early' = early \ {l}
        \/ l \in mails /\ indexed' = indexed \cup {l} /\ UNCHANGED <<mails, early>>
    BY <1>3 DEF StoresMail, DeletesMail, UpdatesMail
  <2> QED
    BY <1>0, <2>1, <2>2 DEF MailTypes, DeathTypes, SearchFindsStored
<1>4. ASSUME NEW p \in Opener,
             \/ CreatesTables(p) \/ LooksAtContacts(p) \/ CreatesScratch(p) \/ CopiesRows(p) \/ Commits(p) \/ Leaves(p)
             \/ \E d \in Known : AddsContact(p, d)
             \/ \E known \in SUBSET Known : Backfills(p, known)
      PROVE  UNCHANGED <<mails, indexed, early, triggers, died>>
  BY <1>4 DEF CreatesTables, LooksAtContacts, CreatesScratch, CopiesRows, Commits, Leaves, AddsContact, Backfills
<1>5. ASSUME NEW p \in Opener, CreatesIndex(p) PROVE MailTypes' /\ DeathTypes' /\ SearchFindsStored'
  BY <1>0, <1>5 DEF CreatesIndex, MailTypes, DeathTypes, SearchFindsStored
<1>6. ASSUME NEW p \in Opener, Dies(p) PROVE MailTypes' /\ DeathTypes' /\ SearchFindsStored'
  <2>1. UNCHANGED <<mails, indexed, early, triggers>> /\ died < MaxCrashes /\ died' = died + 1
    BY <1>6 DEF Dies
  <2>2. DeathTypes'
    BY <1>0, <2>1 DEF DeathTypes
  <2> QED
    BY <1>0, <2>1, <2>2 DEF MailTypes, SearchFindsStored
<1> QED
  BY <1>1, <1>2, <1>3, <1>4, <1>5, <1>6 DEF DatabaseNext, OpenerStep

LEMMA DatabaseInvariant == DatabaseSpec => []DatabaseInv
<1>1. DatabaseInv /\ [DatabaseNext]_databaseVars => DatabaseInv'
  BY PhasesStay, RowsStay, MailsStay DEF DatabaseInv
<1> QED
  BY <1>1, DatabaseStarts, PTL DEF DatabaseSpec

LEMMA DatabaseShows ==
  DatabaseInv => DatabaseTypeOK /\ ContactsSurvive /\ OpeningFailsAfterDeath /\ SearchFindsStored
<1> SUFFICES ASSUME DatabaseInv
             PROVE  DatabaseTypeOK /\ ContactsSurvive /\ OpeningFailsAfterDeath /\ SearchFindsStored
  OBVIOUS
<1>1. DatabaseTypeOK
  BY DEF DatabaseInv, DatabaseTypes, RowTypes, MailTypes, DeathTypes, Phases, DatabaseTypeOK
<1>2. OpeningFailsAfterDeath
  BY DEF DatabaseInv, MigrationInv, OpeningFailsAfterDeath, Migrating
<1> QED
  BY <1>1, <1>2 DEF DatabaseInv

\* No contact is lost when the database is brought up to date, whichever process dies on the
\* way; opening it fails only after a death in the middle of that, or while two do it at once;
\* and what is stored is found (models/messages.py): for any contacts, processes, deaths and
\* messages.
THEOREM ContactsAreKept == DatabaseSpec => [](ContactsSurvive /\ OpeningFailsAfterDeath /\ SearchFindsStored)
  BY DatabaseInvariant, DatabaseShows, PTL

-----------------------------------------------------------------------------
(* Messages that arrive and are sent.                                       *)

Arrived == [at : {"away", "calling", "handling", "ending", "stored", "dropped", "unrouted", "lost"},
            found : Seq(Listener), called : Seq(Listener), disturbed : BOOLEAN]
Sent == [at : {"away", "refused", "handed", "sent", "unrecorded", "lost"},
         to : Address \cup {NoAddress}, found : Owner \cup {Nowhere}]

DispatchTypes ==
    /\ protocols \subseteq {"chat", "styrene"} /\ handlers \in Seq(Listener)
    /\ inbound \in [Incoming -> Arrived] /\ outbound \in [Sending -> Sent]
    /\ router \subseteq Sending /\ records \subseteq Row
    /\ recalled \subseteq Mailbox /\ mapped \subseteq Mailbox
    /\ registrations \in 0..MaxRegistrations /\ dbErrors \in 0..MaxDatabaseErrors /\ ends \in 0..MaxEnds

Heads(s, t) == Len(s) <= Len(t) /\ \A i \in 1..Len(s) : s[i] = t[i]

\* While its handlers are called, those found and those called are the first of the list.
CallsInOrder ==
    \A l \in Incoming :
        /\ inbound[l].at \in {"away", "ending"} => inbound[l].found = <<>> /\ inbound[l].called = <<>>
        /\ ~inbound[l].disturbed =>
              /\ inbound[l].at \in {"calling", "handling"} =>
                    Heads(inbound[l].found, handlers) /\ Heads(inbound[l].called, handlers)
              /\ inbound[l].at \in {"stored", "lost"} => Heads(inbound[l].found, inbound[l].called)

\* What has not been handed over is not with the router, and what has been goes to the owner.
GoesRight ==
    \A o \in Sending :
        /\ o \in router => outbound[o].found = outbound[o].to.of
        /\ outbound[o].at \in {"away", "refused"} => o \notin router

DispatchInv == DispatchTypes /\ CallsInOrder /\ RecordsAreTrue /\ GoesRight

LEMMA HeadsIsPrefix ==
  ASSUME NEW S, NEW s \in Seq(S), NEW t \in Seq(S), Heads(s, t)
  PROVE  IsPrefix(s, t)
<1>1. Len(s) \in Nat /\ Len(t) \in Nat /\ Len(s) <= Len(t)
  BY DEF Heads
<1>2. SubSeq(s, 1, Len(s)) = [i \in 1..Len(s) |-> s[i]] /\ SubSeq(t, 1, Len(s)) = [i \in 1..Len(s) |-> t[i]]
  BY <1>1
<1>3. [i \in 1..Len(s) |-> s[i]] = [i \in 1..Len(s) |-> t[i]]
  BY DEF Heads
<1> QED
  BY <1>1, <1>2, <1>3 DEF IsPrefix

LEMMA DispatchStarts == ASSUME DispatchInit PROVE DispatchInv
<1>1. /\ inbound = [l \in Incoming |-> Waiting] /\ outbound = [o \in Sending |-> Unsent]
      /\ router = {} /\ records = {} /\ recalled = {} /\ mapped = {} /\ protocols = {} /\ handlers = <<>>
      /\ registrations = 0 /\ dbErrors = 0 /\ ends = 0
  BY DEF DispatchInit
<1>2. /\ Waiting \in Arrived /\ Waiting.at = "away" /\ Waiting.found = <<>> /\ Waiting.called = <<>>
      /\ Unsent \in Sent /\ Unsent.at = "away"
  BY DEF Waiting, Unsent, Arrived, Sent
<1>3. DispatchTypes
  BY <1>1, <1>2, DispatchAssumption DEF DispatchTypes
<1>4. CallsInOrder
  BY <1>1, <1>2 DEF CallsInOrder
<1>5. RecordsAreTrue
  BY <1>1, <1>2 DEF RecordsAreTrue
<1>6. GoesRight
  BY <1>1, <1>2 DEF GoesRight
<1> QED
  BY <1>3, <1>4, <1>5, <1>6 DEF DispatchInv

\* Nothing of the messages changes: the rest may.
LEMMA MessagesAsTheyWere ==
  ASSUME DispatchInv, DispatchTypes', inbound' = inbound, outbound' = outbound, router' = router,
         records' = records, dbErrors' = dbErrors, ends' = ends,
         \A s \in Seq(Listener) : Heads(s, handlers) => Heads(s, handlers')
  PROVE  DispatchInv'
<1>1. CallsInOrder'
  BY DEF DispatchInv, DispatchTypes, CallsInOrder, Arrived
<1>2. RecordsAreTrue'
  BY DEF DispatchInv, RecordsAreTrue
<1>3. GoesRight'
  BY DEF DispatchInv, GoesRight
<1> QED
  BY <1>1, <1>2, <1>3 DEF DispatchInv

\* A step of the task of a message that arrives, without its row.
LEMMA TaskProceeds ==
  ASSUME DispatchInv, NEW l \in Incoming, NEW r \in Arrived, inbound' = [inbound EXCEPT ![l] = r],
         UNCHANGED <<protocols, handlers, outbound, router, records, recalled, mapped, registrations, dbErrors, ends>>,
         inbound[l].at # "stored", r.at # "stored", r.at # "lost", r.disturbed = inbound[l].disturbed,
         r.at \in {"away", "ending"} => r.found = <<>> /\ r.called = <<>>,
         r.at \in {"calling", "handling"} /\ ~r.disturbed => Heads(r.found, handlers) /\ Heads(r.called, handlers)
  PROVE  DispatchInv'
<1>1. DispatchTypes /\ CallsInOrder /\ RecordsAreTrue /\ GoesRight
  BY DEF DispatchInv
<1>2. inbound' \in [Incoming -> Arrived] /\ inbound'[l] = r /\ \A m \in Incoming : m # l => inbound'[m] = inbound[m]
  BY <1>1 DEF DispatchTypes
<1>3. DispatchTypes'
  BY <1>1, <1>2 DEF DispatchTypes
<1>4. CallsInOrder'
  BY <1>1, <1>2 DEF CallsInOrder
<1>5. RecordsAreTrue'
  <2>1. \A m \in Incoming : (inbound'[m].at = "stored") <=> (inbound[m].at = "stored")
    BY <1>2
  <2>2. (\E m \in Incoming : inbound'[m].at = "lost") => \E m \in Incoming : inbound[m].at = "lost"
    BY <1>2
  <2> QED
    BY <1>1, <2>1, <2>2 DEF RecordsAreTrue
<1>6. GoesRight'
  BY <1>1 DEF GoesRight
<1> QED
  BY <1>3, <1>4, <1>5, <1>6 DEF DispatchInv

\* What a list begins with it begins with when another is appended.
LEMMA AppendKeepsHeads ==
  ASSUME NEW t \in Seq(Listener), NEW h \in Listener, NEW s \in Seq(Listener), Heads(s, t)
  PROVE  Heads(s, Append(t, h))
<1>1. Len(Append(t, h)) = Len(t) + 1 /\ \A i \in 1..Len(t) : Append(t, h)[i] = t[i]
  OBVIOUS
<1>2. Len(s) \in Nat /\ Len(t) \in Nat
  OBVIOUS
<1> QED
  BY <1>1, <1>2 DEF Heads

LEMMA RegisterKeeps == ASSUME DispatchInv, NEW h \in Listener, RegisterHandler(h) PROVE DispatchInv'
<1>1. /\ registrations < MaxRegistrations /\ registrations' = registrations + 1
      /\ handlers' = Append(handlers, h)
      /\ UNCHANGED <<protocols, inbound, outbound, router, records, recalled, mapped, dbErrors, ends>>
  BY DEF RegisterHandler
<1>2. handlers \in Seq(Listener)
  BY DEF DispatchInv, DispatchTypes
<1>3. handlers' \in Seq(Listener) /\ \A s \in Seq(Listener) : Heads(s, handlers) => Heads(s, handlers')
  BY <1>1, <1>2, AppendKeepsHeads
<1>4. registrations' \in 0..MaxRegistrations
  BY <1>1, DispatchAssumption DEF DispatchInv, DispatchTypes
<1>5. DispatchTypes'
  BY <1>1, <1>3, <1>4 DEF DispatchInv, DispatchTypes
<1> QED
  BY <1>1, <1>3, <1>5, MessagesAsTheyWere

LEMMA ProtocolKeeps == ASSUME DispatchInv, NEW p \in {"chat", "styrene"}, RegisterProtocol(p) PROVE DispatchInv'
<1>1. /\ registrations < MaxRegistrations /\ registrations' = registrations + 1
      /\ protocols' = protocols \cup {p} \/ protocols' = protocols \ {p}
      /\ UNCHANGED <<handlers, inbound, outbound, router, records, recalled, mapped, dbErrors, ends>>
  BY DEF RegisterProtocol
<1>2. registrations' \in 0..MaxRegistrations
  BY <1>1, DispatchAssumption DEF DispatchInv, DispatchTypes
<1>3. protocols' \subseteq {"chat", "styrene"}
  BY <1>1 DEF DispatchInv, DispatchTypes
<1>4. DispatchTypes'
  BY <1>1, <1>2, <1>3 DEF DispatchInv, DispatchTypes
<1> QED
  BY <1>1, <1>4, MessagesAsTheyWere

\* A handler that is taken out disturbs those messages whose handlers are being called.
LEMMA UnregisterKeeps == ASSUME DispatchInv, NEW h \in Listener, UnregisterHandler(h) PROVE DispatchInv'
<1>1. /\ registrations < MaxRegistrations /\ registrations' = registrations + 1
      /\ inbound' = [l \in Incoming |-> [inbound[l] EXCEPT !.disturbed = @ \/ Under(l)]]
      /\ UNCHANGED <<protocols, outbound, router, records, recalled, mapped, dbErrors, ends>>
  BY DEF UnregisterHandler
<1>2. PICK i \in DOMAIN handlers : handlers' = RemoveAt(handlers, i)
  BY DEF UnregisterHandler
<1>3. DispatchTypes /\ CallsInOrder /\ RecordsAreTrue /\ GoesRight
  BY DEF DispatchInv
<1>4. handlers' \in Seq(Listener)
  <2>1. handlers \in Seq(Listener) /\ i \in 1..Len(handlers) /\ Len(handlers) \in Nat
    BY <1>3 DEF DispatchTypes
  <2>2. SubSeq(handlers, 1, i - 1) \in Seq(Listener) /\ SubSeq(handlers, i + 1, Len(handlers)) \in Seq(Listener)
    BY <2>1
  <2> QED
    BY <1>2, <2>2 DEF RemoveAt
<1>5. registrations' \in 0..MaxRegistrations
  BY <1>1, <1>3, DispatchAssumption DEF DispatchTypes
<1>6. ASSUME NEW l \in Incoming
      PROVE  /\ inbound'[l] \in Arrived /\ inbound'[l].at = inbound[l].at
             /\ inbound'[l].found = inbound[l].found /\ inbound'[l].called = inbound[l].called
             /\ inbound[l].at \in {"calling", "handling"} => inbound'[l].disturbed
             /\ inbound[l].disturbed => inbound'[l].disturbed
  BY <1>1, <1>3, Zenon DEF DispatchTypes, Under, Arrived
<1>7. inbound' \in [Incoming -> Arrived]
  BY <1>1, <1>6
<1>8. DispatchTypes'
  BY <1>1, <1>3, <1>4, <1>5, <1>7 DEF DispatchTypes
<1>9. CallsInOrder'
  BY <1>3, <1>6 DEF CallsInOrder
<1>10. RecordsAreTrue'
  <2>1. \A m \in Incoming : inbound'[m].at = inbound[m].at
    BY <1>6
  <2>2. UNCHANGED <<outbound, router, records, dbErrors, ends>>
    BY <1>1
  <2> QED
    BY <1>3, <2>1, <2>2 DEF RecordsAreTrue
<1>11. GoesRight'
  BY <1>1, <1>3 DEF GoesRight
<1> QED
  BY <1>8, <1>9, <1>10, <1>11 DEF DispatchInv

LEMMA HandleKeeps == ASSUME DispatchInv, NEW l \in Incoming, HandleMessage(l) PROVE DispatchInv'
<1>1. /\ inbound[l].at = "away"
      /\ UNCHANGED <<protocols, handlers, outbound, router, records, recalled, mapped, registrations, dbErrors, ends>>
      /\ \/ inbound' = [inbound EXCEPT ![l].at = "dropped"]
         \/ inbound' = [inbound EXCEPT ![l] = [@ EXCEPT !.at = "calling", !.found = handlers]]
  BY DEF HandleMessage, Puts
<1>2. inbound[l] \in Arrived /\ inbound[l].found = <<>> /\ inbound[l].called = <<>> /\ handlers \in Seq(Listener)
      /\ inbound \in [Incoming -> Arrived]
  BY <1>1 DEF DispatchInv, DispatchTypes, CallsInOrder
<1>3. CASE inbound' = [inbound EXCEPT ![l].at = "dropped"]
  <2> DEFINE r == [inbound[l] EXCEPT !.at = "dropped"]
  <2>1. r \in Arrived /\ r.at = "dropped" /\ r.disturbed = inbound[l].disturbed
    BY <1>2 DEF Arrived
  <2>2. inbound' = [inbound EXCEPT ![l] = r]
    BY <1>3
  <2> HIDE DEF r
  <2> QED
    BY <1>1, <2>1, <2>2, TaskProceeds
<1>4. CASE inbound' = [inbound EXCEPT ![l] = [@ EXCEPT !.at = "calling", !.found = handlers]]
  <2> DEFINE r == [inbound[l] EXCEPT !.at = "calling", !.found = handlers]
  <2>1. r \in Arrived /\ r.at = "calling" /\ r.disturbed = inbound[l].disturbed
        /\ r.found = handlers /\ r.called = <<>>
    BY <1>2 DEF Arrived
  <2>2. inbound' = [inbound EXCEPT ![l] = r]
    BY <1>4
  <2>3. Heads(handlers, handlers) /\ Heads(<<>>, handlers)
    BY <1>2 DEF Heads
  <2> HIDE DEF r
  <2> QED
    BY <1>1, <2>1, <2>2, <2>3, TaskProceeds
<1> QED
  BY <1>1, <1>3, <1>4

LEMMA RouteKeeps == ASSUME DispatchInv, NEW l \in Incoming, RouteMessage(l) PROVE DispatchInv'
<1>1. /\ inbound[l].at = "away"
      /\ UNCHANGED <<protocols, handlers, outbound, router, records, recalled, mapped, registrations, dbErrors, ends>>
      /\ \E turn \in {"unrouted", "ending"} : inbound' = [inbound EXCEPT ![l].at = turn]
  BY DEF RouteMessage, Puts
<1>2. PICK turn \in {"unrouted", "ending"} : inbound' = [inbound EXCEPT ![l].at = turn]
  BY <1>1
<1>3. inbound[l] \in Arrived /\ inbound[l].found = <<>> /\ inbound[l].called = <<>>
  BY <1>1 DEF DispatchInv, DispatchTypes, CallsInOrder
<1> DEFINE r == [inbound[l] EXCEPT !.at = turn]
<1>4. r \in Arrived /\ r.at = turn /\ r.disturbed = inbound[l].disturbed /\ r.found = <<>> /\ r.called = <<>>
  BY <1>3 DEF Arrived
<1>5. inbound' = [inbound EXCEPT ![l] = r]
  BY <1>2
<1> HIDE DEF r
<1> QED
  BY <1>1, <1>4, <1>5, TaskProceeds

LEMMA NextInLine ==
  ASSUME NEW t \in Seq(Listener), NEW s \in Seq(Listener), Heads(s, t), Len(s) < Len(t)
  PROVE  /\ Append(s, t[Len(s) + 1]) \in Seq(Listener) /\ Heads(Append(s, t[Len(s) + 1]), t)
<1>1. Len(s) \in Nat /\ Len(t) \in Nat /\ Len(s) + 1 \in 1..Len(t)
  OBVIOUS
<1>2. t[Len(s) + 1] \in Listener
  BY <1>1
<1>3. LET q == Append(s, t[Len(s) + 1]) IN
      q \in Seq(Listener) /\ Len(q) = Len(s) + 1 /\ \A i \in 1..Len(q) : q[i] = IF i = Len(s) + 1 THEN t[Len(s) + 1] ELSE s[i]
  BY <1>1, <1>2
<1>4. \A i \in 1..(Len(s) + 1) : i # Len(s) + 1 => i \in 1..Len(s)
  BY <1>1
<1> QED
  BY <1>1, <1>3, <1>4 DEF Heads

LEMMA DispatchMessageKeeps == ASSUME DispatchInv, NEW l \in Incoming, DispatchMessage(l) PROVE DispatchInv'
<1> DEFINE q == Append(inbound[l].called, handlers[Len(inbound[l].called) + 1])
           r == [inbound[l] EXCEPT !.at = "handling", !.called = q]
<1>1. /\ inbound[l].at = "calling" /\ Len(inbound[l].called) < Len(handlers)
      /\ inbound' = [inbound EXCEPT ![l] = r]
      /\ UNCHANGED <<protocols, handlers, outbound, router, records, recalled, mapped, registrations, dbErrors, ends>>
  <2>1. inbound' = [inbound EXCEPT ![l].at = "handling", ![l].called = Append(@, handlers[Len(@) + 1])]
    BY DEF DispatchMessage
  <2>2. inbound' = [inbound EXCEPT ![l] = r]
    BY <2>1 DEF DispatchInv, DispatchTypes, Arrived
  <2> QED
    BY <2>2 DEF DispatchMessage
<1>2. inbound[l] \in Arrived /\ inbound[l].called \in Seq(Listener) /\ handlers \in Seq(Listener)
  BY DEF DispatchInv, DispatchTypes, Arrived
<1>3. ~inbound[l].disturbed => Heads(inbound[l].found, handlers) /\ Heads(inbound[l].called, handlers)
  BY <1>1 DEF DispatchInv, CallsInOrder
<1>4. q \in Seq(Listener)
  <2>1. Len(inbound[l].called) + 1 \in 1..Len(handlers)
    BY <1>1, <1>2
  <2>2. handlers[Len(inbound[l].called) + 1] \in Listener
    BY <1>2, <2>1
  <2> QED
    BY <1>2, <2>2
<1>5. ~inbound[l].disturbed => Heads(q, handlers)
  BY <1>1, <1>2, <1>3, NextInLine
<1> HIDE DEF q
<1>6. r \in Arrived /\ r.at = "handling" /\ r.disturbed = inbound[l].disturbed /\ r.found = inbound[l].found /\ r.called = q
  BY <1>2, <1>4 DEF Arrived
<1> HIDE DEF r
<1> QED
  BY <1>1, <1>3, <1>5, <1>6, TaskProceeds

LEMMA ReturnsKeeps == ASSUME DispatchInv, NEW l \in Incoming, HandlerReturns(l) PROVE DispatchInv'
<1> DEFINE r == [inbound[l] EXCEPT !.at = "calling"]
<1>1. /\ inbound[l].at = "handling" /\ inbound' = [inbound EXCEPT ![l] = r]
      /\ UNCHANGED <<protocols, handlers, outbound, router, records, recalled, mapped, registrations, dbErrors, ends>>
  BY DEF HandlerReturns, Puts
<1>2. inbound[l] \in Arrived
  BY DEF DispatchInv, DispatchTypes
<1>3. ~inbound[l].disturbed => Heads(inbound[l].found, handlers) /\ Heads(inbound[l].called, handlers)
  BY <1>1 DEF DispatchInv, CallsInOrder
<1>4. r \in Arrived /\ r.at = "calling" /\ r.disturbed = inbound[l].disturbed
      /\ r.found = inbound[l].found /\ r.called = inbound[l].called
  BY <1>2 DEF Arrived
<1> HIDE DEF r
<1> QED
  BY <1>1, <1>3, <1>4, TaskProceeds

\* The row of a message that has been handled, or the error instead.
LEMMA PersistKeeps == ASSUME DispatchInv, NEW l \in Incoming, PersistMessage(l) PROVE DispatchInv'
<1> DEFINE mark == IF inbound[l].at = "ending" THEN "pending" ELSE "received"
           row == [letter |-> l, status |-> mark]
<1>1. /\ inbound[l].at = "ending" \/ (inbound[l].at = "calling" /\ Len(inbound[l].called) >= Len(handlers))
      /\ UNCHANGED <<protocols, handlers, outbound, router, recalled, mapped, registrations, ends>>
      /\ \/ /\ inbound' = [inbound EXCEPT ![l].at = "stored"] /\ dbErrors' = dbErrors
            /\ records' = records \cup {row}
         \/ /\ dbErrors < MaxDatabaseErrors /\ dbErrors' = dbErrors + 1 /\ records' = records
            /\ inbound' = [inbound EXCEPT ![l].at = "lost"]
  BY DEF PersistMessage, Puts
<1>2. DispatchTypes /\ CallsInOrder /\ RecordsAreTrue /\ GoesRight
  BY DEF DispatchInv
<1>3. inbound[l] \in Arrived /\ inbound \in [Incoming -> Arrived]
  BY <1>2 DEF DispatchTypes
<1>4. ~inbound[l].disturbed => Heads(inbound[l].found, inbound[l].called)
  <2>1. CASE inbound[l].at = "ending"
    BY <1>2, <2>1 DEF CallsInOrder, Heads
  <2>2. CASE inbound[l].at = "calling" /\ Len(inbound[l].called) >= Len(handlers)
    <3> SUFFICES ASSUME ~inbound[l].disturbed PROVE Heads(inbound[l].found, inbound[l].called)
      OBVIOUS
    <3>1. Heads(inbound[l].found, handlers) /\ Heads(inbound[l].called, handlers)
      BY <1>2, <2>2 DEF CallsInOrder
    <3>2. inbound[l].found \in Seq(Listener) /\ inbound[l].called \in Seq(Listener) /\ handlers \in Seq(Listener)
      BY <1>2, <1>3 DEF DispatchTypes, Arrived
    <3>3. Len(inbound[l].found) \in Nat /\ Len(inbound[l].called) \in Nat /\ Len(handlers) \in Nat
      BY <3>2
    <3> QED
      BY <2>2, <3>1, <3>3 DEF Heads
  <2> QED
    BY <1>1, <2>1, <2>2
<1>5. PICK turn \in {"stored", "lost"} :
         /\ inbound' = [inbound EXCEPT ![l].at = turn]
         /\ turn = "stored" => dbErrors' = dbErrors /\ records' = records \cup {row}
         /\ turn = "lost" => dbErrors < MaxDatabaseErrors /\ dbErrors' = dbErrors + 1 /\ records' = records
  BY <1>1, Zenon
<1>6. /\ inbound' \in [Incoming -> Arrived] /\ inbound'[l].at = turn /\ inbound'[l].found = inbound[l].found
      /\ inbound'[l].called = inbound[l].called /\ inbound'[l].disturbed = inbound[l].disturbed
      /\ \A m \in Incoming : m # l => inbound'[m] = inbound[m]
  BY <1>3, <1>5 DEF Arrived
<1>7. row \in Row /\ row.letter = l
  BY DEF Row
<1> HIDE DEF row
<1>8. dbErrors' \in 0..MaxDatabaseErrors /\ (turn = "lost" => dbErrors' > 0) /\ (dbErrors > 0 => dbErrors' > 0)
  BY <1>2, <1>5, DispatchAssumption DEF DispatchTypes
<1>9. DispatchTypes'
  BY <1>1, <1>2, <1>5, <1>6, <1>7, <1>8 DEF DispatchTypes
<1>10. CallsInOrder'
  BY <1>1, <1>2, <1>4, <1>6 DEF CallsInOrder
<1>11. RecordsAreTrue'
  <2>1. inbound[l].at \notin {"stored", "lost"}
    BY <1>1
  <2>2. \A m \in Incoming : (inbound'[m].at = "stored") <=> \E r \in records' : r.letter = m
    <3>1. \A m \in Incoming : (inbound[m].at = "stored") <=> \E r \in records : r.letter = m
      BY <1>2 DEF RecordsAreTrue
    <3> QED
      BY <1>5, <1>6, <1>7, <2>1, <3>1
  <2>3. \A o \in Sending : (\E r \in records' : r.letter = o) <=> (\E r \in records : r.letter = o)
    <3>1. \A o \in Sending : row.letter # o
      BY <1>7, DispatchAssumption
    <3> QED
      BY <1>5, <3>1
  <2>4. (\E m \in Incoming : inbound'[m].at = "lost") => turn = "lost" \/ \E m \in Incoming : inbound[m].at = "lost"
    BY <1>6
  <2> QED
    BY <1>1, <1>2, <1>8, <2>2, <2>3, <2>4 DEF RecordsAreTrue
<1>12. GoesRight'
  BY <1>1, <1>2 DEF GoesRight
<1> QED
  BY <1>9, <1>10, <1>11, <1>12 DEF DispatchInv

-----------------------------------------------------------------------------
(* Addresses.                                                              *)

\* What an address resolves to: its owner, if anything of that owner is recalled.
LEMMA ResolvesToOwner ==
  ASSUME recalled \subseteq Mailbox, mapped \subseteq Mailbox, NEW a \in Address
  PROVE  /\ ResolveIdentity(a) \in {a.of, Nowhere} /\ a.of \in Owner
         /\ a \in recalled \cup mapped \/ a.kind = "identity" =>
               (ResolveIdentity(a) # Nowhere <=> \E b \in recalled : b.of = a.of)
<1>1. a.of \in Owner /\ a.of # Nowhere
  BY DispatchAssumption DEF Address
<1>2. Recall(a) = (IF a \in recalled THEN a.of ELSE Nowhere)
      /\ RecallIdentity(a.of) = (IF \E b \in recalled : b.of = a.of THEN a.of ELSE Nowhere)
  BY DEF Recall, RecallIdentity
<1>3. a.kind = "identity" => a \notin recalled \cup mapped
  BY DEF Mailbox
<1>4. a \in recalled => ResolveIdentity(a) = a.of
  BY <1>1, <1>2 DEF ResolveIdentity
<1>5. a \notin recalled /\ a \in mapped => ResolveIdentity(a) = RecallIdentity(a.of)
  BY <1>1, <1>2, <1>3 DEF ResolveIdentity
<1>6. a \notin recalled \cup mapped => ResolveIdentity(a) = IF a.kind = "identity" THEN RecallIdentity(a.of) ELSE Nowhere
  BY <1>1, <1>2 DEF ResolveIdentity
<1> QED
  BY <1>1, <1>2, <1>4, <1>5, <1>6

\* A message that is sent, or refused: its task and the router.
LEMMA SendProceeds ==
  ASSUME DispatchInv, NEW o \in Sending, NEW r \in Sent, outbound' = [outbound EXCEPT ![o] = r],
         outbound[o].at = "away", r.at \in {"refused", "handed"},
         UNCHANGED <<protocols, handlers, inbound, records, recalled, mapped, registrations, dbErrors, ends>>,
         r.at = "refused" => router' = router,
         r.at = "handed" => router' = router \cup {o} /\ r.found = r.to.of
  PROVE  DispatchInv'
<1>1. DispatchTypes /\ CallsInOrder /\ RecordsAreTrue /\ GoesRight
  BY DEF DispatchInv
<1>2. outbound' \in [Sending -> Sent] /\ outbound'[o] = r /\ \A s \in Sending : s # o => outbound'[s] = outbound[s]
  BY <1>1 DEF DispatchTypes
<1>3. router' \subseteq Sending /\ router \subseteq router' /\ o \notin router
      /\ \A s \in Sending : s # o => (s \in router' <=> s \in router)
  BY <1>1 DEF DispatchTypes, GoesRight
<1>4. DispatchTypes'
  BY <1>1, <1>2, <1>3 DEF DispatchTypes
<1>5. CallsInOrder'
  BY <1>1 DEF CallsInOrder
<1>6. RecordsAreTrue'
  <2>1. \A s \in Sending : (outbound'[s].at = "sent") <=> (outbound[s].at = "sent")
    BY <1>2
  <2>2. \A s \in Sending : outbound'[s].at \in {"sent", "handed", "unrecorded"} => s \in router' \/ ends' > 0
    <3>1. \A s \in Sending : outbound[s].at \in {"sent", "handed", "unrecorded"} => s \in router \/ ends > 0
      BY <1>1 DEF RecordsAreTrue
    <3>2. r.at = "handed" => o \in router'
      BY <1>3
    <3> QED
      BY <1>2, <1>3, <3>1, <3>2
  <2>3. (\E s \in Sending : outbound'[s].at \in {"unrecorded", "lost"}) => \E s \in Sending : outbound[s].at \in {"unrecorded", "lost"}
    BY <1>2
  <2> QED
    BY <1>1, <2>1, <2>2, <2>3 DEF RecordsAreTrue
<1>7. GoesRight'
  <2>1. r.at = "refused" => o \notin router'
    BY <1>3
  <2>2. o \in router' => r.at = "handed"
    BY <2>1
  <2> QED
    BY <1>1, <1>2, <1>3, <2>1, <2>2 DEF GoesRight
<1> QED
  BY <1>4, <1>5, <1>6, <1>7 DEF DispatchInv

LEMMA SendTypedKeeps == ASSUME DispatchInv, NEW o \in Sending, NEW a \in Address, SendTypedMessage(o, a) PROVE DispatchInv'
<1> DEFINE i == ResolveIdentity(a)
           r == [at |-> IF i = Nowhere THEN "refused" ELSE "handed", to |-> a, found |-> i]
<1>1. /\ outbound[o].at = "away"
      /\ UNCHANGED <<protocols, handlers, inbound, records, recalled, mapped, registrations, dbErrors, ends>>
      /\ outbound' = [outbound EXCEPT ![o] = r] /\ router' = IF i = Nowhere THEN router ELSE router \cup {o}
  BY DEF SendTypedMessage
<1>2. i \in {a.of, Nowhere} /\ a.of \in Owner
  BY ResolvesToOwner DEF DispatchInv, DispatchTypes
<1> HIDE DEF i
<1>3. r \in Sent /\ r.at = (IF i = Nowhere THEN "refused" ELSE "handed") /\ r.to = a /\ r.found = i
  BY <1>2 DEF Sent
<1> HIDE DEF r
<1>4. r.at = "handed" => r.found = r.to.of
  BY <1>2, <1>3
<1>5. r.at = "refused" => i = Nowhere
  BY <1>3
<1> QED
  BY <1>1, <1>3, <1>4, <1>5, SendProceeds

LEMMA SendChatKeeps == ASSUME DispatchInv, NEW o \in Sending, NEW a \in Address, SendChat(o, a) PROVE DispatchInv'
<1> DEFINE r == [at |-> "refused", to |-> a, found |-> Nowhere]
<1>1. /\ outbound[o].at = "away" /\ outbound' = [outbound EXCEPT ![o] = r] /\ router' = router
      /\ UNCHANGED <<protocols, handlers, inbound, records, recalled, mapped, registrations, dbErrors, ends>>
  BY DEF SendChat
<1>2. r \in Sent /\ r.at = "refused"
  BY DEF Sent
<1> HIDE DEF r
<1> QED
  BY <1>1, <1>2, SendProceeds

\* The row of a message that has been handed over, or the error instead.
LEMMA PersistSentKeeps == ASSUME DispatchInv, NEW o \in Sending, PersistSent(o) PROVE DispatchInv'
<1> DEFINE row == [letter |-> o, status |-> "pending"]
<1>1. /\ outbound[o].at = "handed"
      /\ UNCHANGED <<protocols, handlers, inbound, router, recalled, mapped, registrations, ends>>
      /\ \/ /\ outbound' = [outbound EXCEPT ![o].at = "sent"] /\ dbErrors' = dbErrors
            /\ records' = records \cup {row}
         \/ /\ dbErrors < MaxDatabaseErrors /\ dbErrors' = dbErrors + 1 /\ records' = records
            /\ outbound' = [outbound EXCEPT ![o].at = "unrecorded"]
  BY DEF PersistSent
<1>2. DispatchTypes /\ CallsInOrder /\ RecordsAreTrue /\ GoesRight
  BY DEF DispatchInv
<1>3. PICK turn \in {"sent", "unrecorded"} :
         /\ outbound' = [outbound EXCEPT ![o].at = turn]
         /\ turn = "sent" => dbErrors' = dbErrors /\ records' = records \cup {row}
         /\ turn = "unrecorded" => dbErrors < MaxDatabaseErrors /\ dbErrors' = dbErrors + 1 /\ records' = records
  BY <1>1, Zenon
<1>4. /\ outbound' \in [Sending -> Sent] /\ outbound'[o].at = turn /\ outbound'[o].found = outbound[o].found
      /\ outbound'[o].to = outbound[o].to
      /\ \A s \in Sending : s # o => outbound'[s] = outbound[s]
  BY <1>2, <1>3 DEF DispatchTypes, Sent
<1>5. row \in Row /\ row.letter = o
  BY DEF Row
<1> HIDE DEF row
<1>6. dbErrors' \in 0..MaxDatabaseErrors /\ (turn = "unrecorded" => dbErrors' > 0) /\ (dbErrors > 0 => dbErrors' > 0)
  BY <1>2, <1>3, DispatchAssumption DEF DispatchTypes
<1>7. DispatchTypes'
  BY <1>1, <1>2, <1>3, <1>4, <1>5, <1>6 DEF DispatchTypes
<1>8. CallsInOrder'
  BY <1>1, <1>2 DEF CallsInOrder
<1>9. RecordsAreTrue'
  <2>1. \A s \in Sending : (\E r \in records' : r.letter = s) <=> outbound'[s].at = "sent"
    <3>1. \A s \in Sending : (\E r \in records : r.letter = s) <=> outbound[s].at = "sent"
      BY <1>2 DEF RecordsAreTrue
    <3> QED
      BY <1>1, <1>3, <1>4, <1>5, <3>1
  <2>2. \A l \in Incoming : (\E r \in records' : r.letter = l) <=> (\E r \in records : r.letter = l)
    <3>1. \A l \in Incoming : row.letter # l
      BY <1>5, DispatchAssumption
    <3> QED
      BY <1>3, <3>1
  <2>3. (\E s \in Sending : outbound'[s].at \in {"unrecorded", "lost"})
           => turn = "unrecorded" \/ \E s \in Sending : outbound[s].at \in {"unrecorded", "lost"}
    BY <1>4
  <2>4. \A s \in Sending : outbound'[s].at \in {"sent", "handed", "unrecorded"} => s \in router' \/ ends' > 0
    <3>1. \A s \in Sending : outbound[s].at \in {"sent", "handed", "unrecorded"} => s \in router \/ ends > 0
      BY <1>2 DEF RecordsAreTrue
    <3> QED
      BY <1>1, <1>4, <3>1
  <2> QED
    BY <1>1, <1>2, <1>6, <2>1, <2>2, <2>3, <2>4 DEF RecordsAreTrue
<1>10. GoesRight'
  BY <1>1, <1>2, <1>4 DEF GoesRight
<1> QED
  BY <1>7, <1>8, <1>9, <1>10 DEF DispatchInv

LEMMA HeardKeeps == ASSUME DispatchInv, NEW a \in Mailbox, AnnounceHeard(a) PROVE DispatchInv'
<1>1. /\ UNCHANGED <<protocols, handlers, inbound, outbound, router, records, registrations, dbErrors, ends>>
      /\ recalled' \subseteq recalled \cup {a} /\ mapped' \subseteq mapped \cup {a}
  BY DEF AnnounceHeard
<1>2. DispatchTypes'
  BY <1>1 DEF DispatchInv, DispatchTypes
<1> QED
  BY <1>1, <1>2, MessagesAsTheyWere

LEMMA EndKeeps == ASSUME DispatchInv, ProcessEnds PROVE DispatchInv'
<1>1. /\ ends < MaxEnds /\ ends' = ends + 1 /\ protocols' = {} /\ handlers' = <<>> /\ router' = {}
      /\ inbound' = [l \in Incoming |-> IF inbound[l].at \in {"calling", "handling", "ending"}
                                         THEN [inbound[l] EXCEPT !.at = "lost", !.disturbed = TRUE] ELSE inbound[l]]
      /\ outbound' = [o \in Sending |-> IF outbound[o].at = "handed" THEN [outbound[o] EXCEPT !.at = "lost"]
                                         ELSE outbound[o]]
      /\ UNCHANGED <<records, recalled, mapped, registrations, dbErrors>>
  BY DEF ProcessEnds
<1>2. DispatchTypes /\ CallsInOrder /\ RecordsAreTrue /\ GoesRight
  BY DEF DispatchInv
<1>3. ASSUME NEW l \in Incoming
      PROVE  /\ inbound'[l] \in Arrived
             /\ \/ inbound'[l] = inbound[l] /\ inbound[l].at \notin {"calling", "handling", "ending"}
                \/ inbound'[l].at = "lost" /\ inbound'[l].disturbed /\ inbound[l].at # "stored"
  BY <1>1, <1>2 DEF DispatchTypes, Arrived
<1>4. ASSUME NEW o \in Sending
      PROVE  /\ outbound'[o] \in Sent
             /\ \/ outbound'[o] = outbound[o] /\ outbound[o].at # "handed"
                \/ outbound'[o].at = "lost" /\ outbound[o].at = "handed"
  BY <1>1, <1>2 DEF DispatchTypes, Sent
<1>5. inbound' \in [Incoming -> Arrived] /\ outbound' \in [Sending -> Sent]
  BY <1>1, <1>3, <1>4
<1>6. ends' \in 0..MaxEnds /\ ends' > 0
  <2>1. ends < MaxEnds /\ ends' = ends + 1 /\ ends \in 0..MaxEnds /\ MaxEnds \in Nat
    BY <1>1, <1>2, DispatchAssumption, Zenon DEF DispatchTypes
  <2> QED
    BY <2>1
<1>7. DispatchTypes'
  <2>1. protocols' = {} /\ handlers' = <<>> /\ router' = {} /\ UNCHANGED <<records, recalled, mapped, registrations, dbErrors>>
    BY <1>1, Zenon
  <2>2. handlers' \in Seq(Listener)
    BY <2>1
  <2> QED
    BY <1>2, <1>5, <1>6, <2>1, <2>2 DEF DispatchTypes
<1>8. CallsInOrder'
  BY <1>2, <1>3 DEF CallsInOrder
<1>9. RecordsAreTrue'
  <2>1. \A l \in Incoming : (inbound'[l].at = "stored") <=> (inbound[l].at = "stored")
    BY <1>3
  <2>2. \A o \in Sending : (outbound'[o].at = "sent") <=> (outbound[o].at = "sent")
    BY <1>4
  <2> QED
    BY <1>1, <1>2, <1>6, <2>1, <2>2 DEF RecordsAreTrue
<1>10. GoesRight'
  BY <1>1 DEF GoesRight
<1> QED
  BY <1>7, <1>8, <1>9, <1>10 DEF DispatchInv

LEMMA DispatchStays == ASSUME DispatchInv, [DispatchNext]_dispatchVars PROVE DispatchInv'
<1>1. CASE UNCHANGED dispatchVars
  <2>1. UNCHANGED <<protocols, handlers, inbound, outbound, router, records, recalled, mapped, registrations,
                    dbErrors, ends>>
    BY <1>1 DEF dispatchVars
  <2>2. DispatchTypes'
    BY <2>1 DEF DispatchInv, DispatchTypes
  <2> QED
    BY <2>1, <2>2, MessagesAsTheyWere
<1>2. CASE ProcessEnds
  BY <1>2, EndKeeps
<1>3. CASE \E h \in Listener : RegisterHandler(h) \/ UnregisterHandler(h)
  BY <1>3, RegisterKeeps, UnregisterKeeps, Zenon
<1>4. CASE \E p \in {"chat", "styrene"} : RegisterProtocol(p)
  BY <1>4, ProtocolKeeps, Zenon
<1>5. CASE \E l \in Incoming :
             \/ HandleMessage(l) \/ RouteMessage(l) \/ DispatchMessage(l) \/ HandlerReturns(l) \/ PersistMessage(l)
  BY <1>5, HandleKeeps, RouteKeeps, DispatchMessageKeeps, ReturnsKeeps, PersistKeeps, Zenon
<1>6. CASE \E o \in Sending : PersistSent(o) \/ \E a \in Address : SendTypedMessage(o, a) \/ SendChat(o, a)
  BY <1>6, PersistSentKeeps, SendTypedKeeps, SendChatKeeps, Zenon
<1>7. CASE \E a \in Mailbox : AnnounceHeard(a)
  BY <1>7, HeardKeeps, Zenon
<1> QED
  BY <1>1, <1>2, <1>3, <1>4, <1>5, <1>6, <1>7, Zenon DEF DispatchNext

LEMMA DispatchInvariant == DispatchSpec => []DispatchInv
  BY DispatchStarts, DispatchStays, PTL DEF DispatchSpec

LEMMA DispatchShows == ASSUME DispatchInv PROVE DispatchTypeOK /\ RecordsAreTrue /\ HandlersHaveIt /\ GoesToOwner
<1>1. DispatchTypes /\ CallsInOrder /\ RecordsAreTrue /\ GoesRight
  BY DEF DispatchInv
<1>2. DispatchTypeOK
  <2>1. \A l \in Incoming : inbound[l] \in Arrived
    BY <1>1 DEF DispatchTypes
  <2>2. \A o \in Sending : outbound[o] \in Sent
    BY <1>1 DEF DispatchTypes
  <2> QED
    BY <1>1, <2>1, <2>2 DEF DispatchTypeOK, DispatchTypes, Arrived, Sent
<1>3. HandlersHaveIt
  <2> SUFFICES ASSUME NEW l \in Incoming, inbound[l].at \in {"stored", "lost"}, ~inbound[l].disturbed
               PROVE  IsPrefix(inbound[l].found, inbound[l].called)
    BY DEF HandlersHaveIt
  <2>1. Heads(inbound[l].found, inbound[l].called)
    BY <1>1 DEF CallsInOrder
  <2>2. inbound[l].found \in Seq(Listener) /\ inbound[l].called \in Seq(Listener)
    BY <1>1 DEF DispatchTypes, Arrived
  <2> QED
    BY <2>1, <2>2, HeadsIsPrefix
<1>4. GoesToOwner
  <2>1. \A a \in Address :
           /\ ResolveIdentity(a) \in {a.of, Nowhere}
           /\ a \in recalled \cup mapped \/ a.kind = "identity" =>
                 (ResolveIdentity(a) # Nowhere <=> \E b \in recalled : b.of = a.of)
    BY <1>1, ResolvesToOwner DEF DispatchTypes
  <2>2. \A o \in Sending : outbound[o].at = "refused" => \A r \in records : r.letter # o
    BY <1>1 DEF RecordsAreTrue
  <2> QED
    BY <1>1, <2>1, <2>2 DEF GoesToOwner, GoesRight
<1> QED
  BY <1>1, <1>2, <1>3, <1>4

\* A message that has been handled, or handed to the router, has its row, and every
\* handler that was there when it came has had it, in order, unless one was taken out
\* meanwhile; a message that is sent goes to the owner of its address: for any messages,
\* handlers, owners, errors and ends.
THEOREM MessagesAreHandled == DispatchSpec => [](RecordsAreTrue /\ HandlersHaveIt /\ GoesToOwner)
  BY DispatchInvariant, DispatchShows, PTL

-----------------------------------------------------------------------------
(* The files of attachments.                                                *)

AttachStates == Underway \cup Unnamed \cup {"new", "numbered", "failed", "dead"}
Unopened == {"new", "migrating", "making", "opening"}
HasOpen(m) == attachment[m].at \in {"writing", "renaming"}
TempOf(m) == Temporary(attachment[m].path)
Excused(m) == diskErrors > 0 \/ m \in clashed \/ attachment[m].of \in forgotten \/ evictions > 0

AttachTypes ==
    /\ attachment \in [Message -> [at : AttachStates, of : Sender, path : FilePath]]
    /\ DOMAIN files \subseteq FilePath /\ \A p \in DOMAIN files : files[p] \in FileNode
    /\ openedBy \in [FileNode -> SUBSET Message] /\ wrote \in [FileNode -> SUBSET Message]
    /\ \A f \in FileNode : wrote[f] \subseteq openedBy[f]
    /\ diskErrors \in Nat /\ evictions \in Nat

\* The path of a save is in the directory of its peer.
ThreadInv ==
    \A m \in Message : ~ThreadAt(m, "new") =>
        /\ attachment[m].path.dir = attachment[m].of
        /\ attachment[m].path.id \in {m, Unnumbered} /\ ~attachment[m].path.tmp

\* Each file has one path; the file of a message is there once its thread has opened it.
NodesInv ==
    /\ \A p, q \in DOMAIN files : files[p] = files[q] => p = q
    /\ \A p \in DOMAIN files :
        /\ files[p] \in Message => attachment[files[p]].at \notin Unopened
        /\ files[p] \in Sender => ~p.tmp
    /\ FilesStayWithPeer

\* A thread opens one file; nobody has opened the file of a message before its own thread.
OpenInv ==
    /\ \A m \in Message : attachment[m].at \in Unopened => openedBy[m] = {}
    /\ \A f \in FileNode : \A m \in openedBy[f] : attachment[m].at \notin Unopened
    /\ \A f, g \in FileNode : \A m \in openedBy[f] : m \in openedBy[g] => f = g
    /\ \A m \in Message : HasOpen(m) => \E f \in FileNode : m \in openedBy[f]

\* Who has opened a temporary file still writes it, or is dead.
TempInv ==
    \A p \in DOMAIN files : p.tmp =>
        \A m \in openedBy[files[p]] :
            /\ TempOf(m) = p /\ (HasOpen(m) \/ ThreadAt(m, "dead"))
            /\ ThreadAt(m, "renaming") => m \in wrote[files[p]] \/ m \in clashed

\* The temporary file of a thread at work is its own, unless paths clash; none of the dead
\* has it any more.
AtWorkInv ==
    \A m \in Message : HasOpen(m) /\ TempOf(m) \in DOMAIN files =>
        /\ \A n \in openedBy[files[TempOf(m)]] : ~ThreadAt(n, "dead")
        /\ m \in clashed \/ m \in openedBy[files[TempOf(m)]]

\* Two saves of one path at a time are known to clash.
ClashInv ==
    \A m, n \in Message :
        /\ m # n /\ attachment[m].path = attachment[n].path
        /\ attachment[m].at \in Underway \cup Unnamed /\ attachment[n].at \in Underway \cup Unnamed
        => m \in clashed

\* What is saved is there, written by its message alone.
KeptInv ==
    \A m \in Message : attachment[m].at \in Unnamed \cup {"numbered"} =>
        LET own == attachment[m].path IN
        \/ /\ own \in DOMAIN files /\ wrote[files[own]] = {m} /\ openedBy[files[own]] = {m}
           /\ ThreadAt(m, "numbered") => own.id = m
        \/ m \in removed \cup clashed \/ own.dir \in forgotten

\* A deletion is of a directory that is known to be deleted.
DeletionInv ==
    /\ DOMAIN deletion = {"at", "of", "left"}
    /\ deletion.at # "idle" => deletion.of \in forgotten \cup {Legacy}
    /\ \A p \in deletion.left : deletion.at # "idle" /\ p.dir = deletion.of

\* Where its directory or its temporary file is missing, a save has its excuse already.
FailInv ==
    /\ \A m \in Message :
        /\ ThreadAt(m, "opening") => attachment[m].of \in folders \/ Excused(m)
        /\ HasOpen(m) => TempOf(m) \in DOMAIN files \/ Excused(m)
        /\ ThreadAt(m, "failed") => Excused(m)
    /\ eviction.at # "idle" => evictions > 0

AttachInv ==
    /\ AttachTypes /\ ThreadInv /\ NodesInv /\ OpenInv /\ TempInv /\ AtWorkInv /\ ClashInv
    /\ StoredIsWhole /\ KeptInv

\* What a thread may do while no file is opened, written or moved.
ThreadMoves(m) ==
    LET was == attachment[m].at
        is == attachment'[m].at IN
    /\ attachment'[m].of = attachment[m].of /\ attachment'[m].path = attachment[m].path
    /\ \/ is = was
       \/ was \in {"migrating", "making"} /\ is \in {"making", "opening"}
       \/ was \in Unopened /\ is = "failed" /\ was # "new"
       \/ was \in {"writing", "renaming"} /\ is = "failed" /\ TempOf(m) \notin DOMAIN files'
       \/ was = "saved" /\ is = "numbered" /\ attachment[m].path \notin DOMAIN files
       \/ was \in Underway /\ is = "dead"
       \/ was = "saved" /\ is = "left"

LEMMA NamesDiffer ==
  /\ Legacy \notin Sender /\ Unnumbered \notin Message /\ Unnumbered \notin Sender
  /\ Message \cap Sender = {}
  BY AttachmentNames

\* The temporary path of a path.
LEMMA TemporaryPaths ==
  ASSUME NEW p \in FilePath
  PROVE  /\ Temporary(p) \in FilePath /\ Temporary(p).tmp = TRUE
         /\ Temporary(p).dir = p.dir /\ Temporary(p).id = p.id
         /\ ~p.tmp => Temporary(p) # p
         /\ \A q \in FilePath : Temporary(p) = Temporary(q) /\ ~p.tmp /\ ~q.tmp => p = q
         /\ \A q \in FilePath : p.dir = q.dir /\ p.id = q.id /\ p.tmp = q.tmp => p = q
  <1>1. \A q \in FilePath :
           /\ q = [dir |-> q.dir, id |-> q.id, tmp |-> q.tmp] /\ q.tmp \in BOOLEAN
           /\ Temporary(q) = [dir |-> q.dir, id |-> q.id, tmp |-> TRUE] /\ Temporary(q) \in FilePath
    <2> TAKE q \in FilePath
    <2>1. q = [dir |-> q.dir, id |-> q.id, tmp |-> q.tmp]
      BY DEF FilePath
    <2>2. q.dir \in Dir /\ q.id \in Message \cup Sender \cup {Unnumbered} /\ q.tmp \in BOOLEAN
      BY DEF FilePath
    <2>3. Temporary(q) = [dir |-> q.dir, id |-> q.id, tmp |-> TRUE]
      BY <2>1 DEF Temporary
    <2>4. Temporary(q) \in FilePath
      BY <2>2, <2>3 DEF FilePath
    <2> QED BY <2>1, <2>2, <2>3, <2>4
  <1>2. \A q \in FilePath : p.dir = q.dir /\ p.id = q.id /\ p.tmp = q.tmp => p = q
    BY <1>1
  <1>3. /\ Temporary(p).tmp = TRUE /\ Temporary(p).dir = p.dir /\ Temporary(p).id = p.id
        /\ Temporary(p) \in FilePath
    BY <1>1
  <1>4. ~p.tmp => Temporary(p) # p
    BY <1>3
  <1>5. ASSUME NEW q \in FilePath, Temporary(p) = Temporary(q), ~p.tmp, ~q.tmp PROVE p = q
    <2>1. p.dir = q.dir /\ p.id = q.id
      BY <1>1, <1>5
    <2>2. p.tmp = FALSE /\ q.tmp = FALSE
      BY <1>1, <1>5
    <2> QED BY <1>2, <2>1, <2>2
  <1> QED BY <1>2, <1>3, <1>4, <1>5

\* A thread that goes on changes nothing else.
LEMMA GoesOn ==
  ASSUME AttachTypes, NEW m \in Message, NEW st \in AttachStates, ThreadGoes(m, st)
  PROVE  /\ attachment' \in [Message -> [at : AttachStates, of : Sender, path : FilePath]]
         /\ \A n \in Message : /\ attachment'[n].at = IF n = m THEN st ELSE attachment[n].at
                               /\ attachment'[n].of = attachment[n].of
                               /\ attachment'[n].path = attachment[n].path
  BY DEF AttachTypes, ThreadGoes

\* What is unlinked is gone, and nothing else.
LEMMA UnlinkedFiles ==
  ASSUME NEW p, files' = Unlinked(p)
  PROVE  DOMAIN files' = DOMAIN files \ {p} /\ \A q \in DOMAIN files' : files'[q] = files[q]
  BY DEF Unlinked, Restrict

\* What is moved is at its new path, in place of what was there.
LEMMA MovedFiles ==
  ASSUME NEW from, NEW to, files' = Moved(from, to)
  PROVE  /\ DOMAIN files' = (DOMAIN files \ {from}) \cup {to} /\ files'[to] = files[from]
         /\ \A q \in DOMAIN files' : q # to => q \in DOMAIN files /\ q # from /\ files'[q] = files[q]
  BY DEF Moved

\* The legacy directory becomes that of a peer: each file keeps what it is but the directory.
LEMMA TakenFiles ==
  ASSUME AttachTypes, NEW m \in Message, TakesLegacy(m)
  PROVE  /\ ThreadAt(m, "migrating") /\ ThreadGoes(m, "making")
         /\ UNCHANGED <<openedBy, wrote, ages, deletion, eviction, countVars, historyVars>>
         /\ \/ UNCHANGED <<folders, files>>
            \/ /\ folders' = (folders \ {Legacy}) \cup {attachment[m].of}
               /\ \A p \in DOMAIN files : p.dir # attachment[m].of
               /\ \A p \in DOMAIN files : p.dir # Legacy => p \in DOMAIN files' /\ files'[p] = files[p]
               /\ \A p \in DOMAIN files' :
                     \/ p.dir # Legacy /\ p \in DOMAIN files /\ files'[p] = files[p]
                     \/ \E q \in DOMAIN files :
                          /\ q.dir = Legacy /\ p = [q EXCEPT !.dir = attachment[m].of]
                          /\ files'[p] = files[q]
  <1> DEFINE new == attachment[m].of
             to(q) == IF q.dir = Legacy THEN [q EXCEPT !.dir = new] ELSE q
  <1>0. new \in Sender /\ DOMAIN files \subseteq FilePath
    BY DEF AttachTypes
  <1>1. CASE Legacy \in folders /\ Inside(new) = {}
    <2>1. /\ folders' = (folders \ {Legacy}) \cup {new}
          /\ files' = [p \in {to(q) : q \in DOMAIN files} |->
                          IF p \in DOMAIN files THEN files[p] ELSE files[[p EXCEPT !.dir = Legacy]]]
      BY <1>1 DEF TakesLegacy
    <2>2. DOMAIN files' = {to(q) : q \in DOMAIN files}
      BY <2>1
    <2>3. \A p \in DOMAIN files : p.dir # new
      BY <1>1 DEF Inside
    <2>4. ASSUME NEW p \in DOMAIN files, p.dir # Legacy PROVE p \in DOMAIN files' /\ files'[p] = files[p]
      <3>1. to(p) = p
        BY <2>4
      <3>2. p \in DOMAIN files'
        BY <2>2, <3>1
      <3> QED BY <2>1, <2>2, <3>2
    <2>5. ASSUME NEW p \in DOMAIN files'
          PROVE  \/ p.dir # Legacy /\ p \in DOMAIN files /\ files'[p] = files[p]
                 \/ \E q \in DOMAIN files :
                      /\ q.dir = Legacy /\ p = [q EXCEPT !.dir = attachment[m].of]
                      /\ files'[p] = files[q]
      <3>1. PICK q \in DOMAIN files : p = to(q)
        BY <2>2
      <3>2. CASE q.dir # Legacy
        BY <2>4, <3>1, <3>2
      <3>3. CASE q.dir = Legacy
        <4>1. p = [q EXCEPT !.dir = new] /\ q \in FilePath
          BY <1>0, <3>1, <3>3
        <4>2. p.dir = new /\ [p EXCEPT !.dir = Legacy] = q
          BY <3>3, <4>1 DEF FilePath
        <4>3. p \notin DOMAIN files
          BY <2>3, <4>2
        <4>4. files'[p] = files[[p EXCEPT !.dir = Legacy]]
          BY <2>1, <2>2, <4>3
        <4> QED BY <3>3, <4>1, <4>2, <4>4
      <3> QED BY <3>2, <3>3
    <2> QED BY <2>1, <2>3, <2>4, <2>5, Zenon DEF TakesLegacy
  <1>2. CASE ~(Legacy \in folders /\ Inside(new) = {})
    BY <1>2, Zenon DEF TakesLegacy
  <1> QED BY <1>1, <1>2

\* Files may go, threads fail and all of them die: what holds of the rest still holds, and
\* of what is missing it is known why.
LEMMA NothingIsWritten ==
  ASSUME AttachInv, DOMAIN files' \subseteq DOMAIN files,
         \A p \in DOMAIN files' : files'[p] = files[p],
         \A p \in DOMAIN files : p \in DOMAIN files' \/ p.tmp \/ wrote[files[p]] \subseteq removed'
                                    \/ p.dir \in forgotten' \cup {Legacy},
         UNCHANGED <<openedBy, wrote, clashed>>,
         removed \subseteq removed', forgotten \subseteq forgotten', diskErrors' \in Nat, evictions' \in Nat,
         attachment' \in [Message -> [at : AttachStates, of : Sender, path : FilePath]],
         \A m \in Message : ThreadMoves(m),
         \A m, n \in Message : attachment'[m].at = "dead" /\ attachment[m].at # "dead"
                                 => attachment'[n].at \notin Underway
  PROVE  AttachInv'
  <1>1. AttachTypes'
    BY DEF AttachInv, AttachTypes
  <1>2. ThreadInv'
    BY DEF AttachInv, ThreadInv, ThreadMoves, ThreadAt, Unopened, Underway
  <1>3. NodesInv'
    <2>1. \A m \in Message : /\ attachment'[m].of = attachment[m].of
                             /\ attachment[m].at \notin Unopened => attachment'[m].at \notin Unopened
      BY DEF ThreadMoves, Unopened, Underway
    <2> QED BY <2>1 DEF AttachInv, AttachTypes, NodesInv, FilesStayWithPeer, FileNode
  <1>4. OpenInv'
    <2>1. \A m \in Message : /\ attachment[m].at \notin Unopened => attachment'[m].at \notin Unopened
                             /\ attachment'[m].at \in {"writing", "renaming"}
                                => attachment[m].at \in {"writing", "renaming"}
      BY DEF ThreadMoves, Unopened, Underway
    <2> QED BY <2>1 DEF AttachInv, AttachTypes, OpenInv, HasOpen
  <1>5. TempInv'
    <2>1. \A m \in Message :
             /\ TempOf(m)' = TempOf(m)
             /\ attachment'[m].at = "renaming" => attachment[m].at = "renaming"
             /\ attachment[m].at \in {"writing", "renaming", "dead"} =>
                   attachment'[m].at \in {"writing", "renaming", "dead"} \/ TempOf(m) \notin DOMAIN files'
      BY DEF ThreadMoves, Unopened, Underway, TempOf
    <2> QED BY <2>1 DEF AttachInv, AttachTypes, TempInv, HasOpen, ThreadAt
  <1>6. AtWorkInv'
    <2>1. \A m \in Message :
             /\ TempOf(m)' = TempOf(m)
             /\ attachment'[m].at \in {"writing", "renaming"} => attachment[m].at \in {"writing", "renaming"}
      BY DEF ThreadMoves, Unopened, Underway, TempOf
    <2>2. \A m, n \in Message : attachment'[m].at \in {"writing", "renaming"} /\ attachment'[n].at = "dead"
                                => attachment[n].at = "dead"
      BY DEF Underway
    <2> QED BY <2>1, <2>2 DEF AttachInv, AttachTypes, AtWorkInv, HasOpen, ThreadAt
  <1>7. ClashInv'
    <2>1. \A m \in Message :
             /\ attachment'[m].path = attachment[m].path
             /\ attachment'[m].at \in Underway \cup Unnamed => attachment[m].at \in Underway \cup Unnamed
      BY DEF ThreadMoves, Unopened, Underway, Unnamed
    <2> QED BY <2>1 DEF AttachInv, ClashInv
  <1>8. StoredIsWhole'
    BY DEF AttachInv, StoredIsWhole
  <1>9. KeptInv'
    <2> SUFFICES ASSUME NEW m \in Message, attachment'[m].at \in {"saved", "left", "numbered"},
                        m \notin removed' \cup clashed, attachment[m].path.dir \notin forgotten'
                 PROVE  /\ attachment[m].path \in DOMAIN files'
                        /\ wrote[files'[attachment[m].path]] = {m} /\ openedBy[files'[attachment[m].path]] = {m}
                        /\ attachment'[m].at = "numbered" => attachment[m].path.id = m
      BY DEF KeptInv, Unnamed, ThreadMoves, ThreadAt
    <2>1. /\ attachment[m].at \in {"saved", "left", "numbered"}
          /\ attachment'[m].at = "numbered" =>
                attachment[m].at = "numbered" \/ attachment[m].path \notin DOMAIN files
      BY DEF ThreadMoves, Unopened, Underway
    <2>2. /\ attachment[m].path \in DOMAIN files
          /\ wrote[files[attachment[m].path]] = {m} /\ openedBy[files[attachment[m].path]] = {m}
          /\ attachment[m].at = "numbered" => attachment[m].path.id = m
      BY <2>1 DEF AttachInv, KeptInv, Unnamed, ThreadAt
    <2>3. ~attachment[m].path.tmp /\ attachment[m].path.dir # Legacy
      BY <2>1, NamesDiffer DEF AttachInv, AttachTypes, ThreadInv, ThreadAt
    <2> QED BY <2>1, <2>2, <2>3
  <1> QED BY <1>1, <1>2, <1>3, <1>4, <1>5, <1>6, <1>7, <1>8, <1>9 DEF AttachInv

\* A save begins; whoever has the same path clashes with it.
LEMMA SaveLooksKeeps ==
  ASSUME AttachInv, NEW m \in Message, SaveLooks(m) PROVE AttachInv'
  <1> DEFINE Rest == UNCHANGED <<files, openedBy, wrote, diskErrors, evictions, removed, forgotten>>
  <1>1. PICK id \in {m, Unnumbered} :
           LET target == [dir |-> attachment[m].of, id |-> id, tmp |-> FALSE]
               others == {n \in Message \ {m} : attachment[n].path = target
                                               /\ attachment[n].at \in Underway \cup Unnamed} IN
           /\ attachment' = [attachment EXCEPT ![m] =
                 [@ EXCEPT !.at = IF attachment[m].of \in folders THEN "making" ELSE "migrating", !.path = target]]
           /\ clashed' = IF others = {} THEN clashed ELSE clashed \cup others \cup {m}
    BY Zenon DEF SaveLooks
  <1> DEFINE target == [dir |-> attachment[m].of, id |-> id, tmp |-> FALSE]
  <1>2. Rest /\ attachment[m].at = "new"
    BY DEF SaveLooks, storedVars, ThreadAt
  <1>3. /\ target \in FilePath /\ target.dir = attachment[m].of /\ target.id \in {m, Unnumbered} /\ ~target.tmp
    BY DEF AttachInv, AttachTypes, FilePath, Dir
  <1>4. /\ attachment' \in [Message -> [at : AttachStates, of : Sender, path : FilePath]]
        /\ \A n \in Message : attachment'[n].of = attachment[n].of
        /\ \A n \in Message \ {m} : attachment'[n].at = attachment[n].at /\ attachment'[n].path = attachment[n].path
        /\ attachment'[m].at \in {"making", "migrating"} /\ attachment'[m].path = target
    BY <1>1, <1>3 DEF AttachInv, AttachTypes, AttachStates, Underway
  <1>5. /\ clashed \subseteq clashed'
        /\ \A n \in Message \ {m} : attachment[n].path = target /\ attachment[n].at \in Underway \cup Unnamed
                                    => n \in clashed' /\ m \in clashed'
    BY <1>1
  <1> HIDE DEF target
  <1>6. AttachTypes'
    BY <1>2, <1>4 DEF AttachInv, AttachTypes
  <1>7. ThreadInv'
    BY <1>3, <1>4 DEF AttachInv, ThreadInv, ThreadAt
  <1>8. NodesInv'
    <2>1. \A n \in Message : attachment[n].at \notin Unopened => attachment'[n].at \notin Unopened
      BY <1>2, <1>4 DEF Unopened
    <2> QED BY <1>2, <1>4, <2>1 DEF AttachInv, NodesInv, FilesStayWithPeer
  <1>9. OpenInv'
    <2>1. \A n \in Message : /\ attachment[n].at \notin Unopened => attachment'[n].at \notin Unopened
                             /\ HasOpen(n)' => HasOpen(n)
      BY <1>2, <1>4 DEF Unopened, HasOpen
    <2> QED BY <1>2, <2>1 DEF AttachInv, AttachTypes, OpenInv
  <1>10. \A n \in Message \ {m} : TempOf(n)' = TempOf(n) /\ HasOpen(n)' = HasOpen(n)
    BY <1>4 DEF TempOf, HasOpen
  <1>11. TempInv'
    <2>1. \A f \in FileNode : m \notin openedBy[f]
      BY <1>2 DEF AttachInv, OpenInv, Unopened
    <2> QED BY <1>2, <1>4, <1>5, <1>10, <2>1 DEF AttachInv, AttachTypes, TempInv, ThreadAt
  <1>12. AtWorkInv'
    <2>1. ~HasOpen(m)' /\ \A n \in Message : ThreadAt(n, "dead")' => ThreadAt(n, "dead")
      BY <1>4 DEF HasOpen, ThreadAt
    <2>2. ASSUME NEW n \in Message, HasOpen(n)', TempOf(n)' \in DOMAIN files'
          PROVE  /\ \A o \in openedBy[files[TempOf(n)]] : ~ThreadAt(o, "dead")'
                 /\ n \in clashed' \/ n \in openedBy[files[TempOf(n)]]
      <3>1. HasOpen(n) /\ TempOf(n) \in DOMAIN files
        BY <1>2, <1>10, <2>1, <2>2
      <3>2. openedBy[files[TempOf(n)]] \subseteq Message
        BY <3>1 DEF AttachInv, AttachTypes
      <3> QED BY <1>5, <2>1, <3>1, <3>2 DEF AttachInv, AtWorkInv
    <2>3. \A n \in Message : HasOpen(n)' => TempOf(n)' = TempOf(n)
      BY <1>10, <2>1
    <2> QED BY <1>2, <2>2, <2>3 DEF AtWorkInv
  <1>13. ClashInv'
    BY <1>2, <1>4, <1>5 DEF AttachInv, ClashInv, Underway, Unnamed
  <1>14. StoredIsWhole'
    BY <1>2, <1>5 DEF AttachInv, StoredIsWhole
  <1>15. KeptInv'
    BY <1>2, <1>4, <1>5 DEF AttachInv, KeptInv, ThreadAt, Unnamed
  <1> QED BY <1>6, <1>7, <1>8, <1>9, <1>11, <1>12, <1>13, <1>14, <1>15 DEF AttachInv

\* The legacy directory becomes the peer's.
LEMMA TakesLegacyKeeps ==
  ASSUME AttachInv, NEW m \in Message, TakesLegacy(m) PROVE AttachInv'
  <1>1. /\ attachment[m].at = "migrating" /\ ThreadGoes(m, "making")
        /\ UNCHANGED <<openedBy, wrote, diskErrors, evictions, forgotten, removed, clashed>>
        /\ AttachTypes
    BY TakenFiles DEF AttachInv, countVars, historyVars, ThreadAt
  <1>2. /\ attachment' \in [Message -> [at : AttachStates, of : Sender, path : FilePath]]
        /\ \A n \in Message : /\ attachment'[n].at = IF n = m THEN "making" ELSE attachment[n].at
                              /\ attachment'[n].of = attachment[n].of
                              /\ attachment'[n].path = attachment[n].path
    BY <1>1, GoesOn DEF AttachStates, Underway
  <1>3. CASE UNCHANGED files
    <2>1. \A n \in Message : ThreadMoves(n)
      BY <1>1, <1>2 DEF ThreadMoves
    <2> QED BY <1>1, <1>2, <1>3, <2>1, NothingIsWritten DEF AttachTypes
  <1>4. ASSUME \A p \in DOMAIN files : p.dir # attachment[m].of,
               \A p \in DOMAIN files : p.dir # Legacy => p \in DOMAIN files' /\ files'[p] = files[p],
               \A p \in DOMAIN files' :
                  \/ p.dir # Legacy /\ p \in DOMAIN files /\ files'[p] = files[p]
                  \/ \E q \in DOMAIN files :
                       /\ q.dir = Legacy /\ p = [q EXCEPT !.dir = attachment[m].of]
                       /\ files'[p] = files[q]
        PROVE  AttachInv'
    <2>1. ASSUME NEW p \in DOMAIN files'
          PROVE  \/ p.dir # Legacy /\ p \in DOMAIN files /\ files'[p] = files[p]
                 \/ \E q \in DOMAIN files :
                      /\ q.dir = Legacy /\ p.dir = attachment[m].of /\ p.id = q.id /\ p.tmp = q.tmp
                      /\ p \in FilePath /\ files'[p] = files[q] /\ files[q] \in Sender /\ ~q.tmp
      <3>1. CASE p.dir # Legacy /\ p \in DOMAIN files /\ files'[p] = files[p]
        BY <3>1
      <3>2. ASSUME NEW q \in DOMAIN files, q.dir = Legacy, p = [q EXCEPT !.dir = attachment[m].of],
                   files'[p] = files[q]
            PROVE  /\ p.dir = attachment[m].of /\ p.id = q.id /\ p.tmp = q.tmp
                   /\ p \in FilePath /\ files[q] \in Sender /\ ~q.tmp
        <4>1. q \in FilePath /\ attachment[m].of \in Dir
          BY <1>1 DEF AttachTypes, Dir
        <4>2. p.dir = attachment[m].of /\ p.id = q.id /\ p.tmp = q.tmp /\ p \in FilePath
          BY <3>2, <4>1 DEF FilePath
        <4>3. files[q] \notin Message
          BY <3>2, <1>1, NamesDiffer DEF AttachInv, NodesInv, FilesStayWithPeer, AttachTypes
        <4>4. files[q] \in Sender /\ ~q.tmp
          BY <4>3, <1>1 DEF AttachInv, NodesInv, AttachTypes, FileNode
        <4> QED BY <4>2, <4>4
      <3> QED BY <1>4, <3>1, <3>2
    <2>2. DOMAIN files' \subseteq FilePath /\ \A p \in DOMAIN files' : files'[p] \in FileNode
      BY <1>1, <2>1 DEF AttachTypes
    <2>3. \A p \in DOMAIN files' : p.tmp \/ files'[p] \in Message =>
             p.dir # Legacy /\ p \in DOMAIN files /\ files'[p] = files[p]
      BY <2>1, NamesDiffer
    <2>4. AttachTypes'
      BY <1>1, <1>2, <2>2 DEF AttachTypes
    <2>5. ThreadInv'
      BY <1>1, <1>2 DEF AttachInv, ThreadInv, ThreadAt
    <2>6. NodesInv'
      <3>1. \A p, q \in DOMAIN files' : files'[p] = files'[q] => p = q
        <4> SUFFICES ASSUME NEW p \in DOMAIN files', NEW q \in DOMAIN files', files'[p] = files'[q] PROVE p = q
          OBVIOUS
        <4>1. CASE p.dir # Legacy /\ p \in DOMAIN files /\ files'[p] = files[p]
          <5>1. CASE q.dir # Legacy /\ q \in DOMAIN files /\ files'[q] = files[q]
            BY <4>1, <5>1 DEF AttachInv, NodesInv
          <5>2. CASE ~(q.dir # Legacy /\ q \in DOMAIN files /\ files'[q] = files[q])
            <6>1. PICK r \in DOMAIN files : r.dir = Legacy /\ files'[q] = files[r]
              BY <2>1, <5>2
            <6> QED BY <4>1, <6>1 DEF AttachInv, NodesInv
          <5> QED BY <5>1, <5>2
        <4>2. CASE ~(p.dir # Legacy /\ p \in DOMAIN files /\ files'[p] = files[p])
          <5>1. PICK r \in DOMAIN files : /\ r.dir = Legacy /\ p.dir = attachment[m].of /\ p.id = r.id /\ p.tmp = r.tmp
                                          /\ p \in FilePath /\ files'[p] = files[r]
            BY <2>1, <4>2
          <5>2. CASE q.dir # Legacy /\ q \in DOMAIN files /\ files'[q] = files[q]
            BY <5>1, <5>2 DEF AttachInv, NodesInv
          <5>3. CASE ~(q.dir # Legacy /\ q \in DOMAIN files /\ files'[q] = files[q])
            <6>1. PICK t \in DOMAIN files : /\ t.dir = Legacy /\ q.dir = attachment[m].of /\ q.id = t.id /\ q.tmp = t.tmp
                                            /\ q \in FilePath /\ files'[q] = files[t]
              BY <2>1, <5>3
            <6>2. r = t
              BY <5>1, <6>1 DEF AttachInv, NodesInv
            <6>3. p.dir = q.dir /\ p.id = q.id /\ p.tmp = q.tmp
              BY <5>1, <6>1, <6>2
            <6>4. \A o \in FilePath : p.dir = o.dir /\ p.id = o.id /\ p.tmp = o.tmp => p = o
              BY <5>1, TemporaryPaths
            <6> QED BY <6>1, <6>3, <6>4
          <5> QED BY <5>2, <5>3
        <4> QED BY <4>1, <4>2
      <3>2. \A p \in DOMAIN files' :
               /\ files'[p] \in Message => attachment'[files'[p]].at \notin Unopened
               /\ files'[p] \in Sender => ~p.tmp
        <4>1. \A n \in Message : attachment[n].at \notin Unopened => attachment'[n].at \notin Unopened
          BY <1>1, <1>2 DEF Unopened
        <4> QED BY <2>1, <2>3, <4>1 DEF AttachInv, NodesInv
      <3>3. \A p \in DOMAIN files' :
               IF files'[p] \in Message THEN p.dir = attachment'[files'[p]].of ELSE p.id = files'[p]
        <4>1. \A n \in Message : attachment'[n].of = attachment[n].of
          BY <1>2
        <4>2. \A p \in DOMAIN files' : files'[p] \in Message => p.dir = attachment[files'[p]].of
          BY <2>3 DEF AttachInv, NodesInv, FilesStayWithPeer
        <4>3. ASSUME NEW p \in DOMAIN files', files'[p] \notin Message PROVE p.id = files'[p]
          <5>1. PICK q \in DOMAIN files : p.id = q.id /\ files'[p] = files[q]
            BY <2>1
          <5> QED BY <4>3, <5>1 DEF AttachInv, NodesInv, FilesStayWithPeer
        <4> QED BY <4>1, <4>2, <4>3
      <3> QED BY <3>1, <3>2, <3>3 DEF NodesInv, FilesStayWithPeer
    <2>7. OpenInv'
      BY <1>1, <1>2 DEF AttachInv, AttachTypes, OpenInv, HasOpen, Unopened
    <2>8. \A n \in Message : /\ TempOf(n)' = TempOf(n) /\ HasOpen(n)' = HasOpen(n)
                             /\ \A st \in {"dead", "renaming", "numbered"} : ThreadAt(n, st)' = ThreadAt(n, st)
      BY <1>1, <1>2 DEF TempOf, HasOpen, ThreadAt
    <2>9. TempInv'
      BY <1>1, <2>3, <2>8 DEF AttachInv, AttachTypes, TempInv
    <2>10. AtWorkInv'
      <3>1. \A n \in Message : TempOf(n).tmp
        BY <1>1, TemporaryPaths DEF AttachTypes, TempOf
      <3> QED BY <1>1, <2>3, <2>8, <3>1 DEF AttachInv, AttachTypes, AtWorkInv
    <2>11. ClashInv'
      BY <1>1, <1>2 DEF AttachInv, ClashInv, Underway, Unnamed
    <2>12. StoredIsWhole'
      BY <1>1, <2>1 DEF AttachInv, StoredIsWhole
    <2>13. KeptInv'
      <3>1. \A n \in Message : attachment'[n].at \in {"saved", "left", "numbered"} =>
               attachment[n].at = attachment'[n].at /\ attachment[n].path.dir # Legacy
        BY <1>1, <1>2, NamesDiffer DEF AttachInv, AttachTypes, ThreadInv, ThreadAt
      <3>2. SUFFICES ASSUME NEW n \in Message, attachment'[n].at \in {"saved", "left", "numbered"},
                            n \notin removed \cup clashed, attachment[n].path.dir \notin forgotten
                     PROVE  /\ attachment[n].path \in DOMAIN files'
                            /\ wrote[files'[attachment[n].path]] = {n} /\ openedBy[files'[attachment[n].path]] = {n}
                            /\ attachment[n].at = "numbered" => attachment[n].path.id = n
        BY <1>1, <1>2, <3>1 DEF KeptInv, Unnamed, ThreadAt
      <3>3. attachment[n].at \in {"saved", "left", "numbered"} /\ attachment[n].path.dir # Legacy
        BY <3>1, <3>2
      <3>4. /\ attachment[n].path \in DOMAIN files
            /\ wrote[files[attachment[n].path]] = {n} /\ openedBy[files[attachment[n].path]] = {n}
            /\ attachment[n].at = "numbered" => attachment[n].path.id = n
        BY <3>2, <3>3 DEF AttachInv, KeptInv, Unnamed, ThreadAt
      <3> QED BY <1>4, <3>3, <3>4
    <2> QED BY <2>4, <2>5, <2>6, <2>7, <2>9, <2>10, <2>11, <2>12, <2>13 DEF AttachInv
  <1> QED BY <1>1, <1>3, <1>4, TakenFiles

\* Only the thread of one message goes on, to a state in which it has opened its file.
LEMMA OpensFileKeeps ==
  ASSUME AttachInv, NEW m \in Message, OpensFile(m) PROVE AttachInv'
  <1> DEFINE own == TempOf(m)
             f == IF own \in DOMAIN files THEN files[own] ELSE m
  <1>1. /\ attachment[m].at = "opening"
        /\ UNCHANGED <<diskErrors, evictions, forgotten, removed, clashed>>
        /\ AttachTypes
    BY DEF AttachInv, countVars, historyVars, ThreadAt, OpensFile
  <1>2. /\ own \in FilePath /\ own.tmp /\ own.dir = attachment[m].of
        /\ \A n \in Message : attachment[n].at # "new" /\ TempOf(n) = own => attachment[n].path = attachment[m].path
        /\ \A n \in Message : attachment[n].at # "new" => attachment[n].path # own
    <2>1. attachment[m].path \in FilePath /\ ~attachment[m].path.tmp /\ attachment[m].path.dir = attachment[m].of
      BY <1>1 DEF AttachInv, ThreadInv, AttachTypes, ThreadAt
    <2>2. \A n \in Message : attachment[n].at # "new" => attachment[n].path \in FilePath /\ ~attachment[n].path.tmp
      BY <1>1 DEF AttachInv, ThreadInv, AttachTypes, ThreadAt
    <2>3. /\ own \in FilePath /\ own.tmp = TRUE /\ own.dir = attachment[m].path.dir
          /\ \A q \in FilePath : own = Temporary(q) /\ ~q.tmp => attachment[m].path = q
      BY <2>1, TemporaryPaths DEF TempOf
    <2>4. ASSUME NEW n \in Message, attachment[n].at # "new", TempOf(n) = own
          PROVE  attachment[n].path = attachment[m].path
      BY <2>2, <2>3, <2>4 DEF TempOf
    <2>5. \A n \in Message : attachment[n].at # "new" => attachment[n].path # own
      BY <2>2, <2>3
    <2> HIDE DEF own
    <2> QED BY <2>1, <2>3, <2>4, <2>5
  <1>3. CASE ThreadGoes(m, "failed") /\ UNCHANGED <<files, openedBy, wrote>>
    <2>1. /\ attachment' \in [Message -> [at : AttachStates, of : Sender, path : FilePath]]
          /\ \A n \in Message : /\ attachment'[n].at = IF n = m THEN "failed" ELSE attachment[n].at
                                /\ attachment'[n].of = attachment[n].of
                                /\ attachment'[n].path = attachment[n].path
      BY <1>1, <1>3, GoesOn DEF AttachStates
    <2>2. \A n \in Message : ThreadMoves(n)
      BY <1>1, <2>1 DEF ThreadMoves, Unopened
    <2> QED BY <1>1, <1>3, <2>1, <2>2, NothingIsWritten DEF AttachTypes
  <1>4. CASE /\ ThreadGoes(m, "writing")
             /\ files' = [p \in DOMAIN files \cup {own} |-> IF p = own THEN f ELSE files[p]]
             /\ openedBy' = [openedBy EXCEPT ![f] = {n \in @ : ~ThreadAt(n, "dead")} \cup {m}]
             /\ wrote' = [wrote EXCEPT ![f] = {}]
    <2>1. /\ attachment' \in [Message -> [at : AttachStates, of : Sender, path : FilePath]]
          /\ \A n \in Message : /\ attachment'[n].at = IF n = m THEN "writing" ELSE attachment[n].at
                                /\ attachment'[n].of = attachment[n].of
                                /\ attachment'[n].path = attachment[n].path
      BY <1>1, <1>4, GoesOn DEF AttachStates, Underway
    <2>2. /\ f \in Message /\ f \in FileNode /\ own.dir = attachment[f].of
          /\ own \in DOMAIN files \/ f = m
          /\ f = m \/ attachment[f].at \notin Unopened
          /\ \A p \in DOMAIN files : files[p] = f => p = own
      <3>1. CASE own \in DOMAIN files
        BY <1>1, <1>2, <3>1 DEF AttachInv, AttachTypes, NodesInv, FilesStayWithPeer, FileNode
      <3>2. CASE own \notin DOMAIN files
        BY <1>1, <1>2, <3>2 DEF AttachInv, NodesInv, FileNode, Unopened
      <3> QED BY <3>1, <3>2
    <2>3. /\ DOMAIN files' = DOMAIN files \cup {own} /\ files'[own] = f
          /\ \A p \in DOMAIN files' : p # own => p \in DOMAIN files /\ files'[p] = files[p] /\ files[p] # f
      BY <1>4, <2>2
    <2> HIDE DEF f
    <2>4. /\ openedBy' \in [FileNode -> SUBSET Message] /\ wrote' \in [FileNode -> SUBSET Message]
          /\ wrote'[f] = {} /\ m \in openedBy'[f]
          /\ \A n \in openedBy'[f] : n = m \/ (n \in openedBy[f] /\ attachment[n].at # "dead")
          /\ \A g \in FileNode \ {f} : openedBy'[g] = openedBy[g] /\ wrote'[g] = wrote[g]
      BY <1>1, <1>4, <2>2 DEF AttachTypes, ThreadAt
    <2>5. AttachTypes'
      BY <1>1, <1>2, <2>1, <2>2, <2>3, <2>4 DEF AttachTypes
    <2>6. ThreadInv'
      BY <1>1, <2>1 DEF AttachInv, ThreadInv, ThreadAt
    <2>7. \A n \in Message : /\ TempOf(n)' = TempOf(n)
                             /\ attachment'[n].at \in Unopened => attachment[n].at \in Unopened /\ n # m
                             /\ HasOpen(n)' => HasOpen(n) \/ n = m
                             /\ HasOpen(n) => HasOpen(n)'
                             /\ ThreadAt(n, "dead")' = ThreadAt(n, "dead")
                             /\ ThreadAt(n, "renaming")' = ThreadAt(n, "renaming")
      BY <1>1, <2>1 DEF TempOf, Unopened, HasOpen, ThreadAt
    <2>8. NodesInv'
      <3>1. \A p, q \in DOMAIN files' : files'[p] = files'[q] => p = q
        BY <2>3 DEF AttachInv, NodesInv
      <3>2. \A p \in DOMAIN files' : files'[p] \in Message => attachment'[files'[p]].at \notin Unopened
        BY <2>2, <2>3, <2>7 DEF AttachInv, NodesInv
      <3>3. \A p \in DOMAIN files' : files'[p] \in Sender => ~p.tmp
        BY <2>2, <2>3, NamesDiffer DEF AttachInv, NodesInv
      <3>4. \A p \in DOMAIN files' :
               IF files'[p] \in Message THEN p.dir = attachment'[files'[p]].of ELSE p.id = files'[p]
        BY <2>1, <2>2, <2>3 DEF AttachInv, NodesInv, FilesStayWithPeer
      <3> QED BY <3>1, <3>2, <3>3, <3>4 DEF NodesInv, FilesStayWithPeer
    <2>9. OpenInv'
      <3>1. \A n \in Message : attachment'[n].at \in Unopened => openedBy'[n] = {}
        <4>1. ASSUME NEW n \in Message, attachment'[n].at \in Unopened PROVE openedBy'[n] = {}
          <5>1. attachment[n].at \in Unopened /\ n # m
            BY <2>7, <4>1
          <5>2. n # f /\ n \in FileNode
            BY <2>2, <5>1 DEF FileNode
          <5> QED BY <2>4, <5>1, <5>2 DEF AttachInv, OpenInv
        <4> QED BY <4>1
      <3>2. \A g \in FileNode : \A n \in openedBy'[g] : attachment'[n].at \notin Unopened
        <4>1. \A g \in FileNode : \A n \in openedBy'[g] : n \in Message /\ (n = m \/ n \in openedBy[g])
          BY <2>4
        <4> QED BY <2>7, <4>1 DEF AttachInv, OpenInv
      <3>3. \A g \in FileNode : m \notin openedBy[g]
        BY <1>1 DEF AttachInv, OpenInv, Unopened
      <3>4. \A g, h \in FileNode : \A n \in openedBy'[g] : n \in openedBy'[h] => g = h
        BY <2>4, <3>3 DEF AttachInv, OpenInv
      <3>5. ASSUME NEW n \in Message, HasOpen(n)' PROVE \E g \in FileNode : n \in openedBy'[g]
        <4>1. CASE n = m
          BY <2>2, <2>4, <4>1
        <4>2. CASE n # m
          <5>1. PICK g \in FileNode : n \in openedBy[g]
            BY <2>7, <3>5, <4>2 DEF AttachInv, OpenInv
          <5>2. attachment[n].at # "dead"
            BY <2>7, <3>5, <4>2 DEF HasOpen
          <5>3. g # f => n \in openedBy'[g]
            BY <2>4, <5>1
          <5>4. n \in openedBy[f] => n \in openedBy'[f]
            BY <1>1, <1>4, <2>2, <5>2 DEF AttachTypes, ThreadAt
          <5> QED BY <2>2, <5>1, <5>3, <5>4
        <4> QED BY <4>1, <4>2
      <3> QED BY <3>1, <3>2, <3>4, <3>5 DEF OpenInv
    <2>10. \A n \in Message : HasOpen(n) /\ TempOf(n) = own => n \in clashed
      BY <1>1, <1>2 DEF AttachInv, ClashInv, HasOpen, Underway, Unnamed
    <2>11. TempInv'
      <3> SUFFICES ASSUME NEW p \in DOMAIN files', p.tmp, NEW n \in openedBy'[files'[p]]
                   PROVE  /\ TempOf(n) = p /\ (HasOpen(n) \/ n = m \/ ThreadAt(n, "dead"))
                          /\ ThreadAt(n, "renaming") => n \in wrote'[files'[p]] \/ n \in clashed
        BY <1>1, <2>1, <2>5, <2>7 DEF TempInv, AttachTypes, HasOpen
      <3>1. CASE p # own
        BY <2>2, <2>3, <2>4, <3>1, <2>5, <1>1 DEF AttachInv, TempInv, AttachTypes
      <3>2. CASE p = own
        <4>1. CASE n = m
          BY <1>1, <3>2, <4>1 DEF ThreadAt
        <4>2. CASE n # m
          <5>1. n \in openedBy[f] /\ n \in Message
            BY <1>1, <2>2, <2>3, <2>4, <3>2, <4>2 DEF AttachTypes
          <5>2. own \in DOMAIN files /\ files[own] = f
            BY <1>1, <2>2, <5>1 DEF AttachInv, OpenInv, Unopened, f
          <5>3. TempOf(n) = own /\ (HasOpen(n) \/ ThreadAt(n, "dead"))
            BY <1>2, <5>1, <5>2 DEF AttachInv, TempInv
          <5>4. ThreadAt(n, "renaming") => n \in clashed
            BY <2>10, <5>1, <5>3 DEF HasOpen, ThreadAt
          <5> QED BY <3>2, <5>3, <5>4
        <4> QED BY <4>1, <4>2
      <3> QED BY <3>1, <3>2
    <2>12. AtWorkInv'
      <3> SUFFICES ASSUME NEW n \in Message, HasOpen(n)', TempOf(n) \in DOMAIN files'
                   PROVE  /\ \A o \in openedBy'[files'[TempOf(n)]] : attachment[o].at # "dead"
                          /\ n \in clashed \/ n \in openedBy'[files'[TempOf(n)]]
        BY <1>1, <2>1, <2>3, <2>5, <2>7 DEF AtWorkInv, AttachTypes, ThreadAt
      <3>1. CASE TempOf(n) = own
        BY <1>1, <2>3, <2>4, <2>7, <2>10, <3>1
      <3>2. CASE TempOf(n) # own
        <4>1. n # m /\ HasOpen(n) /\ TempOf(n) \in DOMAIN files /\ files'[TempOf(n)] = files[TempOf(n)]
              /\ files[TempOf(n)] \in FileNode \ {f}
          BY <1>1, <2>3, <2>7, <3>2 DEF AttachTypes
        <4> QED BY <2>4, <4>1 DEF AttachInv, AtWorkInv, ThreadAt
      <3> QED BY <3>1, <3>2
    <2>13. ClashInv'
      BY <1>1, <2>1 DEF AttachInv, ClashInv, Underway, Unnamed
    <2>14. StoredIsWhole'
      <3>1. \A p \in DOMAIN files' : ~p.tmp => /\ p \in DOMAIN files /\ files'[p] = files[p]
                                               /\ openedBy'[files[p]] = openedBy[files[p]]
                                               /\ wrote'[files[p]] = wrote[files[p]]
        BY <1>1, <1>2, <2>3, <2>4 DEF AttachTypes
      <3> QED BY <1>1, <3>1 DEF AttachInv, StoredIsWhole
    <2>15. KeptInv'
      <3> SUFFICES ASSUME NEW n \in Message, attachment'[n].at \in {"saved", "left", "numbered"},
                            n \notin removed \cup clashed, attachment[n].path.dir \notin forgotten
                     PROVE  /\ attachment[n].path \in DOMAIN files'
                            /\ wrote'[files'[attachment[n].path]] = {n} /\ openedBy'[files'[attachment[n].path]] = {n}
                            /\ attachment'[n].at = "numbered" => attachment[n].path.id = n
        BY <1>1, <2>1 DEF KeptInv, Unnamed, ThreadAt
      <3>1. attachment[n].at = attachment'[n].at /\ attachment[n].path # own
        BY <1>2, <2>1
      <3>2. /\ attachment[n].path \in DOMAIN files
            /\ wrote[files[attachment[n].path]] = {n} /\ openedBy[files[attachment[n].path]] = {n}
            /\ attachment[n].at = "numbered" => attachment[n].path.id = n
        BY <3>1 DEF AttachInv, KeptInv, Unnamed, ThreadAt
      <3>3. files'[attachment[n].path] = files[attachment[n].path] /\ files[attachment[n].path] \in FileNode \ {f}
        BY <1>1, <2>3, <3>1, <3>2 DEF AttachTypes
      <3> QED BY <2>3, <2>4, <3>1, <3>2, <3>3
    <2> QED BY <2>5, <2>6, <2>8, <2>9, <2>11, <2>12, <2>13, <2>14, <2>15 DEF AttachInv
  <1> QED BY <1>3, <1>4, Zenon DEF OpensFile, TempOf

\* What is written goes to the file that the thread has opened.
LEMMA WritesFileKeeps ==
  ASSUME AttachInv, NEW m \in Message, WritesFile(m) PROVE AttachInv'
  <1> DEFINE f == CHOOSE g \in FileNode : m \in openedBy[g]
  <1>1. /\ attachment[m].at = "writing"
        /\ UNCHANGED <<openedBy, evictions, forgotten, removed, clashed>>
        /\ AttachTypes
    BY DEF AttachInv, historyVars, ThreadAt, WritesFile
  <1>2. /\ f \in FileNode /\ m \in openedBy[f]
        /\ \A g \in FileNode : m \in openedBy[g] => g = f
    <2>1. \E g \in FileNode : m \in openedBy[g]
      BY <1>1 DEF AttachInv, OpenInv, HasOpen
    <2>2. f \in FileNode /\ m \in openedBy[f]
      BY <2>1
    <2> QED BY <2>2 DEF AttachInv, OpenInv
  <1>3. CASE /\ ThreadGoes(m, "renaming") /\ UNCHANGED <<files, diskErrors>>
             /\ wrote' = [wrote EXCEPT ![f] = @ \cup {m}]
    <2>1. /\ attachment' \in [Message -> [at : AttachStates, of : Sender, path : FilePath]]
          /\ \A n \in Message : /\ attachment'[n].at = IF n = m THEN "renaming" ELSE attachment[n].at
                                /\ attachment'[n].of = attachment[n].of
                                /\ attachment'[n].path = attachment[n].path
      BY <1>1, <1>3, GoesOn DEF AttachStates, Underway
    <2>2. /\ wrote' \in [FileNode -> SUBSET Message] /\ wrote'[f] = wrote[f] \cup {m}
          /\ \A g \in FileNode \ {f} : wrote'[g] = wrote[g]
      BY <1>1, <1>2, <1>3 DEF AttachTypes
    <2> HIDE DEF f
    <2>3. AttachTypes'
      BY <1>1, <1>2, <1>3, <2>1, <2>2 DEF AttachTypes
    <2>4. \A n \in Message : /\ TempOf(n)' = TempOf(n) /\ HasOpen(n)' = HasOpen(n)
                             /\ ThreadAt(n, "dead")' = ThreadAt(n, "dead")
                             /\ attachment'[n].at \in Unopened <=> attachment[n].at \in Unopened
      BY <1>1, <2>1 DEF TempOf, Unopened, HasOpen, ThreadAt
    <2>5. ThreadInv' /\ ClashInv'
      BY <1>1, <2>1 DEF AttachInv, ThreadInv, ClashInv, Underway, Unnamed, ThreadAt
    <2>6. NodesInv'
      BY <1>3, <2>1, <2>4 DEF AttachInv, NodesInv, FilesStayWithPeer
    <2>7. OpenInv'
      BY <1>1, <2>4 DEF AttachInv, AttachTypes, OpenInv
    <2>8. TempInv'
      <3> SUFFICES ASSUME NEW p \in DOMAIN files, p.tmp, NEW n \in openedBy[files[p]]
                   PROVE  /\ TempOf(n) = p /\ (HasOpen(n) \/ ThreadAt(n, "dead"))
                          /\ ThreadAt(n, "renaming")' => n \in wrote'[files[p]] \/ n \in clashed
        BY <1>1, <1>3, <2>4 DEF TempInv, AttachTypes
      <3>1. n \in Message /\ files[p] \in FileNode
        BY <1>1 DEF AttachTypes
      <3>2. CASE n = m
        BY <1>2, <2>2, <3>1, <3>2 DEF AttachInv, TempInv
      <3>3. CASE n # m
        <4>1. ThreadAt(n, "renaming")' => ThreadAt(n, "renaming")
          BY <2>1, <3>1, <3>3 DEF ThreadAt
        <4>2. wrote[files[p]] \subseteq wrote'[files[p]]
          BY <2>2, <3>1
        <4> QED BY <4>1, <4>2 DEF AttachInv, TempInv
      <3> QED BY <3>2, <3>3
    <2>9. AtWorkInv'
      BY <1>1, <1>3, <2>4 DEF AttachInv, AttachTypes, AtWorkInv
    <2>10. StoredIsWhole'
      <3> SUFFICES ASSUME NEW p \in DOMAIN files, ~p.tmp
                   PROVE  openedBy[files[p]] = wrote'[files[p]] \/ openedBy[files[p]] \subseteq clashed
        BY <1>1, <1>3 DEF StoredIsWhole
      <3>1. files[p] \in FileNode
        BY <1>1 DEF AttachTypes
      <3>2. openedBy[files[p]] = wrote[files[p]] \/ openedBy[files[p]] \subseteq clashed
        BY DEF AttachInv, StoredIsWhole
      <3> QED BY <1>2, <2>2, <3>1, <3>2
    <2>11. KeptInv'
      <3> SUFFICES ASSUME NEW n \in Message, attachment'[n].at \in {"saved", "left", "numbered"},
                            n \notin removed \cup clashed, attachment[n].path.dir \notin forgotten
                     PROVE  /\ attachment[n].path \in DOMAIN files
                            /\ wrote'[files[attachment[n].path]] = {n} /\ openedBy[files[attachment[n].path]] = {n}
                            /\ attachment'[n].at = "numbered" => attachment[n].path.id = n
        BY <1>1, <1>3, <2>1 DEF KeptInv, Unnamed, ThreadAt
      <3>1. attachment[n].at = attachment'[n].at
        BY <2>1
      <3>2. /\ attachment[n].path \in DOMAIN files
            /\ wrote[files[attachment[n].path]] = {n} /\ openedBy[files[attachment[n].path]] = {n}
            /\ attachment[n].at = "numbered" => attachment[n].path.id = n
        BY <3>1 DEF AttachInv, KeptInv, Unnamed, ThreadAt
      <3>3. files[attachment[n].path] \in FileNode
        BY <1>1, <3>2 DEF AttachTypes
      <3> QED BY <1>2, <2>2, <3>1, <3>2, <3>3
    <2> QED BY <2>3, <2>5, <2>6, <2>7, <2>8, <2>9, <2>10, <2>11 DEF AttachInv
  <1>4. CASE /\ diskErrors' = diskErrors + 1 /\ ThreadGoes(m, "failed")
             /\ files' = Unlinked(TempOf(m)) /\ UNCHANGED wrote
    <2>1. /\ attachment' \in [Message -> [at : AttachStates, of : Sender, path : FilePath]]
          /\ \A n \in Message : /\ attachment'[n].at = IF n = m THEN "failed" ELSE attachment[n].at
                                /\ attachment'[n].of = attachment[n].of
                                /\ attachment'[n].path = attachment[n].path
      BY <1>1, <1>4, GoesOn DEF AttachStates
    <2>2. DOMAIN files' = DOMAIN files \ {TempOf(m)} /\ \A q \in DOMAIN files' : files'[q] = files[q]
      BY <1>4, UnlinkedFiles
    <2>3. \A n \in Message : ThreadMoves(n)
      BY <1>1, <2>1, <2>2 DEF ThreadMoves
    <2>4. TempOf(m).tmp
      BY <1>1, TemporaryPaths DEF AttachTypes, TempOf
    <2>5. diskErrors' \in Nat /\ evictions' \in Nat
      BY <1>1, <1>4 DEF AttachTypes
    <2>6. \A p \in DOMAIN files : p \in DOMAIN files' \/ p.tmp
      BY <2>2, <2>4
    <2> QED BY <1>1, <1>4, <2>1, <2>2, <2>3, <2>5, <2>6, NothingIsWritten
  <1> QED BY <1>3, <1>4, Zenon DEF WritesFile, TempOf

\* The temporary file takes its place: who has opened it has written it, or clashes.
LEMMA RenamesFileKeeps ==
  ASSUME AttachInv, NEW m \in Message, RenamesFile(m) PROVE AttachInv'
  <1> DEFINE from == TempOf(m)
             to == attachment[m].path
             g == files[from]
  <1>1. /\ attachment[m].at = "renaming"
        /\ UNCHANGED <<openedBy, wrote, diskErrors, evictions, forgotten, removed, clashed>>
        /\ AttachTypes
    BY DEF AttachInv, countVars, historyVars, ThreadAt, RenamesFile
  <1>2. /\ to \in FilePath /\ ~to.tmp /\ to.dir = attachment[m].of
        /\ from \in FilePath /\ from.tmp /\ from.dir = to.dir
        /\ \A n \in Message : attachment[n].at # "new" /\ TempOf(n) = from => attachment[n].path = to
        /\ \A n \in Message : TempOf(n).tmp
    <2>1. to \in FilePath /\ ~to.tmp /\ to.dir = attachment[m].of
      BY <1>1 DEF AttachInv, ThreadInv, AttachTypes, ThreadAt
    <2>2. \A n \in Message : /\ attachment[n].path \in FilePath
                             /\ attachment[n].at # "new" => ~attachment[n].path.tmp
      BY <1>1 DEF AttachInv, ThreadInv, AttachTypes, ThreadAt
    <2>3. /\ from \in FilePath /\ from.tmp /\ from.dir = to.dir
          /\ \A q \in FilePath : from = Temporary(q) /\ ~q.tmp => to = q
      BY <2>1, TemporaryPaths DEF TempOf
    <2>4. ASSUME NEW n \in Message, attachment[n].at # "new", TempOf(n) = from PROVE attachment[n].path = to
      BY <2>2, <2>3, <2>4 DEF TempOf
    <2>5. \A n \in Message : TempOf(n).tmp
      BY <2>2, TemporaryPaths DEF TempOf
    <2> HIDE DEF from, to
    <2> QED BY <2>1, <2>3, <2>4, <2>5
  <1>3. CASE from \notin DOMAIN files /\ ThreadGoes(m, "failed") /\ UNCHANGED files
    <2>1. /\ attachment' \in [Message -> [at : AttachStates, of : Sender, path : FilePath]]
          /\ \A n \in Message : /\ attachment'[n].at = IF n = m THEN "failed" ELSE attachment[n].at
                                /\ attachment'[n].of = attachment[n].of
                                /\ attachment'[n].path = attachment[n].path
      BY <1>1, <1>3, GoesOn DEF AttachStates
    <2>2. \A n \in Message : ThreadMoves(n)
      BY <1>1, <1>3, <2>1 DEF ThreadMoves
    <2> QED BY <1>1, <1>3, <2>1, <2>2, NothingIsWritten DEF AttachTypes
  <1>4. CASE from \in DOMAIN files /\ ThreadGoes(m, "saved") /\ files' = Moved(from, to)
    <2>1. /\ attachment' \in [Message -> [at : AttachStates, of : Sender, path : FilePath]]
          /\ \A n \in Message : /\ attachment'[n].at = IF n = m THEN "saved" ELSE attachment[n].at
                                /\ attachment'[n].of = attachment[n].of
                                /\ attachment'[n].path = attachment[n].path
      BY <1>1, <1>4, GoesOn DEF AttachStates, Unnamed
    <2>2. /\ DOMAIN files' = (DOMAIN files \ {from}) \cup {to} /\ files'[to] = g
          /\ \A q \in DOMAIN files' : q # to => q \in DOMAIN files /\ q # from /\ files'[q] = files[q]
      BY <1>4, MovedFiles
    <2>3. /\ g \in Message /\ g \in FileNode /\ attachment[g].at \notin Unopened /\ to.dir = attachment[g].of
          /\ \A q \in DOMAIN files : files[q] = g => q = from
      BY <1>1, <1>2, <1>4 DEF AttachInv, AttachTypes, NodesInv, FilesStayWithPeer, FileNode
    <2>4. AttachTypes'
      BY <1>1, <1>2, <2>1, <2>2, <2>3 DEF AttachTypes
    <2>5. ThreadInv' /\ ClashInv'
      BY <1>1, <2>1 DEF AttachInv, ThreadInv, ClashInv, Underway, Unnamed, ThreadAt
    <2>6. \A n \in Message : /\ TempOf(n)' = TempOf(n)
                             /\ n # m => HasOpen(n)' = HasOpen(n)
                             /\ ThreadAt(n, "dead")' = ThreadAt(n, "dead")
                             /\ n # m => ThreadAt(n, "renaming")' = ThreadAt(n, "renaming")
                             /\ attachment'[n].at \in Unopened <=> attachment[n].at \in Unopened
      BY <1>1, <2>1 DEF TempOf, Unopened, HasOpen, ThreadAt
    <2>7. ~HasOpen(m)'
      BY <2>1 DEF HasOpen
    <2>8. NodesInv'
      <3>1. \A p, q \in DOMAIN files' : files'[p] = files'[q] => p = q
        BY <2>2, <2>3 DEF AttachInv, NodesInv
      <3>2. \A p \in DOMAIN files' : /\ files'[p] \in Message => attachment'[files'[p]].at \notin Unopened
                                     /\ files'[p] \in Sender => ~p.tmp
        BY <1>2, <2>2, <2>3, <2>6 DEF AttachInv, NodesInv
      <3>3. \A p \in DOMAIN files' :
               IF files'[p] \in Message THEN p.dir = attachment'[files'[p]].of ELSE p.id = files'[p]
        BY <2>1, <2>2, <2>3 DEF AttachInv, NodesInv, FilesStayWithPeer
      <3> QED BY <3>1, <3>2, <3>3 DEF NodesInv, FilesStayWithPeer
    <2>9. OpenInv'
      BY <1>1, <2>6, <2>7 DEF AttachInv, AttachTypes, OpenInv
    <2>10. \A p \in DOMAIN files' : p.tmp => p \in DOMAIN files /\ p # from /\ files'[p] = files[p]
      BY <1>2, <2>2
    <2>11. TempInv'
      <3> SUFFICES ASSUME NEW p \in DOMAIN files', p.tmp, NEW n \in openedBy[files'[p]]
                   PROVE  /\ TempOf(n) = p /\ (HasOpen(n)' \/ ThreadAt(n, "dead"))
                          /\ ThreadAt(n, "renaming")' => n \in wrote[files'[p]] \/ n \in clashed
        BY <1>1, <2>4, <2>6 DEF TempInv, AttachTypes
      <3>1. n \in Message
        BY <1>1, <2>10 DEF AttachTypes
      <3>2. n # m
        BY <2>10 DEF AttachInv, TempInv
      <3> QED BY <2>6, <2>10, <3>1, <3>2 DEF AttachInv, TempInv
    <2>12. AtWorkInv'
      <3> SUFFICES ASSUME NEW n \in Message, HasOpen(n)', TempOf(n) \in DOMAIN files'
                   PROVE  /\ \A o \in openedBy[files'[TempOf(n)]] : ~ThreadAt(o, "dead")
                          /\ n \in clashed \/ n \in openedBy[files'[TempOf(n)]]
        BY <1>1, <2>4, <2>6 DEF AtWorkInv, AttachTypes
      <3>1. HasOpen(n) /\ TempOf(n) \in DOMAIN files /\ files'[TempOf(n)] = files[TempOf(n)]
        BY <1>2, <2>6, <2>7, <2>10
      <3> QED BY <3>1 DEF AttachInv, AtWorkInv
    \* Who has opened the file.
    <2>13. \A n \in openedBy[g] : /\ n \in Message /\ HasOpen(n) /\ attachment[n].path = to
                                  /\ n # m => n \in clashed
      <3>1. ASSUME NEW n \in openedBy[g] PROVE n \in Message /\ HasOpen(n) /\ attachment[n].path = to
        <4>1. n \in Message
          BY <1>1, <2>3 DEF AttachTypes
        <4>2. ~ThreadAt(n, "dead")
          BY <1>1, <1>4, <3>1 DEF AttachInv, AtWorkInv, HasOpen
        <4>3. TempOf(n) = from /\ HasOpen(n)
          BY <1>2, <1>4, <4>2 DEF AttachInv, TempInv
        <4> QED BY <1>2, <4>1, <4>3 DEF HasOpen
      <3>2. \A n \in Message : n # m /\ HasOpen(n) /\ attachment[n].path = to => n \in clashed
        BY <1>1 DEF AttachInv, ClashInv, HasOpen, Underway, Unnamed
      <3> QED BY <3>1, <3>2
    <2>14. m \in clashed \/ (openedBy[g] = {m} /\ wrote[g] = {m})
      <3>1. m \in clashed \/ m \in openedBy[g]
        BY <1>1, <1>4 DEF AttachInv, AtWorkInv, HasOpen
      <3>2. \A n \in openedBy[g] : n # m => m \in clashed
        BY <1>1, <2>13 DEF AttachInv, ClashInv, HasOpen, Underway, Unnamed
      <3>3. m \in openedBy[g] => m \in wrote[g] \/ m \in clashed
        BY <1>1, <1>2, <1>4 DEF AttachInv, TempInv, ThreadAt
      <3>4. wrote[g] \subseteq openedBy[g]
        BY <1>1, <2>3 DEF AttachTypes
      <3>5. CASE m \notin clashed
        <4>1. m \in openedBy[g] /\ m \in wrote[g] /\ \A n \in openedBy[g] : n = m
          BY <3>1, <3>2, <3>3, <3>5
        <4> QED BY <3>4, <4>1
      <3> QED BY <3>5
    <2> HIDE DEF g, from, to
    <2>15. StoredIsWhole'
      <3> SUFFICES ASSUME NEW p \in DOMAIN files', ~p.tmp
                   PROVE  openedBy[files'[p]] = wrote[files'[p]] \/ openedBy[files'[p]] \subseteq clashed
        BY <1>1 DEF StoredIsWhole
      <3>1. CASE p = to
        <4>1. m \in clashed => openedBy[g] \subseteq clashed
          BY <2>13
        <4> QED BY <2>2, <2>14, <3>1, <4>1
      <3>2. CASE p # to
        BY <2>2, <3>2 DEF AttachInv, StoredIsWhole
      <3> QED BY <3>1, <3>2
    <2>16. KeptInv'
      <3> SUFFICES ASSUME NEW n \in Message, attachment'[n].at \in {"saved", "left", "numbered"},
                            n \notin removed \cup clashed, attachment[n].path.dir \notin forgotten
                     PROVE  /\ attachment[n].path \in DOMAIN files'
                            /\ wrote[files'[attachment[n].path]] = {n} /\ openedBy[files'[attachment[n].path]] = {n}
                            /\ attachment'[n].at = "numbered" => attachment[n].path.id = n
        BY <1>1, <2>1 DEF KeptInv, Unnamed, ThreadAt
      <3>1. CASE n = m
        BY <2>1, <2>2, <2>14, <3>1 DEF to
      <3>2. CASE n # m
        <4>1. attachment[n].at = attachment'[n].at
          BY <2>1, <3>2
        <4>2. /\ attachment[n].path \in DOMAIN files
              /\ wrote[files[attachment[n].path]] = {n} /\ openedBy[files[attachment[n].path]] = {n}
              /\ attachment[n].at = "numbered" => attachment[n].path.id = n
          BY <4>1 DEF AttachInv, KeptInv, Unnamed, ThreadAt
        <4>3. ~attachment[n].path.tmp
          BY <4>1 DEF AttachInv, ThreadInv, ThreadAt
        <4>4. attachment[n].path # to
          <5>1. attachment[n].at # "numbered" => attachment[n].path # to
            BY <1>1, <3>2, <4>1 DEF AttachInv, ClashInv, Underway, Unnamed, to
          <5>2. to.id \in {m, Unnumbered}
            BY <1>1 DEF AttachInv, ThreadInv, ThreadAt, to
          <5>3. attachment[n].at = "numbered" => attachment[n].path # to
            BY <3>2, <4>2, <5>2, NamesDiffer
          <5> QED BY <5>1, <5>3
        <4>5. attachment[n].path \in DOMAIN files'
          BY <1>2, <2>2, <4>2, <4>3
        <4> QED BY <2>2, <4>1, <4>2, <4>4, <4>5
      <3> QED BY <3>1, <3>2
    <2> QED BY <2>4, <2>5, <2>8, <2>9, <2>11, <2>12, <2>15, <2>16 DEF AttachInv
  <1> QED BY <1>3, <1>4, Zenon DEF RenamesFile, TempOf

\* A saved file gets its number; nobody else has a path with it.
LEMMA RenamesForMessageKeeps ==
  ASSUME AttachInv, NEW m \in Message, RenamesForMessage(m) PROVE AttachInv'
  <1> DEFINE own == attachment[m].path
             new == [own EXCEPT !.id = m]
             g == files[own]
  <1>1. /\ attachment[m].at = "saved" /\ own.id = Unnumbered
        /\ UNCHANGED <<openedBy, wrote, diskErrors, evictions, forgotten, removed, clashed>>
        /\ AttachTypes
    BY DEF AttachInv, countVars, historyVars, ThreadAt, RenamesForMessage
  <1>2. /\ own \in FilePath /\ ~own.tmp /\ own.dir = attachment[m].of
        /\ new \in FilePath /\ ~new.tmp /\ new.dir = own.dir /\ new.id = m
        /\ \A n \in Message : TempOf(n).tmp
    <2>1. own \in FilePath /\ ~own.tmp /\ own.dir = attachment[m].of
      BY <1>1 DEF AttachInv, ThreadInv, AttachTypes, ThreadAt
    <2>2. new \in FilePath /\ new.tmp = own.tmp /\ new.dir = own.dir /\ new.id = m
      BY <2>1 DEF FilePath
    <2>3. \A n \in Message : TempOf(n).tmp
      BY <1>1, TemporaryPaths DEF AttachTypes, TempOf
    <2> QED BY <2>1, <2>2, <2>3
  <1>3. CASE own \notin DOMAIN files /\ ThreadGoes(m, "numbered") /\ UNCHANGED files
    <2>1. /\ attachment' \in [Message -> [at : AttachStates, of : Sender, path : FilePath]]
          /\ \A n \in Message : /\ attachment'[n].at = IF n = m THEN "numbered" ELSE attachment[n].at
                                /\ attachment'[n].of = attachment[n].of
                                /\ attachment'[n].path = attachment[n].path
      BY <1>1, <1>3, GoesOn DEF AttachStates
    <2>2. \A n \in Message : ThreadMoves(n)
      BY <1>1, <1>3, <2>1 DEF ThreadMoves
    <2> QED BY <1>1, <1>3, <2>1, <2>2, NothingIsWritten DEF AttachTypes
  <1>4. CASE /\ own \in DOMAIN files /\ files' = Moved(own, new)
             /\ attachment' = [attachment EXCEPT ![m] = [@ EXCEPT !.at = "numbered", !.path = new]]
    <2>1. /\ attachment' \in [Message -> [at : AttachStates, of : Sender, path : FilePath]]
          /\ \A n \in Message : attachment'[n].of = attachment[n].of
          /\ \A n \in Message \ {m} : attachment'[n].at = attachment[n].at /\ attachment'[n].path = attachment[n].path
          /\ attachment'[m].at = "numbered" /\ attachment'[m].path = new
      BY <1>1, <1>2, <1>4 DEF AttachTypes, AttachStates
    <2>2. /\ DOMAIN files' = (DOMAIN files \ {own}) \cup {new} /\ files'[new] = g
          /\ \A q \in DOMAIN files' : q # new => q \in DOMAIN files /\ q # own /\ files'[q] = files[q]
      BY <1>4, MovedFiles
    <2>3. /\ g \in Message /\ g \in FileNode /\ attachment[g].at \notin Unopened /\ own.dir = attachment[g].of
          /\ \A q \in DOMAIN files : files[q] = g => q = own
      <3>1. g \in FileNode
        BY <1>1, <1>4 DEF AttachTypes
      <3>2. g \in Message
        BY <1>1, <1>4, <3>1, NamesDiffer DEF AttachInv, NodesInv, FilesStayWithPeer, FileNode
      <3> QED BY <1>4, <3>1, <3>2 DEF AttachInv, NodesInv, FilesStayWithPeer
    <2> HIDE DEF g, new
    <2>4. AttachTypes'
      BY <1>1, <1>2, <2>1, <2>2, <2>3 DEF AttachTypes
    <2>5. ThreadInv'
      BY <1>1, <1>2, <2>1 DEF AttachInv, ThreadInv, ThreadAt
    <2>6. ClashInv'
      BY <1>1, <2>1 DEF AttachInv, ClashInv, Underway, Unnamed
    <2>7. \A n \in Message : /\ n # m => TempOf(n)' = TempOf(n)
                             /\ HasOpen(n)' = HasOpen(n)
                             /\ ThreadAt(n, "dead")' = ThreadAt(n, "dead")
                             /\ ThreadAt(n, "renaming")' = ThreadAt(n, "renaming")
                             /\ attachment'[n].at \in Unopened <=> attachment[n].at \in Unopened
      BY <1>1, <2>1 DEF TempOf, Unopened, HasOpen, ThreadAt
    <2>8. ~HasOpen(m) /\ ~ThreadAt(m, "dead")
      BY <1>1 DEF HasOpen, ThreadAt
    <2>9. NodesInv'
      <3>1. \A p, q \in DOMAIN files' : files'[p] = files'[q] => p = q
        BY <2>2, <2>3 DEF AttachInv, NodesInv
      <3>2. \A p \in DOMAIN files' : /\ files'[p] \in Message => attachment'[files'[p]].at \notin Unopened
                                     /\ files'[p] \in Sender => ~p.tmp
        BY <1>2, <2>2, <2>3, <2>7 DEF AttachInv, NodesInv
      <3>3. \A p \in DOMAIN files' :
               IF files'[p] \in Message THEN p.dir = attachment'[files'[p]].of ELSE p.id = files'[p]
        BY <1>2, <2>1, <2>2, <2>3 DEF AttachInv, NodesInv, FilesStayWithPeer
      <3> QED BY <3>1, <3>2, <3>3 DEF NodesInv, FilesStayWithPeer
    <2>10. OpenInv'
      BY <1>1, <2>7 DEF AttachInv, AttachTypes, OpenInv
    <2>11. \A p \in DOMAIN files' : p.tmp => p \in DOMAIN files /\ files'[p] = files[p]
      BY <1>2, <2>2
    <2>12. TempInv'
      <3> SUFFICES ASSUME NEW p \in DOMAIN files', p.tmp, NEW n \in openedBy[files'[p]]
                   PROVE  /\ TempOf(n)' = p /\ (HasOpen(n) \/ ThreadAt(n, "dead"))
                          /\ ThreadAt(n, "renaming") => n \in wrote[files'[p]] \/ n \in clashed
        BY <1>1, <2>4, <2>7 DEF TempInv, AttachTypes
      <3>1. n \in Message
        BY <1>1, <2>11 DEF AttachTypes
      <3>2. n # m
        BY <2>8, <2>11 DEF AttachInv, TempInv
      <3> QED BY <2>7, <2>11, <3>1, <3>2 DEF AttachInv, TempInv
    <2>13. AtWorkInv'
      <3> SUFFICES ASSUME NEW n \in Message, HasOpen(n), n # m, TempOf(n) \in DOMAIN files'
                   PROVE  /\ \A o \in openedBy[files'[TempOf(n)]] : ~ThreadAt(o, "dead")
                          /\ n \in clashed \/ n \in openedBy[files'[TempOf(n)]]
        BY <1>1, <2>4, <2>7, <2>8 DEF AtWorkInv, AttachTypes
      <3>1. TempOf(n) \in DOMAIN files /\ files'[TempOf(n)] = files[TempOf(n)]
        BY <1>2, <2>11
      <3> QED BY <3>1 DEF AttachInv, AtWorkInv
    <2>14. StoredIsWhole'
      <3> SUFFICES ASSUME NEW p \in DOMAIN files', ~p.tmp
                   PROVE  openedBy[files'[p]] = wrote[files'[p]] \/ openedBy[files'[p]] \subseteq clashed
        BY <1>1 DEF StoredIsWhole
      <3>1. CASE p = new
        BY <1>2, <1>4, <2>2, <3>1 DEF AttachInv, StoredIsWhole, g
      <3>2. CASE p # new
        BY <2>2, <3>2 DEF AttachInv, StoredIsWhole
      <3> QED BY <3>1, <3>2
    <2>15. KeptInv'
      <3> SUFFICES ASSUME NEW n \in Message, attachment'[n].at \in {"saved", "left", "numbered"},
                            n \notin removed \cup clashed, attachment'[n].path.dir \notin forgotten
                     PROVE  /\ attachment'[n].path \in DOMAIN files'
                            /\ wrote[files'[attachment'[n].path]] = {n} /\ openedBy[files'[attachment'[n].path]] = {n}
                            /\ attachment'[n].at = "numbered" => attachment'[n].path.id = n
        BY <1>1, <2>1 DEF KeptInv, Unnamed, ThreadAt
      <3>1. CASE n = m
        <4>1. wrote[g] = {m} /\ openedBy[g] = {m}
          BY <1>1, <1>2, <2>1, <3>1 DEF AttachInv, KeptInv, Unnamed, ThreadAt, g
        <4> QED BY <1>2, <2>1, <2>2, <3>1, <4>1
      <3>2. CASE n # m
        <4>1. attachment[n].at = attachment'[n].at /\ attachment'[n].path = attachment[n].path
          BY <2>1, <3>2
        <4>2. /\ attachment[n].path \in DOMAIN files
              /\ wrote[files[attachment[n].path]] = {n} /\ openedBy[files[attachment[n].path]] = {n}
              /\ attachment[n].at = "numbered" => attachment[n].path.id = n
          BY <4>1 DEF AttachInv, KeptInv, Unnamed, ThreadAt
        <4>3. attachment[n].path.id \in {n, Unnumbered}
          BY <4>1 DEF AttachInv, ThreadInv, ThreadAt
        <4>4. attachment[n].path # new
          BY <1>2, <3>2, <4>3, NamesDiffer
        <4>5. attachment[n].path # own
          <5>1. attachment[n].at # "numbered" => attachment[n].path # own
            BY <1>1, <3>2, <4>1 DEF AttachInv, ClashInv, Underway, Unnamed
          <5>2. attachment[n].at = "numbered" => attachment[n].path # own
            BY <1>1, <4>2, NamesDiffer
          <5> QED BY <5>1, <5>2
        <4>6. attachment[n].path \in DOMAIN files'
          BY <2>2, <4>2, <4>5
        <4> QED BY <2>2, <4>1, <4>2, <4>4, <4>6
      <3> QED BY <3>1, <3>2
    <2> QED BY <2>4, <2>5, <2>6, <2>9, <2>10, <2>12, <2>13, <2>14, <2>15 DEF AttachInv
  <1> QED BY <1>3, <1>4, Zenon DEF RenamesForMessage

\* The other steps write nothing: files go, and why is on record.
LEMMA OthersKeep ==
  ASSUME AttachInv, DeletionInv,
         \/ \E m \in Message : MakesDir(m) \/ DeleteFile(m)
         \/ \E s \in Sender : DeleteBegins(s)
         \/ DeleteLists \/ DeleteUnlinks
         \/ EnforceMeasures \/ EnforceLists \/ EnforceEvicts \/ EnforceTidies \/ StoreDies
  PROVE  AttachInv'
  <1>1. AttachTypes
    BY DEF AttachInv
  <1> DEFINE Same == \A m \in Message : ThreadMoves(m)
             Gone == \A p \in DOMAIN files : \/ p \in DOMAIN files' \/ wrote[files[p]] \subseteq removed'
                                            \/ p.dir \in forgotten' \cup {Legacy}
             Less == DOMAIN files' \subseteq DOMAIN files /\ \A p \in DOMAIN files' : files'[p] = files[p]
             Rest == /\ UNCHANGED <<openedBy, wrote, clashed>> /\ diskErrors' \in Nat /\ evictions' \in Nat
                     /\ removed \subseteq removed' /\ forgotten \subseteq forgotten'
  <1>2. UNCHANGED attachment => Same
    BY DEF ThreadMoves
  <1>3. UNCHANGED files => Less /\ Gone
    OBVIOUS
  <1>4. ASSUME UNCHANGED attachment, Less, Gone, Rest PROVE AttachInv'
    BY <1>1, <1>2, <1>4, NothingIsWritten DEF AttachTypes
  <1>5. ASSUME UNCHANGED <<attachment, files, openedBy, wrote, clashed, removed, diskErrors>>,
               forgotten \subseteq forgotten', evictions' \in Nat
        PROVE  AttachInv'
    BY <1>1, <1>3, <1>4, <1>5 DEF AttachTypes
  <1>6. ASSUME NEW m \in Message, MakesDir(m) PROVE AttachInv'
    <2>1. /\ attachment[m].at = "making" /\ ThreadGoes(m, "opening")
          /\ UNCHANGED <<files, openedBy, wrote, clashed, removed, forgotten, diskErrors, evictions>>
      BY <1>6 DEF MakesDir, ThreadAt, countVars, historyVars
    <2>2. /\ attachment' \in [Message -> [at : AttachStates, of : Sender, path : FilePath]]
          /\ \A n \in Message : /\ attachment'[n].at = IF n = m THEN "opening" ELSE attachment[n].at
                                /\ attachment'[n].of = attachment[n].of
                                /\ attachment'[n].path = attachment[n].path
      BY <1>1, <2>1, GoesOn DEF AttachStates, Underway
    <2>3. Same
      BY <2>1, <2>2 DEF ThreadMoves
    <2> QED BY <1>1, <1>3, <2>1, <2>2, <2>3, NothingIsWritten DEF AttachTypes
  <1>7. ASSUME NEW m \in Message, DeleteFile(m) PROVE AttachInv'
    <2>1. /\ files' = Unlinked(attachment[m].path) /\ removed' = removed \cup {m} \cup wrote[files[attachment[m].path]]
          /\ UNCHANGED <<attachment, openedBy, wrote, clashed, forgotten, diskErrors, evictions>>
      BY <1>7 DEF DeleteFile
    <2>2. DOMAIN files' = DOMAIN files \ {attachment[m].path} /\ \A q \in DOMAIN files' : files'[q] = files[q]
      BY <2>1, UnlinkedFiles
    <2>3. Less /\ Gone
      BY <2>1, <2>2
    <2> QED BY <1>1, <1>4, <2>1, <2>3 DEF AttachTypes
  <1>8. ASSUME NEW s \in Sender, DeleteBegins(s) PROVE AttachInv'
    BY <1>1, <1>5, <1>8 DEF DeleteBegins, storedVars, AttachTypes
  <1>9. CASE DeleteLists
    BY <1>1, <1>5, <1>9 DEF DeleteLists, storedVars, countVars, historyVars, AttachTypes
  <1>10. CASE DeleteUnlinks
    <2>1. UNCHANGED <<attachment, openedBy, wrote, clashed, removed, forgotten, diskErrors, evictions>>
      BY <1>10 DEF DeleteUnlinks, countVars, historyVars
    <2>2. UNCHANGED files \/ \E p \in deletion.left : files' = Unlinked(p)
      BY <1>10, Zenon DEF DeleteUnlinks
    <2>3. ASSUME NEW p \in deletion.left, files' = Unlinked(p) PROVE Less /\ Gone
      <3>1. p.dir \in forgotten' \cup {Legacy}
        BY <2>1 DEF DeletionInv
      <3>2. DOMAIN files' = DOMAIN files \ {p} /\ \A q \in DOMAIN files' : files'[q] = files[q]
        BY <2>3, UnlinkedFiles
      <3> QED BY <3>1, <3>2
    <2>4. Less /\ Gone
      BY <1>3, <2>2, <2>3
    <2> QED BY <1>1, <1>4, <2>1, <2>4 DEF AttachTypes
  <1>11. CASE EnforceMeasures
    BY <1>1, <1>5, <1>11 DEF EnforceMeasures, storedVars, historyVars, AttachTypes
  <1>12. CASE EnforceLists
    BY <1>1, <1>5, <1>12 DEF EnforceLists, storedVars, countVars, historyVars, AttachTypes
  <1>13. CASE EnforceEvicts
    <2>1. UNCHANGED <<attachment, openedBy, wrote, clashed, forgotten, diskErrors, evictions>>
      BY <1>13 DEF EnforceEvicts
    <2>2. \/ UNCHANGED <<files, removed>>
          \/ \E p \in DOMAIN files : files' = Unlinked(p) /\ removed' = removed \cup wrote[files[p]]
      BY <1>13, Zenon DEF EnforceEvicts
    <2>3. ASSUME NEW p \in DOMAIN files, files' = Unlinked(p), removed' = removed \cup wrote[files[p]]
          PROVE  Less /\ Gone
      <3>1. DOMAIN files' = DOMAIN files \ {p} /\ \A q \in DOMAIN files' : files'[q] = files[q]
        BY <2>3, UnlinkedFiles
      <3> QED BY <2>3, <3>1
    <2>4. Less /\ Gone /\ removed \subseteq removed'
      BY <1>3, <2>2, <2>3
    <2> QED BY <1>1, <1>4, <2>1, <2>4 DEF AttachTypes
  <1>14. CASE EnforceTidies
    BY <1>1, <1>5, <1>14 DEF EnforceTidies, countVars, historyVars, AttachTypes
  <1>15. CASE StoreDies
    <2>1. /\ attachment' = [m \in Message |-> IF attachment[m].at \in Underway THEN [attachment[m] EXCEPT !.at = "dead"]
                                              ELSE IF attachment[m].at = "saved" THEN [attachment[m] EXCEPT !.at = "left"]
                                              ELSE attachment[m]]
          /\ UNCHANGED <<files, openedBy, wrote, clashed, removed, forgotten, diskErrors, evictions>>
      BY <1>15 DEF StoreDies, ThreadAt, storedVars, historyVars
    <2>2. attachment' \in [Message -> [at : AttachStates, of : Sender, path : FilePath]]
      BY <1>1, <2>1 DEF AttachTypes, AttachStates, Unnamed
    <2>3. \A m \in Message :
             /\ attachment'[m].of = attachment[m].of /\ attachment'[m].path = attachment[m].path
             /\ attachment'[m].at = IF attachment[m].at \in Underway THEN "dead"
                                    ELSE IF attachment[m].at = "saved" THEN "left" ELSE attachment[m].at
      BY <1>1, <2>1 DEF AttachTypes
    <2>4. Same
      BY <2>3 DEF ThreadMoves
    <2>5. \A n \in Message : attachment'[n].at \notin Underway
      BY <2>3 DEF Underway
    <2> QED BY <1>1, <1>3, <2>1, <2>2, <2>4, <2>5, NothingIsWritten DEF AttachTypes
  <1> QED BY <1>6, <1>7, <1>8, <1>9, <1>10, <1>11, <1>12, <1>13, <1>14, <1>15

\* What a deletion has listed is in the directory it deletes.
LEMMA DeletionsAreKnown ==
  ASSUME DeletionInv, AttachmentNext PROVE DeletionInv'
  <1>1. CASE UNCHANGED <<deletion, forgotten>>
    BY <1>1 DEF DeletionInv
  <1>2. ASSUME NEW m \in Message,
               \/ SaveLooks(m) \/ TakesLegacy(m) \/ MakesDir(m)
               \/ OpensFile(m) \/ WritesFile(m) \/ RenamesFile(m) \/ RenamesForMessage(m) \/ DeleteFile(m)
        PROVE  UNCHANGED <<deletion, forgotten>>
    BY <1>2 DEF SaveLooks, TakesLegacy, MakesDir, OpensFile, WritesFile, RenamesFile, RenamesForMessage, DeleteFile,
                historyVars
  <1>3. ASSUME NEW s \in Sender, DeleteBegins(s) PROVE DeletionInv'
    <2>1. PICK d \in {s, Legacy} : /\ deletion' = [at |-> "listing", of |-> d, left |-> {}]
                                   /\ forgotten' = forgotten \cup IF d = Legacy THEN Sender ELSE {s}
      BY <1>3 DEF DeleteBegins
    <2>2. d \in forgotten' \cup {Legacy}
      BY <2>1
    <2> QED BY <2>1, <2>2 DEF DeletionInv
  <1>4. CASE DeleteLists
    <2>1. /\ deletion.at = "listing" /\ UNCHANGED forgotten
          /\ deletion' = IF deletion.of \in folders
                         THEN [deletion EXCEPT !.at = "unlinking", !.left = Inside(deletion.of)] ELSE IdleDeletion
      BY <1>4 DEF DeleteLists, historyVars
    <2> QED BY <2>1 DEF DeletionInv, IdleDeletion, Inside
  <1>5. CASE DeleteUnlinks
    <2>1. /\ deletion.at = "unlinking" /\ UNCHANGED forgotten
          /\ \/ \E p \in deletion.left : deletion' = [deletion EXCEPT !.left = @ \ {p}]
             \/ deletion' = IdleDeletion
      BY <1>5, Zenon DEF DeleteUnlinks, historyVars
    <2> QED BY <2>1 DEF DeletionInv, IdleDeletion
  <1>6. CASE EnforceMeasures \/ EnforceLists \/ EnforceEvicts \/ EnforceTidies
    BY <1>1, <1>6 DEF EnforceMeasures, EnforceLists, EnforceEvicts, EnforceTidies, historyVars
  <1>7. CASE StoreDies
    BY <1>7 DEF StoreDies, DeletionInv, IdleDeletion, historyVars
  <1> QED BY <1>1, <1>2, <1>3, <1>4, <1>5, <1>6, <1>7 DEF AttachmentNext

\* A directory and a temporary file that go have given the saves that need them their excuse.
LEMMA FailuresAreExcused ==
  ASSUME AttachInv, DeletionInv, FailInv, AttachmentNext PROVE FailInv'
  <1> DEFINE Grows == /\ forgotten \subseteq forgotten' /\ clashed \subseteq clashed'
                      /\ diskErrors > 0 => diskErrors' > 0
                      /\ evictions > 0 => evictions' > 0
             Frees == eviction'.at # "idle" => evictions' > 0
             Reaches(m, st) == \A n \in Message : /\ attachment'[n].at = IF n = m THEN st ELSE attachment[n].at
                                              /\ attachment'[n].of = attachment[n].of
                                              /\ attachment'[n].path = attachment[n].path
  <1>1. AttachTypes
    BY DEF AttachInv
  <1>2. \A n \in Message :
           /\ attachment[n].of \in Sender /\ attachment[n].of # Legacy
           /\ TempOf(n).tmp
           /\ attachment[n].at # "new" => /\ TempOf(n).dir = attachment[n].of /\ attachment[n].path.dir = attachment[n].of
                                         /\ ~attachment[n].path.tmp
    <2>1. \A n \in Message : attachment[n].of \in Sender /\ attachment[n].path \in FilePath
      BY <1>1 DEF AttachTypes
    <2>2. \A n \in Message : TempOf(n).tmp /\ TempOf(n).dir = attachment[n].path.dir
      BY <2>1, TemporaryPaths DEF TempOf
    <2>3. \A n \in Message : attachment[n].at # "new" =>
             attachment[n].path.dir = attachment[n].of /\ ~attachment[n].path.tmp
      BY DEF AttachInv, ThreadInv, ThreadAt
    <2> QED BY <2>1, <2>2, <2>3, NamesDiffer
  <1>3. ASSUME NEW m \in Message, NEW st \in AttachStates, ThreadGoes(m, st) PROVE Reaches(m, st)
    BY <1>1, <1>3, GoesOn
  \* What a step must show: only a thread that comes to open, to write or to fail needs a new reason.
  <1>4. ASSUME Grows, Frees,
               \A n \in Message : attachment'[n].of = attachment[n].of,
               \A n \in Message :
                 LET Why == diskErrors' > 0 \/ n \in clashed' \/ attachment[n].of \in forgotten' \/ evictions' > 0 IN
                 /\ attachment'[n].at = "opening" =>
                       \/ attachment[n].at = "opening" /\ (attachment[n].of \in folders => attachment[n].of \in folders')
                       \/ attachment[n].of \in folders' \/ Why
                 /\ attachment'[n].at \in {"writing", "renaming"} =>
                       \/ /\ attachment[n].at \in {"writing", "renaming"} /\ attachment'[n].path = attachment[n].path
                          /\ TempOf(n) \in DOMAIN files => TempOf(n) \in DOMAIN files'
                       \/ TempOf(n)' \in DOMAIN files' \/ Why
                 /\ attachment'[n].at = "failed" => attachment[n].at = "failed" \/ Why
        PROVE  FailInv'
    <2>1. \A n \in Message : Excused(n) => Excused(n)'
      BY <1>4 DEF Excused
    <2> QED BY <1>4, <2>1 DEF FailInv, ThreadAt, HasOpen, Excused, TempOf
  <1>5. ASSUME NEW m \in Message, SaveLooks(m) PROVE FailInv'
    <2>1. PICK id \in {m, Unnumbered} :
             attachment' = [attachment EXCEPT ![m] =
                 [@ EXCEPT !.at = IF attachment[m].of \in folders THEN "making" ELSE "migrating",
                           !.path = [dir |-> attachment[m].of, id |-> id, tmp |-> FALSE]]]
      BY <1>5, Zenon DEF SaveLooks
    <2>2. /\ UNCHANGED <<folders, files, eviction, evictions, diskErrors, forgotten>> /\ clashed \subseteq clashed'
      BY <1>5 DEF SaveLooks, storedVars
    <2>3. \A n \in Message : /\ attachment'[n].of = attachment[n].of
                             /\ n # m => attachment'[n].at = attachment[n].at /\ attachment'[n].path = attachment[n].path
                             /\ n = m => attachment'[n].at \in {"making", "migrating"}
      BY <1>1, <2>1 DEF AttachTypes
    <2> QED BY <1>4, <2>2, <2>3 DEF FailInv
  <1>6. ASSUME NEW m \in Message, TakesLegacy(m) PROVE FailInv'
    <2>1. /\ Reaches(m, "making") /\ UNCHANGED <<eviction, evictions, diskErrors, forgotten, clashed>>
      BY <1>1, <1>3, <1>6 DEF TakesLegacy, countVars, historyVars, AttachStates, Underway
    <2>2. /\ \A d \in folders : d # Legacy => d \in folders'
          /\ \A p \in DOMAIN files : p.dir # Legacy => p \in DOMAIN files'
      BY <1>1, <1>6, TakenFiles
    <2> QED BY <1>2, <1>4, <2>1, <2>2 DEF FailInv
  <1>7. ASSUME NEW m \in Message, MakesDir(m) PROVE FailInv'
    <2>1. /\ Reaches(m, "opening") /\ UNCHANGED <<files, eviction, evictions, diskErrors, forgotten, clashed>>
          /\ folders' = folders \cup {attachment[m].path.dir} /\ attachment[m].at = "making"
      BY <1>1, <1>3, <1>7 DEF MakesDir, countVars, historyVars, AttachStates, Underway, ThreadAt
    <2> QED BY <1>2, <1>4, <2>1 DEF FailInv
  <1>8. ASSUME NEW m \in Message, OpensFile(m) PROVE FailInv'
    <2>1. /\ UNCHANGED <<folders, eviction, evictions, diskErrors, forgotten, clashed>> /\ attachment[m].at = "opening"
      BY <1>8 DEF OpensFile, countVars, historyVars, ThreadAt
    <2>2. CASE /\ TempOf(m).dir \notin folders /\ ThreadGoes(m, "failed") /\ UNCHANGED files
      <3>1. Reaches(m, "failed")
        BY <1>3, <2>2 DEF AttachStates
      <3>2. Excused(m)
        BY <1>2, <2>1, <2>2 DEF FailInv, ThreadAt
      <3> QED BY <1>4, <2>1, <2>2, <3>1, <3>2 DEF FailInv, Excused
    <2>3. CASE ThreadGoes(m, "writing") /\ DOMAIN files' = DOMAIN files \cup {TempOf(m)}
      <3>1. Reaches(m, "writing")
        BY <1>3, <2>3 DEF AttachStates, Underway
      <3>2. TempOf(m)' = TempOf(m)
        BY <3>1 DEF TempOf
      <3> QED BY <1>4, <2>1, <2>3, <3>1, <3>2 DEF FailInv
    <2> QED BY <1>8, <2>2, <2>3 DEF OpensFile, TempOf
  <1>9. ASSUME NEW m \in Message, WritesFile(m) PROVE FailInv'
    <2>1. /\ UNCHANGED <<folders, eviction, evictions, forgotten, clashed>> /\ attachment[m].at = "writing"
          /\ diskErrors \in Nat
      BY <1>1, <1>9 DEF WritesFile, historyVars, ThreadAt, AttachTypes
    <2>2. CASE ThreadGoes(m, "renaming") /\ UNCHANGED <<files, diskErrors>>
      <3>1. Reaches(m, "renaming")
        BY <1>3, <2>2 DEF AttachStates, Underway
      <3> QED BY <1>4, <2>1, <2>2, <3>1 DEF FailInv
    <2>3. CASE ThreadGoes(m, "failed") /\ diskErrors' = diskErrors + 1
      <3>1. Reaches(m, "failed") /\ diskErrors' > 0
        BY <1>3, <2>1, <2>3 DEF AttachStates
      <3> QED BY <1>4, <2>1, <3>1 DEF FailInv
    <2> QED BY <1>9, <2>2, <2>3, Zenon DEF WritesFile
  <1>10. ASSUME NEW m \in Message, RenamesFile(m) PROVE FailInv'
    <2>1. /\ UNCHANGED <<folders, eviction, evictions, diskErrors, forgotten, clashed>> /\ attachment[m].at = "renaming"
      BY <1>10 DEF RenamesFile, countVars, historyVars, ThreadAt
    <2>2. CASE ThreadGoes(m, "saved") /\ files' = Moved(TempOf(m), attachment[m].path)
      <3>1. Reaches(m, "saved")
        BY <1>3, <2>2 DEF AttachStates, Unnamed
      <3>2. DOMAIN files' = (DOMAIN files \ {TempOf(m)}) \cup {attachment[m].path}
        BY <2>2, MovedFiles
      <3>3. ASSUME NEW n \in Message, n # m, HasOpen(n), TempOf(n) = TempOf(m) PROVE n \in clashed
        <4>1. /\ attachment[n].path \in FilePath /\ ~attachment[n].path.tmp
              /\ attachment[m].path \in FilePath /\ ~attachment[m].path.tmp
          BY <1>1, <1>2, <2>1, <3>3 DEF AttachTypes, HasOpen
        <4>2. \A q \in FilePath : Temporary(attachment[n].path) = Temporary(q) /\ ~q.tmp => attachment[n].path = q
          BY <4>1, TemporaryPaths
        <4>3. attachment[n].path = attachment[m].path
          BY <3>3, <4>1, <4>2 DEF TempOf
        <4> QED BY <2>1, <3>3, <4>3 DEF AttachInv, ClashInv, HasOpen, Underway
      <3>4. \A n \in Message : n # m /\ attachment[n].at \in {"writing", "renaming"} /\ TempOf(n) \in DOMAIN files
                               => TempOf(n) \in DOMAIN files' \/ n \in clashed
        BY <3>2, <3>3 DEF HasOpen
      <3> QED BY <1>4, <2>1, <3>1, <3>4 DEF FailInv
    <2>3. CASE TempOf(m) \notin DOMAIN files /\ ThreadGoes(m, "failed") /\ UNCHANGED files
      <3>1. Reaches(m, "failed") /\ Excused(m)
        BY <1>3, <2>1, <2>3 DEF AttachStates, FailInv, HasOpen
      <3> QED BY <1>4, <2>1, <2>3, <3>1 DEF FailInv, Excused
    <2> QED BY <1>10, <2>2, <2>3, Zenon DEF RenamesFile, TempOf
  <1>11. ASSUME NEW m \in Message, RenamesForMessage(m) PROVE FailInv'
    <2>1. /\ UNCHANGED <<folders, eviction, evictions, diskErrors, forgotten, clashed>> /\ attachment[m].at = "saved"
      BY <1>11 DEF RenamesForMessage, countVars, historyVars, ThreadAt
    <2>2. /\ \A n \in Message : /\ attachment'[n].of = attachment[n].of
                                /\ n # m => attachment'[n].at = attachment[n].at /\ attachment'[n].path = attachment[n].path
                                /\ n = m => attachment'[n].at = "numbered"
      <3>1. \/ attachment' = [attachment EXCEPT ![m] = [@ EXCEPT !.at = "numbered",
                                                               !.path = [attachment[m].path EXCEPT !.id = m]]]
            \/ ThreadGoes(m, "numbered")
        BY <1>11, Zenon DEF RenamesForMessage
      <3>2. CASE ThreadGoes(m, "numbered")
        BY <1>3, <3>2 DEF AttachStates
      <3>3. CASE attachment' = [attachment EXCEPT ![m] = [@ EXCEPT !.at = "numbered",
                                                               !.path = [attachment[m].path EXCEPT !.id = m]]]
        BY <1>1, <3>3 DEF AttachTypes
      <3> QED BY <3>1, <3>2, <3>3
    <2>3. \A p \in DOMAIN files : p.tmp => p \in DOMAIN files'
      <3>1. \/ UNCHANGED files
            \/ files' = Moved(attachment[m].path, [attachment[m].path EXCEPT !.id = m])
        BY <1>11, Zenon DEF RenamesForMessage
      <3>2. ~attachment[m].path.tmp
        BY <1>2, <2>1
      <3>3. ASSUME NEW to, files' = Moved(attachment[m].path, to)
            PROVE  DOMAIN files' = (DOMAIN files \ {attachment[m].path}) \cup {to}
        BY <3>3, MovedFiles
      <3> QED BY <3>1, <3>2, <3>3
    <2> QED BY <1>2, <1>4, <2>1, <2>2, <2>3 DEF FailInv
  <1>12. ASSUME NEW m \in Message, DeleteFile(m) PROVE FailInv'
    <2>1. /\ UNCHANGED <<folders, attachment, eviction, evictions, diskErrors, forgotten, clashed>>
          /\ attachment[m].at = "numbered" /\ files' = Unlinked(attachment[m].path)
      BY <1>12 DEF DeleteFile, ThreadAt
    <2>2. \A p \in DOMAIN files : p.tmp => p \in DOMAIN files'
      <3>1. DOMAIN files' = DOMAIN files \ {attachment[m].path}
        BY <2>1, UnlinkedFiles
      <3>2. ~attachment[m].path.tmp
        BY <1>2, <2>1
      <3> QED BY <3>1, <3>2
    <2> QED BY <1>2, <1>4, <2>1, <2>2 DEF FailInv
  <1>13. ASSUME NEW s \in Sender, DeleteBegins(s) PROVE FailInv'
    <2>1. /\ UNCHANGED <<folders, files, attachment, eviction, evictions, diskErrors, clashed>>
          /\ forgotten \subseteq forgotten'
      BY <1>13 DEF DeleteBegins, storedVars
    <2> QED BY <1>4, <2>1 DEF FailInv
  <1>14. CASE DeleteLists
    <2>1. UNCHANGED <<folders, files, attachment, eviction, evictions, diskErrors, clashed, forgotten>>
      BY <1>14 DEF DeleteLists, storedVars, countVars, historyVars
    <2> QED BY <1>4, <2>1 DEF FailInv
  <1>15. CASE DeleteUnlinks
    <2>1. /\ UNCHANGED <<attachment, eviction, evictions, diskErrors, clashed, forgotten>>
          /\ deletion.at = "unlinking"
      BY <1>15 DEF DeleteUnlinks, countVars, historyVars
    <2>2. /\ UNCHANGED folders \/ folders' = folders \ {deletion.of}
          /\ UNCHANGED files \/ \E p \in deletion.left : files' = Unlinked(p)
      BY <1>15, Zenon DEF DeleteUnlinks
    <2>3. deletion.of \in forgotten \cup {Legacy} /\ \A p \in deletion.left : p.dir \in forgotten \cup {Legacy}
      BY <2>1 DEF DeletionInv
    <2>4. \A p \in DOMAIN files : p \in DOMAIN files' \/ p.dir \in forgotten \cup {Legacy}
      <3>1. ASSUME NEW p \in deletion.left, files' = Unlinked(p) PROVE DOMAIN files' = DOMAIN files \ {p}
        BY <3>1, UnlinkedFiles
      <3> QED BY <2>2, <2>3, <3>1
    <2>5. \A d \in folders : d \in folders' \/ d \in forgotten \cup {Legacy}
      BY <2>2, <2>3
    <2> QED BY <1>2, <1>4, <2>1, <2>4, <2>5 DEF FailInv
  <1>16. CASE EnforceMeasures
    <2>1. /\ UNCHANGED <<attachment, diskErrors, clashed, forgotten>> /\ evictions' = evictions + 1 /\ evictions \in Nat
      BY <1>1, <1>16 DEF EnforceMeasures, historyVars, AttachTypes
    <2>2. evictions' > 0
      BY <2>1
    <2> QED BY <1>4, <2>1, <2>2
  <1>17. CASE EnforceLists \/ EnforceEvicts \/ EnforceTidies
    <2>1. /\ UNCHANGED <<attachment, diskErrors, clashed, forgotten, evictions>> /\ eviction.at # "idle"
      BY <1>17 DEF EnforceLists, EnforceEvicts, EnforceTidies, countVars, historyVars
    <2>2. evictions' > 0
      BY <2>1 DEF FailInv
    <2> QED BY <1>4, <2>1, <2>2
  <1>18. CASE StoreDies
    <2>1. /\ UNCHANGED <<files, clashed, forgotten, diskErrors, evictions>> /\ eviction' = IdleEviction
      BY <1>18 DEF StoreDies, storedVars, historyVars
    <2>2. \A m \in Message :
             /\ attachment'[m].of = attachment[m].of
             /\ attachment'[m].at = IF attachment[m].at \in Underway THEN "dead"
                                    ELSE IF attachment[m].at = "saved" THEN "left" ELSE attachment[m].at
      BY <1>1, <1>18 DEF StoreDies, AttachTypes, ThreadAt
    <2>3. \A m \in Message : /\ attachment'[m].at \notin {"opening", "writing", "renaming"}
                             /\ attachment'[m].at = "failed" => attachment[m].at = "failed"
      BY <2>2 DEF Underway
    <2> QED BY <1>4, <2>1, <2>2, <2>3 DEF IdleEviction
  <1> QED BY <1>5, <1>6, <1>7, <1>8, <1>9, <1>10, <1>11, <1>12, <1>13, <1>14, <1>15, <1>16, <1>17, <1>18
          DEF AttachmentNext

\* All that holds of the store.
StoreInv == AttachInv /\ DeletionInv /\ FailInv

LEMMA AttachmentsStart == AttachmentInit => StoreInv
  <1> SUFFICES ASSUME AttachmentInit PROVE StoreInv
    OBVIOUS
  <1>1. PICK old \in SUBSET Sender :
           files = [p \in {[dir |-> Legacy, id |-> s, tmp |-> FALSE] : s \in old} |-> p.id]
    BY Zenon DEF AttachmentInit
  <1>2. \A p \in DOMAIN files : /\ p \in FilePath /\ p.dir = Legacy /\ p.id \in Sender /\ ~p.tmp
                               /\ files[p] = p.id
    <2>1. DOMAIN files = {[dir |-> Legacy, id |-> s, tmp |-> FALSE] : s \in old}
      BY <1>1
    <2>2. ASSUME NEW s \in old
          PROVE  LET p == [dir |-> Legacy, id |-> s, tmp |-> FALSE] IN
                 /\ p \in FilePath /\ p.dir = Legacy /\ p.id = s /\ ~p.tmp
      BY DEF FilePath, Dir
    <2>3. \A p \in DOMAIN files : files[p] = p.id
      BY <1>1, <2>1
    <2> QED BY <2>1, <2>2, <2>3
  <1>3. /\ openedBy = [f \in FileNode |-> {}] /\ wrote = [f \in FileNode |-> {}]
        /\ attachment \in [Message -> {[at |-> "new", of |-> s, path |-> NoPath] : s \in Sender}]
        /\ deletion = IdleDeletion /\ eviction = IdleEviction /\ diskErrors = 0 /\ evictions = 0
    BY DEF AttachmentInit
  <1>4. NoPath \in FilePath
    BY DEF NoPath, FilePath, Dir
  <1>5. \A m \in Message : attachment[m] \in [at : AttachStates, of : Sender, path : FilePath] /\ attachment[m].at = "new"
    BY <1>3, <1>4 DEF AttachStates
  <1>6. attachment \in [Message -> [at : AttachStates, of : Sender, path : FilePath]]
    BY <1>3, <1>5
  <1>7. AttachTypes
    BY <1>2, <1>3, <1>6 DEF AttachTypes, FileNode
  <1>8. NodesInv
    <2>1. ASSUME NEW p \in DOMAIN files, NEW q \in DOMAIN files, files[p] = files[q] PROVE p = q
      <3>1. p \in FilePath /\ q \in FilePath /\ p.dir = q.dir /\ p.id = q.id /\ p.tmp = FALSE /\ q.tmp = FALSE
        BY <1>2, <2>1 DEF FilePath
      <3>2. \A o \in FilePath : p.dir = o.dir /\ p.id = o.id /\ p.tmp = o.tmp => p = o
        BY <3>1, TemporaryPaths
      <3> QED BY <3>1, <3>2
    <2> QED BY <1>2, <2>1, NamesDiffer DEF NodesInv, FilesStayWithPeer
  <1>9. OpenInv /\ ThreadInv
    BY <1>3, <1>5 DEF OpenInv, ThreadInv, ThreadAt, HasOpen, FileNode
  <1>10. TempInv /\ AtWorkInv /\ ClashInv
    BY <1>2, <1>5 DEF TempInv, AtWorkInv, ClashInv, HasOpen, Underway, Unnamed
  <1>11. StoredIsWhole /\ KeptInv
    BY <1>2, <1>3, <1>5, <1>7 DEF StoredIsWhole, KeptInv, Unnamed, AttachTypes
  <1>12. DeletionInv /\ FailInv
    BY <1>3, <1>5 DEF DeletionInv, FailInv, IdleDeletion, IdleEviction, ThreadAt, HasOpen
  <1> QED BY <1>7, <1>8, <1>9, <1>10, <1>11, <1>12 DEF StoreInv, AttachInv

\* A step that changes nothing.
LEMMA NothingStored == StoreInv /\ UNCHANGED attachmentVars => StoreInv'
  <1> SUFFICES ASSUME StoreInv, UNCHANGED attachmentVars PROVE StoreInv'
    OBVIOUS
  <1>1. UNCHANGED <<folders, files, openedBy, wrote, attachment, deletion, eviction, evictions, diskErrors,
                    forgotten, removed, clashed>>
    BY DEF attachmentVars
  <1>2. AttachInv'
    BY <1>1 DEF StoreInv, AttachInv, AttachTypes, ThreadInv, NodesInv, OpenInv, TempInv, AtWorkInv, ClashInv,
                StoredIsWhole, KeptInv, FilesStayWithPeer, ThreadAt, HasOpen, TempOf
  <1>3. DeletionInv' /\ FailInv'
    BY <1>1 DEF StoreInv, DeletionInv, FailInv, ThreadAt, HasOpen, TempOf, Excused
  <1> QED BY <1>2, <1>3 DEF StoreInv

LEMMA StoreInvariant == AttachmentSpec => []StoreInv
<1>1. StoreInv /\ [AttachmentNext]_attachmentVars => StoreInv'
  <2> SUFFICES ASSUME StoreInv, AttachmentNext PROVE StoreInv'
    BY NothingStored
  <2>1. AttachInv /\ DeletionInv /\ FailInv
    BY DEF StoreInv
  <2>2. AttachInv'
    BY <2>1, OthersKeep, SaveLooksKeeps, TakesLegacyKeeps, OpensFileKeeps, WritesFileKeeps, RenamesFileKeeps,
       RenamesForMessageKeeps DEF AttachmentNext
  <2> QED BY <2>1, <2>2, DeletionsAreKnown, FailuresAreExcused DEF StoreInv
<1> QED
  BY <1>1, AttachmentsStart, PTL DEF AttachmentSpec

LEMMA StoreShows == StoreInv => StoredIsWhole /\ SavedIsKept /\ SaveFailsForReason /\ FilesStayWithPeer
<1> SUFFICES ASSUME StoreInv PROVE StoredIsWhole /\ SavedIsKept /\ SaveFailsForReason /\ FilesStayWithPeer
  OBVIOUS
<1>1. StoredIsWhole /\ FilesStayWithPeer
  BY DEF StoreInv, AttachInv, NodesInv
<1>2. SavedIsKept
  BY DEF StoreInv, AttachInv, KeptInv, SavedIsKept
<1>3. SaveFailsForReason
  BY DEF StoreInv, FailInv, SaveFailsForReason, Excused
<1> QED
  BY <1>1, <1>2, <1>3

\* Whatever saves, deletions and evictions interleave and whenever the disk fails or the
\* process dies (services/attachment_store.py): a file in its place is whole, what save() has
\* returned is there until somebody removes it, a save fails only for a reason, and a file
\* stays with its peer; for any messages, peers and storage budget.
THEOREM AttachmentsAreKept ==
  AttachmentSpec => [](StoredIsWhole /\ SavedIsKept /\ SaveFailsForReason /\ FilesStayWithPeer)
BY StoreInvariant, StoreShows, PTL

-----------------------------------------------------------------------------
(* The types of the attachment store.                                       *)


\* The directories, and what deletions and the freeing of space remember of them.
FolderTypes ==
    /\ folders \subseteq Dir /\ \A p \in DOMAIN files : p.dir \in folders
    /\ IsFiniteSet(DOMAIN files) /\ ages \in Seq(FileNode)
StoreWorkTypes ==
    /\ deletion \in [at : {"idle", "listing", "unlinking"}, of : Dir, left : SUBSET FilePath]
    /\ eviction \in [at : {"idle", "listing", "evicting", "tidying"}, over : Nat, left : Seq(FilePath),
                     folders : SUBSET Dir]
StoreCountTypes ==
    /\ deletes \in 0..MaxDeletes /\ evictions \in 0..MaxEvictions
    /\ diskErrors \in 0..MaxDiskErrors /\ deaths \in 0..MaxDeaths
    /\ forgotten \subseteq Sender /\ removed \subseteq Message /\ clashed \subseteq Message

AllStoreInv == StoreInv /\ FolderTypes /\ StoreWorkTypes /\ StoreCountTypes

LEMMA StoreTypesShow == AllStoreInv => AttachmentTypeOK
<1> SUFFICES ASSUME AllStoreInv PROVE AttachmentTypeOK
  OBVIOUS
<1>1. AttachTypes /\ FolderTypes /\ StoreWorkTypes /\ StoreCountTypes
  BY DEF AllStoreInv, StoreInv, AttachInv
<1>2. folders \subseteq Dir /\ DOMAIN files \subseteq FilePath
      /\ \A p \in DOMAIN files : files[p] \in FileNode /\ p.dir \in folders
  BY <1>1 DEF AttachTypes, FolderTypes
<1>3. \A f \in FileNode : openedBy[f] \subseteq Message /\ wrote[f] \subseteq openedBy[f]
  BY <1>1 DEF AttachTypes
<1>4. ToSet(ages) \subseteq FileNode
  BY <1>1 DEF FolderTypes, ToSet
<1>5. \A m \in Message :
          /\ attachment[m].at \in Underway \cup Unnamed \cup {"new", "numbered", "failed", "dead"}
          /\ attachment[m].of \in Sender /\ attachment[m].path \in FilePath
  BY <1>1 DEF AttachTypes, AttachStates
<1>6. deletion.at \in {"idle", "listing", "unlinking"} /\ deletion.left \subseteq FilePath /\ deletion.of \in Dir
  BY <1>1 DEF StoreWorkTypes
<1>7. eviction.at \in {"idle", "listing", "evicting", "tidying"} /\ eviction.over \in Nat
      /\ eviction.left \in Seq(FilePath) /\ eviction.folders \subseteq Dir
  BY <1>1 DEF StoreWorkTypes
<1>8. ToSet(eviction.left) \subseteq FilePath
  BY <1>7 DEF ToSet
<1> QED
  BY <1>1, <1>2, <1>3, <1>4, <1>5, <1>6, <1>7, <1>8 DEF StoreCountTypes, AttachmentTypeOK

\* The orders of a finite set are sequences of its elements.
LEMMA OrdersOfFinite ==
  ASSUME NEW S, IsFiniteSet(S), NEW q \in [1..Cardinality(S) -> S]
  PROVE  q \in Seq(S)
<1>1. Cardinality(S) \in Nat
  BY FS_CardinalityType
<1> QED
  BY <1>1

LEMMA StoreTypesStart == AttachmentInit => FolderTypes /\ StoreWorkTypes /\ StoreCountTypes
<1> SUFFICES ASSUME AttachmentInit PROVE FolderTypes /\ StoreWorkTypes /\ StoreCountTypes
  OBVIOUS
<1>1. PICK old \in SUBSET Sender :
          /\ folders = IF old = {} THEN {} ELSE {Legacy}
          /\ files = [p \in {[dir |-> Legacy, id |-> s, tmp |-> FALSE] : s \in old} |-> p.id]
          /\ ages \in {q \in [1..Cardinality(old) -> old] : IsInjective(q)}
  BY DEF AttachmentInit
<1>2. IsFiniteSet(old) /\ old \subseteq FileNode
  BY AttachmentAssumption, FS_Subset DEF FileNode
<1>3. ages \in Seq(FileNode)
  <2>1. ages \in Seq(old)
    BY <1>1, <1>2, OrdersOfFinite
  <2> QED
    BY <1>2, <2>1
<1>4. IsFiniteSet(DOMAIN files)
  <2> DEFINE f == [s \in old |-> [dir |-> Legacy, id |-> s, tmp |-> FALSE]]
  <2>1. DOMAIN files = {[dir |-> Legacy, id |-> s, tmp |-> FALSE] : s \in old}
    BY <1>1
  <2>2. f \in Surjection(old, DOMAIN files)
    BY <2>1 DEF Surjection
  <2> QED
    BY <1>2, <2>2, FS_Surjection
<1>5. folders \subseteq Dir /\ \A p \in DOMAIN files : p.dir \in folders
  BY <1>1 DEF Dir
<1>6. deletion = IdleDeletion /\ eviction = IdleEviction
  BY DEF AttachmentInit
<1>7. StoreWorkTypes
  BY <1>6 DEF StoreWorkTypes, IdleDeletion, IdleEviction, Dir
<1>8. StoreCountTypes
  BY AttachmentAssumption DEF AttachmentInit, StoreCountTypes
<1> QED
  BY <1>3, <1>4, <1>5, <1>7, <1>8 DEF FolderTypes

\* What is unlinked leaves the rest in its directories.
LEMMA FilesGo ==
  ASSUME FolderTypes, DOMAIN files' \subseteq DOMAIN files, folders' = folders, ages' = ages
  PROVE  FolderTypes'
  BY FS_Subset DEF FolderTypes

LEMMA FilesCome ==
  ASSUME FolderTypes, NEW p, p.dir \in folders, DOMAIN files' \subseteq DOMAIN files \cup {p},
         folders' = folders, ages' = ages
  PROVE  FolderTypes'
<1>1. IsFiniteSet(DOMAIN files \cup {p})
  BY FS_AddElement DEF FolderTypes
<1> QED
  BY <1>1, FS_Subset DEF FolderTypes

\* The directories and the files in them.
LEMMA FoldersStay == AllStoreInv /\ [AttachmentNext]_attachmentVars => FolderTypes'
<1> SUFFICES ASSUME AllStoreInv, [AttachmentNext]_attachmentVars PROVE FolderTypes'
  OBVIOUS
<1>0. AttachTypes /\ FolderTypes /\ StoreWorkTypes
  BY DEF AllStoreInv, StoreInv, AttachInv
<1>1. CASE \/ (\E m \in Message : SaveLooks(m)) \/ (\E s \in Sender : DeleteBegins(s)) \/ DeleteLists
           \/ EnforceMeasures \/ EnforceLists \/ StoreDies \/ UNCHANGED attachmentVars
  <2>1. files' = files /\ folders' = folders /\ ages' = ages
    BY <1>1, Zenon DEF SaveLooks, DeleteBegins, DeleteLists, EnforceMeasures, EnforceLists, StoreDies, attachmentVars,
                storedVars
  <2> QED
    BY <1>0, <2>1 DEF FolderTypes
<1>2. ASSUME NEW m \in Message, TakesLegacy(m) PROVE FolderTypes'
  <2> DEFINE new == attachment[m].of
             to == [q \in DOMAIN files |-> [q EXCEPT !.dir = new]]
  <2>1. new \in Sender /\ new \in Dir /\ new # Legacy
    BY <1>0, NamesDiffer DEF AttachTypes, Dir
  <2>2. /\ ages' = ages
        /\ \/ UNCHANGED <<folders, files>>
           \/ /\ folders' = (folders \ {Legacy}) \cup {new}
              /\ \A p \in DOMAIN files' :
                     \/ p.dir # Legacy /\ p \in DOMAIN files
                     \/ \E q \in DOMAIN files : q.dir = Legacy /\ p = [q EXCEPT !.dir = new]
    BY <1>0, <1>2, TakenFiles
  <2>3. CASE UNCHANGED <<folders, files>>
    BY <1>0, <2>2, <2>3 DEF FolderTypes
  <2>4. CASE /\ folders' = (folders \ {Legacy}) \cup {new}
             /\ \A p \in DOMAIN files' :
                     \/ p.dir # Legacy /\ p \in DOMAIN files
                     \/ \E q \in DOMAIN files : q.dir = Legacy /\ p = [q EXCEPT !.dir = new]
    <3>1. \A q \in DOMAIN files : q \in FilePath
      BY <1>0 DEF AttachTypes
    <3>2. \A q \in DOMAIN files : [q EXCEPT !.dir = new].dir = new
      BY <3>1 DEF FilePath
    <3>3. \A p \in DOMAIN files' : p.dir \in folders'
      BY <1>0, <2>4, <3>2 DEF FolderTypes
    <3>4. folders' \subseteq Dir
      BY <1>0, <2>1, <2>4 DEF FolderTypes
    <3>5. IsFiniteSet(DOMAIN files')
      <4> DEFINE T == {[q EXCEPT !.dir = new] : q \in DOMAIN files}
      <4>1. to \in Surjection(DOMAIN files, T)
        BY DEF Surjection
      <4>2. IsFiniteSet(T)
        BY <1>0, <4>1, FS_Surjection DEF FolderTypes
      <4>3. DOMAIN files' \subseteq DOMAIN files \cup T
        BY <2>4
      <4> HIDE DEF T
      <4>4. IsFiniteSet(DOMAIN files \cup T)
        BY <1>0, <4>2, FS_Union DEF FolderTypes
      <4> QED
        BY <4>3, <4>4, FS_Subset
    <3> QED
      BY <1>0, <2>2, <3>3, <3>4, <3>5 DEF FolderTypes
  <2> QED
    BY <2>2, <2>3, <2>4
<1>3. ASSUME NEW m \in Message, MakesDir(m) PROVE FolderTypes'
  <2>1. files' = files /\ ages' = ages /\ folders' = folders \cup {attachment[m].path.dir}
    BY <1>3 DEF MakesDir
  <2>2. attachment[m].path.dir \in Dir
    BY <1>0 DEF AttachTypes, FilePath
  <2> QED
    BY <1>0, <2>1, <2>2 DEF FolderTypes
<1>4. ASSUME NEW m \in Message, OpensFile(m) PROVE FolderTypes'
  <2> DEFINE own == Temporary(attachment[m].path)
  <2>1. folders' = folders /\ ages' = ages
    BY <1>4 DEF OpensFile
  <2>2. files' = files \/ (own.dir \in folders /\ DOMAIN files' = DOMAIN files \cup {own})
    BY <1>4, Zenon DEF OpensFile
  <2> HIDE DEF own
  <2> QED
    BY <1>0, <2>1, <2>2, FilesGo, FilesCome
<1>5. ASSUME NEW m \in Message, WritesFile(m) PROVE FolderTypes'
  <2> DEFINE f == CHOOSE g \in FileNode : m \in openedBy[g]
             i == CHOOSE k \in DOMAIN ages : ages[k] = f
             older == IF f \in ToSet(ages) THEN RemoveAt(ages, i) ELSE ages
  <2>1. /\ ThreadAt(m, "writing") /\ folders' = folders
        /\ \/ files' = files /\ ages' = Append(older, f)
           \/ files' = Unlinked(Temporary(attachment[m].path)) /\ ages' = ages
    BY <1>5, Zenon DEF WritesFile
  <2>2. f \in FileNode
    <3>1. \E g \in FileNode : m \in openedBy[g]
      BY <2>1 DEF AllStoreInv, StoreInv, AttachInv, OpenInv, HasOpen, ThreadAt
    <3> QED
      BY <3>1
  <2>3. older \in Seq(FileNode)
    <3>1. ages \in Seq(FileNode)
      BY <1>0 DEF FolderTypes
    <3>2. f \in ToSet(ages) => i \in 1..Len(ages)
      BY <3>1 DEF ToSet
    <3> HIDE DEF i, f
    <3>3. ASSUME i \in 1..Len(ages) PROVE RemoveAt(ages, i) \in Seq(FileNode)
      BY <3>1, <3>3 DEF RemoveAt
    <3> QED
      BY <3>1, <3>2, <3>3
  <2> HIDE DEF f, older
  <2>4. Append(older, f) \in Seq(FileNode)
    BY <2>2, <2>3
  <2>5. CASE files' = files /\ ages' = Append(older, f)
    BY <1>0, <2>1, <2>4, <2>5 DEF FolderTypes
  <2>6. CASE files' = Unlinked(Temporary(attachment[m].path)) /\ ages' = ages
    BY <1>0, <2>1, <2>6, UnlinkedFiles, FilesGo
  <2> QED
    BY <2>1, <2>5, <2>6
<1>6. ASSUME NEW m \in Message, RenamesFile(m) PROVE FolderTypes'
  <2> DEFINE own == attachment[m].path
  <2>1. /\ folders' = folders /\ ages' = ages
        /\ files' = files \/ (Temporary(own) \in DOMAIN files /\ files' = Moved(Temporary(own), own))
    BY <1>6, Zenon DEF RenamesFile
  <2>2. Temporary(own).dir = own.dir
    BY <1>0, TemporaryPaths DEF AttachTypes
  <2>3. Temporary(own) \in DOMAIN files => own.dir \in folders
    BY <1>0, <2>2 DEF FolderTypes
  <2> HIDE DEF own
  <2> QED
    BY <1>0, <2>1, <2>3, MovedFiles, FilesGo, FilesCome
<1>7. ASSUME NEW m \in Message, RenamesForMessage(m) PROVE FolderTypes'
  <2> DEFINE own == attachment[m].path
             new == [own EXCEPT !.id = m]
  <2>1. /\ folders' = folders /\ ages' = ages
        /\ files' = files \/ (own \in DOMAIN files /\ files' = Moved(own, new))
    BY <1>7, Zenon DEF RenamesForMessage
  <2>2. new.dir = own.dir
    <3>1. own \in FilePath
      BY <1>0 DEF AttachTypes
    <3> QED
      BY <3>1 DEF FilePath
  <2>3. own \in DOMAIN files => new.dir \in folders
    BY <1>0, <2>2 DEF FolderTypes
  <2> HIDE DEF own, new
  <2> QED
    BY <1>0, <2>1, <2>3, MovedFiles, FilesGo, FilesCome
<1>8. ASSUME NEW m \in Message, DeleteFile(m) PROVE FolderTypes'
  <2>1. folders' = folders /\ ages' = ages /\ files' = Unlinked(attachment[m].path)
    BY <1>8 DEF DeleteFile
  <2> QED
    BY <1>0, <2>1, UnlinkedFiles, FilesGo
\* A directory that goes is empty.
<1>9. ASSUME NEW d, files' = files, ages' = ages,
             folders' = folders \/ (Inside(d) = {} /\ folders' = folders \ {d})
      PROVE  FolderTypes'
  <2>1. ASSUME Inside(d) = {}, NEW p \in DOMAIN files PROVE p.dir # d
    BY <2>1 DEF Inside
  <2> QED
    BY <1>0, <1>9, <2>1 DEF FolderTypes
<1>10. CASE DeleteUnlinks
  <2>1. ages' = ages
    BY <1>10 DEF DeleteUnlinks
  <2>2. \/ (\E p : files' = Unlinked(p) /\ folders' = folders)
        \/ /\ files' = files
           /\ folders' = folders \/ (Inside(deletion.of) = {} /\ folders' = folders \ {deletion.of})
    BY <1>10, Zenon DEF DeleteUnlinks
  <2>3. CASE \E p : files' = Unlinked(p) /\ folders' = folders
    BY <1>0, <2>1, <2>3, UnlinkedFiles, FilesGo
  <2> QED
    BY <1>9, <2>1, <2>2, <2>3
<1>11. CASE EnforceEvicts
  <2>1. folders' = folders /\ ages' = ages /\ (files' = files \/ \E p : files' = Unlinked(p))
    BY <1>11, Zenon DEF EnforceEvicts
  <2> QED
    BY <1>0, <2>1, UnlinkedFiles, FilesGo
<1>12. CASE EnforceTidies
  <2>1. files' = files /\ ages' = ages
    BY <1>12 DEF EnforceTidies
  <2>2. folders' = folders \/ \E d : Inside(d) = {} /\ folders' = folders \ {d}
    BY <1>12, Zenon DEF EnforceTidies
  <2> QED
    BY <1>9, <2>1, <2>2
<1> QED
  BY <1>1, <1>2, <1>3, <1>4, <1>5, <1>6, <1>7, <1>8, <1>10, <1>11, <1>12 DEF AttachmentNext

\* What deletions and the freeing of space remember.
LEMMA StoreWorkStays == AllStoreInv /\ [AttachmentNext]_attachmentVars => StoreWorkTypes'
<1> SUFFICES ASSUME AllStoreInv, [AttachmentNext]_attachmentVars PROVE StoreWorkTypes'
  OBVIOUS
<1>0. AttachTypes /\ FolderTypes /\ StoreWorkTypes
  BY DEF AllStoreInv, StoreInv, AttachInv
<1>a. IdleDeletion \in [at : {"idle", "listing", "unlinking"}, of : Dir, left : SUBSET FilePath]
  BY DEF IdleDeletion, Dir
<1>b. IdleEviction \in [at : {"idle", "listing", "evicting", "tidying"}, over : Nat, left : Seq(FilePath),
                        folders : SUBSET Dir]
  BY DEF IdleEviction
<1>c. \A d : Inside(d) \subseteq FilePath
  BY <1>0 DEF AttachTypes, Inside
<1>1. CASE \/ (\E m \in Message : \/ SaveLooks(m) \/ TakesLegacy(m) \/ MakesDir(m) \/ OpensFile(m)
                                  \/ WritesFile(m) \/ RenamesFile(m) \/ RenamesForMessage(m) \/ DeleteFile(m))
           \/ UNCHANGED attachmentVars
  <2>1. deletion' = deletion /\ eviction' = eviction
    BY <1>1, Zenon DEF SaveLooks, TakesLegacy, MakesDir, OpensFile, WritesFile, RenamesFile, RenamesForMessage,
       DeleteFile, attachmentVars
  <2> QED
    BY <1>0, <2>1 DEF StoreWorkTypes
<1>2. ASSUME NEW s \in Sender, DeleteBegins(s) PROVE StoreWorkTypes'
  <2>1. eviction' = eviction /\ \E d \in {s, Legacy} : deletion' = [at |-> "listing", of |-> d, left |-> {}]
    BY <1>2 DEF DeleteBegins
  <2> QED
    BY <1>0, <2>1 DEF StoreWorkTypes, Dir
<1>3. CASE DeleteLists
  <2>1. /\ eviction' = eviction
        /\ deletion' = IdleDeletion \/ deletion' = [deletion EXCEPT !.at = "unlinking", !.left = Inside(deletion.of)]
    BY <1>3, Zenon DEF DeleteLists
  <2>2. CASE deletion' = IdleDeletion
    BY <1>0, <1>a, <2>1, <2>2 DEF StoreWorkTypes
  <2>3. CASE deletion' = [deletion EXCEPT !.at = "unlinking", !.left = Inside(deletion.of)]
    <3>1. PICK here \in SUBSET FilePath : deletion' = [deletion EXCEPT !.at = "unlinking", !.left = here]
      BY <1>c, <2>3
    <3> QED
      BY <1>0, <2>1, <3>1 DEF StoreWorkTypes
  <2> QED
    BY <2>1, <2>2, <2>3
<1>4. CASE DeleteUnlinks
  <2>1. /\ eviction' = eviction
        /\ deletion' = IdleDeletion \/ \E p \in deletion.left : deletion' = [deletion EXCEPT !.left = @ \ {p}]
    BY <1>4, Zenon DEF DeleteUnlinks
  <2> QED
    BY <1>0, <1>a, <2>1 DEF StoreWorkTypes
<1>5. CASE StoreDies
  BY <1>a, <1>b, <1>5 DEF StoreDies, StoreWorkTypes
\* An eviction whose parts are as they were, or new.
<1>6. ASSUME deletion' = deletion,
             NEW doing \in {"idle", "listing", "evicting", "tidying"}, NEW over \in Nat, NEW left \in Seq(FilePath),
             NEW dirs \in SUBSET Dir,
             eviction' = [at |-> doing, over |-> over, left |-> left, folders |-> dirs]
      PROVE  StoreWorkTypes'
  BY <1>0, <1>6 DEF StoreWorkTypes
<1>7. eviction = [at |-> eviction.at, over |-> eviction.over, left |-> eviction.left, folders |-> eviction.folders]
      /\ eviction.at \in {"idle", "listing", "evicting", "tidying"} /\ eviction.over \in Nat
      /\ eviction.left \in Seq(FilePath) /\ eviction.folders \in SUBSET Dir
  BY <1>0 DEF StoreWorkTypes
<1>8. CASE EnforceMeasures
  <2> DEFINE used == Cardinality(DOMAIN files)
  <2>1. /\ used > StorageBudget /\ deletion' = deletion
        /\ eviction' = [IdleEviction EXCEPT !.at = "listing", !.over = used - StorageBudget]
    BY <1>8 DEF EnforceMeasures
  <2>2. used \in Nat /\ StorageBudget \in Nat
    BY <1>0, FS_CardinalityType, AttachmentAssumption DEF FolderTypes
  <2> HIDE DEF used
  <2>3. used - StorageBudget \in Nat
    BY <2>1, <2>2
  <2>4. eviction' = [at |-> "listing", over |-> used - StorageBudget, left |-> <<>>, folders |-> {}]
    BY <2>1 DEF IdleEviction
  <2>5. <<>> \in Seq(FilePath) /\ {} \in SUBSET Dir
    OBVIOUS
  <2> QED
    BY <1>6, <2>1, <2>3, <2>4, <2>5
<1>9. CASE EnforceLists
  <2> DEFINE Listed == {p \in DOMAIN files : ~p.tmp}
  <2>1. /\ deletion' = deletion
        /\ \E list \in [1..Cardinality(Listed) -> Listed] :
              eviction' = [eviction EXCEPT !.at = "evicting", !.left = list]
    BY <1>9 DEF EnforceLists
  <2>2. IsFiniteSet(Listed) /\ Listed \subseteq FilePath
    BY <1>0, FS_Subset DEF FolderTypes, AttachTypes
  <2> HIDE DEF Listed
  <2>3. PICK list \in [1..Cardinality(Listed) -> Listed] : eviction' = [eviction EXCEPT !.at = "evicting", !.left = list]
    BY <2>1
  <2>4. list \in Seq(FilePath)
    <3>1. list \in Seq(Listed)
      BY <2>2, OrdersOfFinite
    <3> QED
      BY <2>2, <3>1
  <2>5. eviction' = [at |-> "evicting", over |-> eviction.over, left |-> list, folders |-> eviction.folders]
    BY <1>7, <2>3
  <2> QED
    BY <1>6, <1>7, <2>1, <2>4, <2>5
<1>10. CASE EnforceEvicts
  <2>1. deletion' = deletion
    BY <1>10 DEF EnforceEvicts
  <2>2. CASE eviction.over = 0 \/ eviction.left = <<>>
    <3>1. eviction' = [eviction EXCEPT !.at = "tidying", !.folders = folders]
      BY <1>10, <2>2, Zenon DEF EnforceEvicts
    <3>2. eviction' = [at |-> "tidying", over |-> eviction.over, left |-> eviction.left, folders |-> folders]
      BY <1>7, <3>1
    <3>3. folders \in SUBSET Dir
      BY <1>0 DEF FolderTypes
    <3> QED
      BY <1>6, <1>7, <2>1, <3>2, <3>3
  <2>3. CASE ~(eviction.over = 0 \/ eviction.left = <<>>)
    <3>1. \/ eviction' = [eviction EXCEPT !.left = Tail(@), !.over = @ - 1]
          \/ eviction' = [eviction EXCEPT !.left = Tail(@)]
      BY <1>10, <2>3, Zenon DEF EnforceEvicts
    <3>2. eviction.over - 1 \in Nat
      BY <1>7, <2>3
    <3>3. Tail(eviction.left) \in Seq(FilePath)
      BY <1>7, <2>3
    <3>4. CASE eviction' = [eviction EXCEPT !.left = Tail(@), !.over = @ - 1]
      <4>1. eviction' = [at |-> eviction.at, over |-> eviction.over - 1, left |-> Tail(eviction.left),
                         folders |-> eviction.folders]
        BY <1>7, <3>4
      <4> QED
        BY <1>6, <1>7, <2>1, <3>2, <3>3, <4>1
    <3>5. CASE eviction' = [eviction EXCEPT !.left = Tail(@)]
      <4>1. eviction' = [at |-> eviction.at, over |-> eviction.over, left |-> Tail(eviction.left),
                         folders |-> eviction.folders]
        BY <1>7, <3>5
      <4> QED
        BY <1>6, <1>7, <2>1, <3>3, <4>1
    <3> QED
      BY <3>1, <3>4, <3>5
  <2> QED
    BY <2>2, <2>3
<1>11. CASE EnforceTidies
  <2>1. /\ deletion' = deletion
        /\ eviction' = IdleEviction \/ \E d \in eviction.folders : eviction' = [eviction EXCEPT !.folders = @ \ {d}]
    BY <1>11, Zenon DEF EnforceTidies
  <2>2. CASE eviction' = IdleEviction
    BY <1>0, <1>b, <2>1, <2>2 DEF StoreWorkTypes
  <2>3. ASSUME NEW d \in eviction.folders, eviction' = [eviction EXCEPT !.folders = @ \ {d}] PROVE StoreWorkTypes'
    <3>1. eviction' = [at |-> eviction.at, over |-> eviction.over, left |-> eviction.left,
                       folders |-> eviction.folders \ {d}]
      BY <1>7, <2>3
    <3>2. eviction.folders \ {d} \in SUBSET Dir
      BY <1>7
    <3> QED
      BY <1>6, <1>7, <2>1, <3>1, <3>2
  <2> QED
    BY <2>1, <2>2, <2>3
<1> QED
  BY <1>1, <1>2, <1>3, <1>4, <1>5, <1>8, <1>9, <1>10, <1>11 DEF AttachmentNext

\* The bounds, and what may be missing.
LEMMA StoreCountsStay == AllStoreInv /\ [AttachmentNext]_attachmentVars => StoreCountTypes'
<1> SUFFICES ASSUME AllStoreInv, [AttachmentNext]_attachmentVars PROVE StoreCountTypes'
  OBVIOUS
<1>0. AttachTypes /\ StoreCountTypes
  BY DEF AllStoreInv, StoreInv, AttachInv
<1>a. /\ MaxDeletes \in Nat /\ MaxEvictions \in Nat /\ MaxDiskErrors \in Nat /\ MaxDeaths \in Nat
      /\ deletes \in 0..MaxDeletes /\ evictions \in 0..MaxEvictions
      /\ diskErrors \in 0..MaxDiskErrors /\ deaths \in 0..MaxDeaths
      /\ forgotten \subseteq Sender /\ removed \subseteq Message /\ clashed \subseteq Message
  BY <1>0, AttachmentAssumption DEF StoreCountTypes
<1>b. \A p \in DOMAIN files : wrote[files[p]] \subseteq Message
  BY <1>0 DEF AttachTypes
<1>1. CASE \/ (\E m \in Message : TakesLegacy(m) \/ MakesDir(m) \/ OpensFile(m) \/ RenamesFile(m) \/ RenamesForMessage(m))
           \/ DeleteLists \/ DeleteUnlinks \/ EnforceLists \/ EnforceTidies \/ UNCHANGED attachmentVars
  <2>1. UNCHANGED <<deletes, evictions, diskErrors, deaths, forgotten, removed, clashed>>
    BY <1>1, Zenon DEF TakesLegacy, MakesDir, OpensFile, RenamesFile, RenamesForMessage, DeleteLists, DeleteUnlinks,
       EnforceLists, EnforceTidies, attachmentVars, countVars, historyVars
  <2> QED
    BY <1>a, <2>1 DEF StoreCountTypes
<1>2. ASSUME NEW m \in Message, SaveLooks(m) PROVE StoreCountTypes'
  <2>1. /\ UNCHANGED <<deletes, evictions, diskErrors, deaths, forgotten, removed>>
        /\ clashed' = clashed \/ \E others \in SUBSET Message : clashed' = clashed \cup others \cup {m}
    BY <1>2 DEF SaveLooks
  <2> QED
    BY <1>a, <2>1 DEF StoreCountTypes
<1>3. ASSUME NEW m \in Message, WritesFile(m) PROVE StoreCountTypes'
  <2>1. /\ UNCHANGED <<deletes, evictions, deaths, forgotten, removed, clashed>>
        /\ diskErrors' = diskErrors \/ (diskErrors < MaxDiskErrors /\ diskErrors' = diskErrors + 1)
    BY <1>3, Zenon DEF WritesFile, historyVars
  <2> QED
    BY <1>a, <2>1 DEF StoreCountTypes
<1>4. ASSUME NEW m \in Message, DeleteFile(m) PROVE StoreCountTypes'
  <2>1. /\ UNCHANGED <<evictions, diskErrors, deaths, forgotten, clashed>>
        /\ deletes < MaxDeletes /\ deletes' = deletes + 1
    BY <1>4 DEF DeleteFile
  <2>2. removed' \subseteq Message
    BY <1>4, <1>a, <1>b DEF DeleteFile
  <2> QED
    BY <1>a, <2>1, <2>2 DEF StoreCountTypes
<1>5. ASSUME NEW s \in Sender, DeleteBegins(s) PROVE StoreCountTypes'
  <2>1. /\ UNCHANGED <<evictions, diskErrors, deaths, removed, clashed>>
        /\ deletes < MaxDeletes /\ deletes' = deletes + 1
    BY <1>5 DEF DeleteBegins
  <2>2. forgotten' \subseteq Sender
    BY <1>5, <1>a DEF DeleteBegins
  <2> QED
    BY <1>a, <2>1, <2>2 DEF StoreCountTypes
<1>6. CASE EnforceMeasures
  <2>1. /\ UNCHANGED <<deletes, diskErrors, deaths, forgotten, removed, clashed>>
        /\ evictions < MaxEvictions /\ evictions' = evictions + 1
    BY <1>6 DEF EnforceMeasures, historyVars
  <2> QED
    BY <1>a, <2>1 DEF StoreCountTypes
<1>7. CASE EnforceEvicts
  <2>1. /\ UNCHANGED <<deletes, evictions, diskErrors, deaths, forgotten, clashed>>
        /\ removed' = removed \/ \E p \in DOMAIN files : removed' = removed \cup wrote[files[p]]
    BY <1>7, Zenon DEF EnforceEvicts
  <2> QED
    BY <1>a, <1>b, <2>1 DEF StoreCountTypes
<1>8. CASE StoreDies
  <2>1. /\ UNCHANGED <<deletes, evictions, diskErrors, forgotten, removed, clashed>>
        /\ deaths < MaxDeaths /\ deaths' = deaths + 1
    BY <1>8 DEF StoreDies, historyVars
  <2> QED
    BY <1>a, <2>1 DEF StoreCountTypes
<1> QED
  BY <1>1, <1>2, <1>3, <1>4, <1>5, <1>6, <1>7, <1>8 DEF AttachmentNext

LEMMA AllStoreInvariant == AttachmentSpec => []AllStoreInv
<1>1. AttachmentInit => FolderTypes /\ StoreWorkTypes /\ StoreCountTypes
  BY StoreTypesStart
<1>2. StoreInv /\ (FolderTypes /\ StoreWorkTypes /\ StoreCountTypes) /\ [AttachmentNext]_attachmentVars =>
         (FolderTypes /\ StoreWorkTypes /\ StoreCountTypes)'
  BY FoldersStay, StoreWorkStays, StoreCountsStay DEF AllStoreInv
<1>3. StoreInv /\ (FolderTypes /\ StoreWorkTypes /\ StoreCountTypes) => AllStoreInv
  BY DEF AllStoreInv
<1> QED
  BY <1>1, <1>2, <1>3, StoreInvariant, PTL DEF AttachmentSpec

-----------------------------------------------------------------------------
(* The parts together.                                                      *)

\* In the run of the program a command and the screens of a device step as they do alone,
LEMMA PanesStepAlone ==
  /\ MCSpec => CommandSpec
  /\ MCSpec => TerminalSpec
  /\ MCSpec => DetailSpec
<1>1. MCInit => CommandInit /\ TerminalInit /\ DetailInit
  BY DEF MCInit
<1>2. [MCNext]_MCVars => [CommandNext]_commandVars
  BY Zenon DEF MCNext, MCVars, meshesVars
<1>3. [MCNext]_MCVars => [TerminalNext]_terminalVars
  BY Zenon DEF MCNext, MCVars
<1>4. [MCNext]_MCVars => [DetailNext]_deviceVars
  BY Zenon DEF MCNext, MCVars
<1> QED
  BY <1>1, <1>2, <1>3, <1>4, PTL
     DEF MCSpec, CommandSpec, TerminalSpec, DetailSpec

\* and so does what writes to the disks,
LEMMA DisksStepAlone ==
  /\ MCSpec => ForgeSpec
  /\ MCSpec => IdentitySpec
  /\ MCSpec => ConfigSpec
  /\ MCSpec => DatabaseSpec
  /\ MCSpec => DispatchSpec
  /\ MCSpec => AttachmentSpec
<1>1. MCInit => ForgeInit /\ IdentityInit /\ ConfigInit /\ DatabaseInit /\ DispatchInit /\ AttachmentInit
  BY DEF MCInit
<1>2. [MCNext]_MCVars => [ForgeNext]_forgeVars
  BY Zenon DEF MCNext, MCVars
<1>3. [MCNext]_MCVars => [IdentityNext]_identityVars
  BY Zenon DEF MCNext, MCVars, storeVars
<1>4. [MCNext]_MCVars => [ConfigNext]_configVars
  BY Zenon DEF MCNext, MCVars, storeVars
<1>5. [MCNext]_MCVars => [DatabaseNext]_databaseVars
  BY Zenon DEF MCNext, MCVars, meshesVars
<1>6. [MCNext]_MCVars => [DispatchNext]_dispatchVars
  BY Zenon DEF MCNext, MCVars, meshesVars, pathsVars
<1>7. [MCNext]_MCVars => [AttachmentNext]_attachmentVars
  BY Zenon DEF MCNext, MCVars, meshesVars, pathsVars
<1> QED
  BY <1>1, <1>2, <1>3, <1>4, <1>5, <1>6, <1>7, PTL
     DEF MCSpec, ForgeSpec, IdentitySpec, ConfigSpec, DatabaseSpec, DispatchSpec, AttachmentSpec

\* and what brings messages and data to the screens.
LEMMA ScreensStepAlone ==
  /\ MCSpec => StreamSpec
  /\ MCSpec => MessagesSpec
  /\ MCSpec => MeshSpec
  /\ MCSpec => FlowSpec
  /\ MCSpec => BrowserSpec
  /\ MCSpec => TablesSpec
<1>1. MCInit => StreamInit /\ MessagesInit /\ MeshInit /\ FlowInit /\ BrowserInit /\ TablesInit
  BY DEF MCInit
<1>2. [MCNext]_MCVars => [StreamNext]_streamVars
  BY Zenon DEF MCNext, MCVars, ipcVars
<1>3. [MCNext]_MCVars => [MessagesNext]_messageVars
  BY Zenon DEF MCNext, MCVars, ipcVars
<1>4. [MCNext]_MCVars => [MeshNext]_meshVars
  BY Zenon DEF MCNext, MCVars, meshesVars
<1>5. [MCNext]_MCVars => [FlowNext]_flowVars
  BY Zenon DEF MCNext, MCVars, meshesVars
<1>6. [MCNext]_MCVars => [BrowserNext]_browserVars
  BY Zenon DEF MCNext, MCVars
<1>7. [MCNext]_MCVars => [TablesNext]_tablesVars
  BY Zenon DEF MCNext, MCVars, meshesVars, pathsVars
<1> QED
  BY <1>1, <1>2, <1>3, <1>4, <1>5, <1>6, <1>7, PTL
     DEF MCSpec, StreamSpec, MessagesSpec, MeshSpec, FlowSpec, BrowserSpec, TablesSpec

\* No session outlives the terminal that opened it, no spinner its worker, and no
\* service the command that started it; no button acts on a single tap
\* (terminal_widget.py, mesh_device_detail.py, command_widget.py, cli.py).
THEOREM NothingIsLeftRunning == MCSpec => []NothingLeftRunning
<1>1. CommandInv /\ PaneSessionInv /\ DetailInv => NothingLeftRunning
  BY CommandShows, DetailShows DEF NothingLeftRunning, PaneSessionInv
<1> QED
  BY <1>1, CommandInvariant, PaneInvariant, DetailInvariant, PanesStepAlone, PTL

\* What is on the disks is what somebody confirmed, saved, configured or received: boot media,
\* identities, the configuration, contacts, messages and attachments (tui/forge, identity
\* storage, core_config.py, models/messages.py, protocols, attachment_store.py).
THEOREM WhatIsOnDiskIsTrue == MCSpec => []DiskIsTrue
<1>1. ForgeInv /\ IdentityInv /\ ConfigInv /\ DatabaseInv /\ DispatchInv /\ StoreInv => DiskIsTrue
  BY ForgeShows, IdentityShows, ConfigShows, DatabaseShows, DispatchShows, StoreShows, Zenon DEF DiskIsTrue
<1> QED
  BY <1>1, ForgeInvariant, IdentityInvariant, ConfigInvariant, DatabaseInvariant, DispatchInvariant, StoreInvariant,
     DisksStepAlone, PTL

\* A request gets its own answer, a session its own output and input, an event one
\* reader, and a message its handlers and its owner; what a screen shows is what was
\* asked for last and is still so (tui/services, ipc, protocols, terminal, tui/screens,
\* tui/widgets): of any nodes, peers, sessions, pages and messages.
THEOREM WhatIsShownIsTrue == MCSpec => []ScreenIsTrue
<1>1. /\ StreamTypeOK /\ AnswerIsOwn /\ EventsOnce
      /\ MessagesTypeOK /\ RequestReadsBack
      /\ MeshTypeOK /\ MessageReadsBack /\ CallReturnsItsAnswer
      /\ FlowTypeOK /\ OutputIsOwn /\ InputIsOwn /\ ExitIsLast
      /\ RecordsAreTrue /\ HandlersHaveIt /\ GoesToOwner
      /\ BrowserTypeOK /\ PageIsTrue /\ BackIsHome /\ PathIsShown
      /\ SeenInv /\ StatusNeverAges
      /\ TablesTypeOK /\ FilterIsBar /\ OpenedIsSelected /\ TablesAgree /\ CursorStaysOnNode
      => ScreenIsTrue
  <2>1. SeenInv => PaneIsTrue
    BY DEF SeenInv, HeardInv
  <2> QED
    BY <2>1, Zenon DEF ScreenIsTrue
<1> QED
  BY <1>1, PanesStepAlone, DisksStepAlone, ScreensStepAlone, AnswersAndEventsAreOwn, RequestsReadBack,
     MeshIsUnderstood, TerminalsKeepTheirOwn, MessagesAreHandled, PagesAreTrue, SeenInvariant, StatusInvariant,
     TablesAreTrue, PTL

\* What a step is about stays what it is.
Subjects == {"forge", "browser", "terminal", "detail", "answers", "events", "messages", "identity",
             "config", "mesh", "command", "database", "stream", "dispatch", "attachments", "nodes"}

LEMMA SubjectStays == MCSpec => [](subject \in Subjects)
<1>1. MCInit => subject \in Subjects
  BY Zenon DEF MCInit, Subjects
<1>2. subject \in Subjects /\ [MCNext]_MCVars => (subject \in Subjects)'
  <2>1. [MCNext]_MCVars => UNCHANGED subject
    BY Zenon DEF MCNext, MCVars
  <2> QED
    BY <2>1
<1> QED
  BY <1>1, <1>2, PTL DEF MCSpec

\* Every part of the program keeps its state within its types: of any nodes, disks, peers,
\* sessions, pages, messages and files.
THEOREM ProgramIsTyped == MCSpec => []ProgramTypeOK
<1>1. ForgeInv /\ IdentityInv /\ ConfigInv /\ DatabaseInv /\ DispatchInv
      => ForgeTypeOK /\ IdentityTypeOK /\ ConfigTypeOK /\ DatabaseTypeOK /\ DispatchTypeOK
  BY ForgeShows, IdentityShows, ConfigShows, DatabaseShows, DispatchShows, Zenon
<1>2. CommandInv /\ PaneSessionInv /\ DetailInv => CommandTypeOK /\ TerminalTypeOK /\ DetailTypeOK
  BY CommandShows, Zenon DEF PaneSessionInv, DetailInv
<1>3. /\ subject \in Subjects
      /\ ForgeTypeOK /\ IdentityTypeOK /\ ConfigTypeOK /\ DatabaseTypeOK /\ DispatchTypeOK
      /\ CommandTypeOK /\ TerminalTypeOK /\ DetailTypeOK /\ AttachmentTypeOK
      /\ StreamTypeOK /\ MessagesTypeOK /\ MeshTypeOK /\ FlowTypeOK /\ BrowserTypeOK /\ TablesTypeOK
      => ProgramTypeOK
  BY Zenon DEF ProgramTypeOK, Subjects
<1> QED
  BY <1>1, <1>2, <1>3, SubjectStays, StoreTypesShow, AllStoreInvariant, PanesStepAlone, DisksStepAlone,
     ScreensStepAlone, ForgeInvariant, IdentityInvariant, ConfigInvariant, DatabaseInvariant, DispatchInvariant,
     CommandInvariant, PaneInvariant, DetailInvariant, AnswersAndEventsAreOwn, RequestsReadBack, MeshIsUnderstood, TerminalsKeepTheirOwn,
     PagesAreTrue, TablesAreTrue, PTL
================================================================================
