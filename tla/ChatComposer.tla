----------------------------- MODULE ChatComposer -----------------------------
(***************************************************************************)
(* What the user of a chat puts together and selects                        *)
(* (tui/widgets/chat_widget.py): the line, the attachment that is staged    *)
(* for the next message, the reply, the selected message and what is asked  *)
(* twice before it is done.  Files are read by workers while the user goes  *)
(* on.  ChatWidget has the messages themselves.                              *)
(***************************************************************************)
EXTENDS Naturals, Sequences

CONSTANTS
    Message,        \* ids of the messages shown at first, in their order
    Reader,         \* bound: files read at once
    MaxKeys,        \* bound: what the user does
    MaxTroubles     \* bound: failures

ASSUME ComposerAssumption ==
    Message \subseteq Nat \ {0} /\ {MaxKeys, MaxTroubles} \subseteq Nat

VARIABLES
    pending_attachment,  \* nothing, a prompt for a path, or an attachment
    line,                \* what #chat-input has
    typing,              \* #chat-input has the focus
    readers,             \* _stage_attachment_from_path: where it is, of which file
    attachments,         \* how many the user has chosen: each has a number
    reply_to, selected, search_open,
    bubbles,             \* the messages shown
    delete_asked,        \* _delete_pending
    starting, asking,    \* how many _execute_delete of a message will start, or wait
    outgoing,            \* what _send_message was called with
    left,                \* the chat has been left
    keys, troubles,
    given_up,            \* attachments that were staged and then cancelled
    confirming,          \* the message of the last d, within its time
    wrong,               \* messages whose deletion nobody confirmed
    stuck                \* messages whose deletion found no bridge

draftVars == <<pending_attachment, line, typing, readers, attachments, outgoing, given_up>>
pickVars == <<reply_to, selected, search_open, bubbles>>
askVars == <<delete_asked, starting, asking, confirming, wrong, stuck>>
composerVars == <<draftVars, pickVars, askVars, left, keys, troubles>>

Attachment == 1..MaxKeys
NotReading == [at |-> "none", file |-> 0]
NothingAttached == [is |-> "nothing", file |-> 0]
Prompt == [is |-> "prompt", file |-> 0]
Staged(a) == [is |-> "staged", file |-> a]

DraftTypeOK ==
    /\ pending_attachment \in {NothingAttached, Prompt} \cup {Staged(a) : a \in Attachment}
    /\ line \in {"empty", "words", "path"} /\ typing \in BOOLEAN
    /\ readers \in [Reader -> [at : {"none", "starts", "reads"}, file : 0..MaxKeys]]
    /\ \A r \in Reader : readers[r].at = "reads" => readers[r].file # 0
    /\ outgoing \in Seq([attachment : 0..MaxKeys, reply : Message \cup {0}])
    /\ given_up \subseteq Attachment

PickTypeOK ==
    /\ bubbles \subseteq Message /\ search_open \in BOOLEAN
    /\ reply_to \in Message \cup {0} /\ selected \in Message \cup {0}

AskTypeOK ==
    /\ delete_asked \in Message \cup {0} /\ confirming \in Message \cup {0}
    /\ starting \in [Message -> Nat] /\ asking \in [Message -> Nat]

CountTypeOK ==
    /\ left \in BOOLEAN /\ troubles \in 0..MaxTroubles
    /\ keys \in 0..MaxKeys /\ attachments \in 0..keys

ComposerTypeOK == DraftTypeOK /\ PickTypeOK /\ AskTypeOK /\ CountTypeOK

ComposerInit ==
    /\ pending_attachment = NothingAttached /\ line = "empty" /\ typing = TRUE
    /\ readers = [r \in Reader |-> NotReading] /\ attachments = 0
    /\ reply_to = 0 /\ selected = 0 /\ search_open = FALSE /\ bubbles = Message
    /\ delete_asked = 0 /\ starting = [m \in Message |-> 0] /\ asking = starting
    /\ outgoing = <<>> /\ left = FALSE /\ keys = 0 /\ troubles = 0
    /\ given_up = {} /\ confirming = 0 /\ wrong = {} /\ stuck = {}

Key == ~left /\ keys < MaxKeys /\ keys' = keys + 1
Trouble == troubles < MaxTroubles /\ troubles' = troubles + 1

-----------------------------------------------------------------------------
(* The line and what is attached.                                           *)

TypesLine(l) ==
    /\ Key /\ typing /\ line' = l
    /\ UNCHANGED <<pending_attachment, typing, readers, attachments, outgoing, given_up,
                   pickVars, askVars, left, troubles>>

ToggleFocus ==
    /\ Key /\ typing' = ~typing
    /\ UNCHANGED <<pending_attachment, line, readers, attachments, outgoing, given_up,
                   pickVars, askVars, left, troubles>>

\* One that the user has seen staged is dropped, or the prompt is.
GivesUp ==
    /\ pending_attachment' = NothingAttached
    /\ given_up' = given_up \cup ({pending_attachment.file} \ {0})

\* a, and ctrl+y wherever the focus is: what is there is cancelled; otherwise the
\* clipboard is staged, or a path asked for.
Attach ==
    /\ Key
    /\ IF pending_attachment # NothingAttached
       THEN GivesUp /\ UNCHANGED <<line, typing, attachments>>
       ELSE /\ \/ /\ attachments' = attachments + 1
                  /\ pending_attachment' = Staged(attachments + 1) /\ UNCHANGED line
               \/ pending_attachment' = Prompt /\ line' = "empty" /\ UNCHANGED attachments
            /\ typing' = TRUE /\ UNCHANGED given_up
    /\ UNCHANGED <<readers, outgoing, pickVars, askVars, left, troubles>>

\* ctrl+v: an image replaces whatever is there.
StagesClipboard ==
    /\ Key /\ attachments' = attachments + 1
    /\ pending_attachment' = Staged(attachments + 1) /\ typing' = TRUE
    /\ UNCHANGED <<line, readers, outgoing, given_up, pickVars, askVars, left, troubles>>

BeginsReading(r, file) ==
    /\ readers[r] = NotReading
    /\ readers' = [readers EXCEPT ![r] = [at |-> "starts", file |-> file]]

\* A path is pasted.
OnPaste(r) ==
    /\ Key /\ attachments' = attachments + 1 /\ BeginsReading(r, attachments + 1)
    /\ UNCHANGED <<pending_attachment, line, typing, outgoing, given_up, pickVars, askVars,
                   left, troubles>>

\* Enter at the prompt: the line is taken for a path, whatever it is.
SubmitPath(r) ==
    LET file == IF line = "path" THEN attachments + 1 ELSE 0 IN
    /\ Key /\ typing /\ pending_attachment = Prompt /\ line # "empty"
    /\ BeginsReading(r, file) /\ line' = "empty"
    /\ attachments' = IF file = 0 THEN attachments ELSE file
    /\ UNCHANGED <<pending_attachment, typing, outgoing, given_up, pickVars, askVars,
                   left, troubles>>

\* Mutant of SubmitMessage: the attachment stays.
SubmitMessageKeeps ==
    /\ Key /\ typing /\ pending_attachment # Prompt
    /\ line # "empty" \/ pending_attachment # NothingAttached
    /\ outgoing' = Append(outgoing, [attachment |-> pending_attachment.file, reply |-> reply_to])
    /\ line' = "empty" /\ reply_to' = 0
    /\ UNCHANGED <<pending_attachment, typing, readers, attachments, given_up, selected,
                   search_open, bubbles, askVars, left, troubles>>

\* Enter: the line goes with what is attached and the reply, both of which are cleared.
SubmitMessage ==
    /\ Key /\ typing /\ pending_attachment # Prompt
    /\ line # "empty" \/ pending_attachment # NothingAttached
    /\ outgoing' = Append(outgoing, [attachment |-> pending_attachment.file, reply |-> reply_to])
    /\ line' = "empty" /\ reply_to' = 0 /\ pending_attachment' = NothingAttached
    /\ UNCHANGED <<typing, readers, attachments, given_up, selected, search_open, bubbles,
                   askVars, left, troubles>>

\* The worker starts: the file is there, or nothing is attached any more.
ReadingStarts(r) ==
    /\ ~left /\ readers[r].at = "starts"
    /\ \/ /\ readers[r].file # 0 /\ readers' = [readers EXCEPT ![r].at = "reads"]
          /\ UNCHANGED <<pending_attachment, troubles>>
       \/ /\ (readers[r].file = 0 /\ UNCHANGED troubles) \/ Trouble
          /\ readers' = [readers EXCEPT ![r] = NotReading] /\ pending_attachment' = NothingAttached
    /\ UNCHANGED <<line, typing, attachments, outgoing, given_up, pickVars, askVars,
                   left, keys>>

\* It has been read: it is staged, whatever the user has done meanwhile, and the line is
\* cleared.
ReadingEnds(r) ==
    /\ ~left /\ readers[r].at = "reads"
    /\ \/ /\ pending_attachment' = Staged(readers[r].file) /\ line' = "empty"
          /\ UNCHANGED troubles
       \/ Trouble /\ pending_attachment' = NothingAttached /\ UNCHANGED line
    /\ readers' = [readers EXCEPT ![r] = NotReading]
    /\ UNCHANGED <<typing, attachments, outgoing, given_up, pickVars, askVars, left, keys>>

-----------------------------------------------------------------------------
(* Selection, replies, search; escape.                                      *)

\* The next of the bubbles above or below; none, when the selected one is gone.
Neighbour(up) ==
    IF selected = 0
    THEN {m \in bubbles : \A n \in bubbles : IF up THEN n <= m ELSE m <= n}
    ELSE IF selected \notin bubbles THEN {}
    ELSE {m \in bubbles : /\ IF up THEN m < selected ELSE m > selected
                          /\ \A n \in bubbles : IF up THEN n <= m \/ n >= selected
                                                ELSE n >= m \/ n <= selected}

Select(up) ==
    /\ Key /\ ~typing /\ \E m \in Neighbour(up) : selected' = m
    /\ UNCHANGED <<draftVars, reply_to, search_open, bubbles, askVars, left, troubles>>

ReplyToMessage ==
    /\ Key /\ ~typing /\ selected \in bubbles
    /\ reply_to' = selected /\ typing' = TRUE
    /\ UNCHANGED <<pending_attachment, line, readers, attachments, outgoing, given_up,
                   selected, search_open, bubbles, askVars, left, troubles>>

\* Opened, the search has the focus; closed, it is gone.
ToggleSearch ==
    /\ Key /\ ~typing /\ search_open' = ~search_open
    /\ UNCHANGED <<draftVars, reply_to, selected, bubbles, askVars, left, troubles>>

\* Mutant of EscapeAttachment: only the line is cleared.
EscapeAttachmentLine ==
    /\ Key /\ pending_attachment # NothingAttached
    /\ given_up' = given_up \cup ({pending_attachment.file} \ {0}) /\ line' = "empty"
    /\ UNCHANGED <<pending_attachment, typing, readers, attachments, outgoing, pickVars, askVars,
                   left, troubles>>

\* Escape takes back one thing, the attachment first.
EscapeAttachment ==
    /\ Key /\ pending_attachment # NothingAttached /\ GivesUp /\ line' = "empty"
    /\ UNCHANGED <<typing, readers, attachments, outgoing, pickVars, askVars, left, troubles>>

\* Leaving the chat ends its workers.
EscapeOther ==
    /\ Key /\ pending_attachment = NothingAttached
    /\ IF reply_to # 0 THEN reply_to' = 0 /\ UNCHANGED <<search_open, selected, left>>
       ELSE IF search_open THEN search_open' = FALSE /\ UNCHANGED <<reply_to, selected, left>>
       ELSE IF selected # 0 THEN selected' = 0 /\ UNCHANGED <<reply_to, search_open, left>>
       ELSE left' = TRUE /\ UNCHANGED <<reply_to, search_open, selected>>
    /\ UNCHANGED <<draftVars, bubbles, askVars, troubles>>

\* A refresh finds a message gone.
BubbleGoes(m) ==
    /\ ~left /\ m \in bubbles /\ Trouble /\ bubbles' = bubbles \ {m}
    /\ UNCHANGED <<draftVars, reply_to, selected, search_open, askVars, left, keys>>

-----------------------------------------------------------------------------
(* What is asked twice.                                                     *)

\* Mutant of PressD: whichever message was asked about.
PressDAnything ==
    /\ Key /\ ~typing /\ selected \in bubbles
    /\ IF delete_asked # 0
       THEN /\ starting' = [starting EXCEPT ![selected] = @ + 1]
            /\ wrong' = IF confirming = selected \/ starting[selected] > 0
                        THEN wrong ELSE wrong \cup {selected}
            /\ confirming' = 0 /\ UNCHANGED delete_asked
       ELSE delete_asked' = selected /\ confirming' = selected /\ UNCHANGED <<starting, wrong>>
    /\ UNCHANGED <<draftVars, pickVars, asking, stuck, left, troubles>>

\* The second d on one message within the time deletes it.
PressD ==
    /\ Key /\ ~typing /\ selected \in bubbles
    /\ IF delete_asked = selected
       THEN /\ starting' = [starting EXCEPT ![selected] = @ + 1]
            /\ wrong' = IF confirming = selected \/ starting[selected] > 0
                        THEN wrong ELSE wrong \cup {selected}
            /\ confirming' = 0 /\ UNCHANGED delete_asked
       ELSE delete_asked' = selected /\ confirming' = selected /\ UNCHANGED <<starting, wrong>>
    /\ UNCHANGED <<draftVars, pickVars, asking, stuck, left, troubles>>

\* The time is over: the timer, which the second d has stopped, clears it.
DeleteTimeOver ==
    /\ ~left /\ confirming # 0 /\ confirming' = 0 /\ delete_asked' = 0
    /\ UNCHANGED <<draftVars, pickVars, starting, asking, wrong, stuck, left, keys, troubles>>

\* Without a bridge the worker returns before it clears what was asked.
DeleteStarts(m) ==
    /\ ~left /\ starting[m] > 0 /\ starting' = [starting EXCEPT ![m] = @ - 1]
    /\ \/ /\ asking' = [asking EXCEPT ![m] = @ + 1] /\ delete_asked' = 0
          /\ UNCHANGED <<stuck, troubles>>
       \/ Trouble /\ stuck' = stuck \cup {m} /\ UNCHANGED <<asking, delete_asked>>
    /\ UNCHANGED <<draftVars, pickVars, confirming, wrong, left, keys>>

\* It is deleted, which takes the selection, or refused.
DeleteReturns(m) ==
    /\ ~left /\ asking[m] > 0 /\ asking' = [asking EXCEPT ![m] = @ - 1]
    /\ \/ bubbles' = bubbles \ {m} /\ selected' = 0 /\ UNCHANGED troubles
       \/ Trouble /\ UNCHANGED <<bubbles, selected>>
    /\ UNCHANGED <<draftVars, reply_to, search_open, delete_asked, starting, confirming, wrong,
                   stuck, left, keys>>

ComposerNext ==
    \/ \E l \in {"words", "path"} : TypesLine(l)
    \/ ToggleFocus \/ Attach \/ StagesClipboard \/ SubmitMessage
    \/ \E r \in Reader : OnPaste(r) \/ SubmitPath(r) \/ ReadingStarts(r) \/ ReadingEnds(r)
    \/ \E up \in BOOLEAN : Select(up)
    \/ ReplyToMessage \/ ToggleSearch \/ EscapeAttachment \/ EscapeOther
    \/ PressD \/ DeleteTimeOver
    \/ \E m \in Message : BubbleGoes(m) \/ DeleteStarts(m) \/ DeleteReturns(m)

ComposerSpec == ComposerInit /\ [][ComposerNext]_composerVars

-----------------------------------------------------------------------------
(* Properties.                                                             *)

\* What the user has attached goes with one message at most, whichever files are read
\* meanwhile; and what was staged and then cancelled goes with none.  (A file that is
\* still being read when the prompt is cancelled is staged all the same.)
AttachedOnce ==
    \A i, j \in DOMAIN outgoing :
        LET a == outgoing[i].attachment IN
        a # 0 => a \notin given_up /\ (i # j => outgoing[j].attachment # a)

\* A message is deleted only when d was pressed twice on it within the time, through
\* moves of the selection, other deletions and messages that go; but for one whose
\* deletion found no bridge, which stays asked about.
DeletedWasMeant == wrong \subseteq stuck
===============================================================================
