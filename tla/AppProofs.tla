------------------------------- MODULE AppProofs -------------------------------
(***************************************************************************)
(* That an attachment goes with one message at most, that nothing is        *)
(* deleted unasked, that the table of nodes follows the cache, that a save   *)
(* that is reported is what the next start loads, and the types of these     *)
(* parts and of the chat, for any values of the constants; and the          *)
(* composition of these.                                                    *)
(***************************************************************************)
EXTENDS MCApp, FiniteSetTheorems, TLAPS

-----------------------------------------------------------------------------
(* Where the number of an attachment can be.                                *)

\* Each number that is somewhere has been given out.
GivenOut ==
    /\ pending_attachment.file <= attachments
    /\ \A r \in Reader : readers[r].file <= attachments
    /\ \A i \in DOMAIN outgoing : outgoing[i].attachment <= attachments
    /\ \A a \in given_up : a <= attachments

\* A file that is being read is nowhere else.
ReadersAlone ==
    \A r \in Reader : readers[r].file # 0 =>
        /\ readers[r].file # pending_attachment.file /\ readers[r].file \notin given_up
        /\ \A i \in DOMAIN outgoing : outgoing[i].attachment # readers[r].file
        /\ \A q \in Reader \ {r} : readers[q].file # readers[r].file

\* What is staged has neither gone nor been given up.
StagedAlone ==
    pending_attachment.file # 0 =>
        /\ pending_attachment.file \notin given_up
        /\ \A i \in DOMAIN outgoing : outgoing[i].attachment # pending_attachment.file

AttachInv == GivenOut /\ ReadersAlone /\ StagedAlone /\ AttachedOnce

\* What is asked about was asked just now, or is about to be deleted, or found no bridge.
AskedInv ==
    delete_asked # 0 =>
        confirming = delete_asked \/ starting[delete_asked] > 0 \/ delete_asked \in stuck

Read(r) == OnPaste(r) \/ SubmitPath(r) \/ ReadingStarts(r) \/ ReadingEnds(r)
Drafts == Attach \/ StagesClipboard \/ SubmitMessage \/ EscapeAttachment \/ \E r \in Reader : Read(r)
Others == \/ \E l \in {"words", "path"} : TypesLine(l)
          \/ ToggleFocus \/ \E up \in BOOLEAN : Select(up)
          \/ ReplyToMessage \/ ToggleSearch \/ EscapeOther \/ \E m \in Message : BubbleGoes(m)
Asks == PressD \/ DeleteTimeOver \/ \E m \in Message : DeleteStarts(m) \/ DeleteReturns(m)

\* The steps by what they touch.
LEMMA ComposerSteps == ComposerNext => Drafts \/ Others \/ Asks
  BY DEF ComposerNext, Drafts, Others, Asks, Read

-----------------------------------------------------------------------------
(* What each kind of step leaves alone.                                      *)

\* The steps of a draft leave the selection and what is asked.
LEMMA DraftsLeave == Drafts => UNCHANGED <<selected, search_open, bubbles, askVars>>
  <1> SUFFICES ASSUME Drafts PROVE UNCHANGED <<selected, search_open, bubbles, askVars>>
    OBVIOUS
  <1> USE DEF pickVars, askVars
  <1>1. CASE Attach BY <1>1 DEF Attach
  <1>2. CASE StagesClipboard BY <1>2 DEF StagesClipboard
  <1>3. CASE SubmitMessage BY <1>3 DEF SubmitMessage
  <1>4. CASE EscapeAttachment BY <1>4 DEF EscapeAttachment
  <1>5. ASSUME NEW r \in Reader, OnPaste(r) PROVE UNCHANGED <<selected, search_open, bubbles, askVars>>
    BY <1>5 DEF OnPaste
  <1>6. ASSUME NEW r \in Reader, SubmitPath(r) PROVE UNCHANGED <<selected, search_open, bubbles, askVars>>
    BY <1>6 DEF SubmitPath
  <1>7. ASSUME NEW r \in Reader, ReadingStarts(r) PROVE UNCHANGED <<selected, search_open, bubbles, askVars>>
    BY <1>7 DEF ReadingStarts
  <1>8. ASSUME NEW r \in Reader, ReadingEnds(r) PROVE UNCHANGED <<selected, search_open, bubbles, askVars>>
    BY <1>8 DEF ReadingEnds
  <1> QED BY <1>1, <1>2, <1>3, <1>4, <1>5, <1>6, <1>7, <1>8 DEF Drafts, Read

\* The other steps of the user leave the attachments and what is asked.
LEMMA OthersLeave == Others => UNCHANGED <<pending_attachment, readers, attachments, outgoing, given_up, askVars>>
  <1> SUFFICES ASSUME Others PROVE UNCHANGED <<pending_attachment, readers, attachments, outgoing, given_up, askVars>>
    OBVIOUS
  <1> USE DEF draftVars, askVars
  <1>1. ASSUME NEW l \in {"words", "path"}, TypesLine(l) PROVE UNCHANGED <<pending_attachment, readers, attachments, outgoing, given_up, askVars>>
    BY <1>1 DEF TypesLine
  <1>2. CASE ToggleFocus BY <1>2 DEF ToggleFocus
  <1>3. ASSUME NEW up \in BOOLEAN, Select(up) PROVE UNCHANGED <<pending_attachment, readers, attachments, outgoing, given_up, askVars>>
    BY <1>3 DEF Select
  <1>4. CASE ReplyToMessage BY <1>4 DEF ReplyToMessage
  <1>5. CASE ToggleSearch BY <1>5 DEF ToggleSearch
  <1>6. CASE EscapeOther BY <1>6 DEF EscapeOther
  <1>7. ASSUME NEW m \in Message, BubbleGoes(m) PROVE UNCHANGED <<pending_attachment, readers, attachments, outgoing, given_up, askVars>>
    BY <1>7 DEF BubbleGoes
  <1> QED BY <1>1, <1>2, <1>3, <1>4, <1>5, <1>6, <1>7 DEF Others

\* Deletions leave the draft.
LEMMA AsksLeave == Asks => UNCHANGED <<draftVars, reply_to, search_open>>
  <1> SUFFICES ASSUME Asks PROVE UNCHANGED <<draftVars, reply_to, search_open>>
    OBVIOUS
  <1> USE DEF draftVars, pickVars
  <1>1. CASE PressD BY <1>1 DEF PressD
  <1>2. CASE DeleteTimeOver BY <1>2 DEF DeleteTimeOver
  <1>3. ASSUME NEW m \in Message, DeleteStarts(m) PROVE UNCHANGED <<draftVars, reply_to, search_open>>
    BY <1>3 DEF DeleteStarts
  <1>4. ASSUME NEW m \in Message, DeleteReturns(m) PROVE UNCHANGED <<draftVars, reply_to, search_open>>
    BY <1>4 DEF DeleteReturns
  <1> QED BY <1>1, <1>2, <1>3, <1>4 DEF Asks

-----------------------------------------------------------------------------
(* Types.                                                                   *)

\* What is given up was an attachment or the prompt.
LEMMA GivesUpTypes ==
  ComposerTypeOK /\ GivesUp => given_up' \subseteq Attachment /\ pending_attachment' = NothingAttached
  <1> SUFFICES ASSUME ComposerTypeOK, GivesUp
               PROVE given_up' \subseteq Attachment /\ pending_attachment' = NothingAttached
    OBVIOUS
  <1>1. pending_attachment.file = 0 \/ pending_attachment.file \in Attachment
    BY DEF ComposerTypeOK, DraftTypeOK, NothingAttached, Prompt, Staged
  <1>2. given_up \subseteq Attachment BY DEF ComposerTypeOK, DraftTypeOK
  <1> QED BY <1>1, <1>2 DEF GivesUp

\* The draft keeps its types in its own steps.
LEMMA DraftsDraft == ComposerTypeOK /\ Drafts => DraftTypeOK'
  <1> SUFFICES ASSUME ComposerTypeOK, Drafts PROVE DraftTypeOK'
    OBVIOUS
  <1> USE ComposerAssumption DEF ComposerTypeOK, DraftTypeOK, CountTypeOK, Key, Attachment, Staged, NothingAttached, Prompt
  <1>1. CASE Attach
    <2>1. CASE pending_attachment # NothingAttached
      <3>1. GivesUp BY <1>1, <2>1 DEF Attach
      <3>2. given_up' \subseteq 1..MaxKeys /\ pending_attachment' = NothingAttached
        BY <3>1, GivesUpTypes
      <3> QED BY <1>1, <2>1, <3>2 DEF Attach
    <2>2. CASE pending_attachment = NothingAttached
      <3>1. attachments + 1 \in Attachment BY <1>1 DEF Attach
      <3> QED BY <1>1, <2>2, <3>1 DEF Attach
    <2> QED BY <2>1, <2>2
  <1>2. CASE StagesClipboard BY <1>2 DEF StagesClipboard
  <1>3. CASE SubmitMessage
    <2>1. pending_attachment.file \in 0..MaxKeys OBVIOUS
    <2>2. [attachment |-> pending_attachment.file, reply |-> reply_to]
            \in [attachment : 0..MaxKeys, reply : Message \cup {0}]
      BY <2>1 DEF PickTypeOK
    <2>3. outgoing' \in Seq([attachment : 0..MaxKeys, reply : Message \cup {0}])
      BY <1>3, <2>2, outgoing \in Seq([attachment : 0..MaxKeys, reply : Message \cup {0}]) DEF SubmitMessage
    <2> QED BY <1>3, <2>3 DEF SubmitMessage
  <1>4. CASE EscapeAttachment
    <2>1. given_up' \subseteq 1..MaxKeys /\ pending_attachment' = NothingAttached
      BY <1>4, GivesUpTypes DEF EscapeAttachment
    <2> QED BY <1>4, <2>1 DEF EscapeAttachment
  <1>5. ASSUME NEW r \in Reader, OnPaste(r) PROVE DraftTypeOK'
    BY <1>5 DEF OnPaste, BeginsReading
  <1>6. ASSUME NEW r \in Reader, SubmitPath(r) PROVE DraftTypeOK'
    <2>1. PICK file \in 0..MaxKeys : BeginsReading(r, file)
      BY <1>6 DEF SubmitPath
    <2>2. readers' \in [Reader -> [at : {"none", "starts", "reads"}, file : 0..MaxKeys]]
      BY <2>1 DEF BeginsReading
    <2>3. \A q \in Reader : readers'[q].at = "reads" => readers'[q].file # 0
      BY <2>1 DEF BeginsReading
    <2> QED BY <1>6, <2>2, <2>3 DEF SubmitPath
  <1>7. ASSUME NEW r \in Reader, ReadingStarts(r) PROVE DraftTypeOK'
    <2>1. /\ readers' \in [Reader -> [at : {"none", "starts", "reads"}, file : 0..MaxKeys]]
          /\ \A q \in Reader : readers'[q].at = "reads" => readers'[q].file # 0
      <3>1. CASE readers[r].file # 0 /\ readers' = [readers EXCEPT ![r].at = "reads"]
        BY <3>1
      <3>2. CASE readers' = [readers EXCEPT ![r] = NotReading]
        BY <3>2 DEF NotReading
      <3> QED BY <1>7, <3>1, <3>2 DEF ReadingStarts
    <2>2. pending_attachment' = pending_attachment \/ pending_attachment' = NothingAttached
      BY <1>7 DEF ReadingStarts
    <2> QED BY <1>7, <2>1, <2>2 DEF ReadingStarts
  <1>8. ASSUME NEW r \in Reader, ReadingEnds(r) PROVE DraftTypeOK'
    BY <1>8 DEF ReadingEnds, NotReading
  <1> QED BY <1>1, <1>2, <1>3, <1>4, <1>5, <1>6, <1>7, <1>8 DEF Drafts, Read

\* So it does in the other steps of the user.
LEMMA OthersDraft == ComposerTypeOK /\ Others => DraftTypeOK'
  <1> SUFFICES ASSUME ComposerTypeOK, Others PROVE DraftTypeOK'
    OBVIOUS
  <1> USE DEF ComposerTypeOK, DraftTypeOK, draftVars
  <1>1. ASSUME NEW l \in {"words", "path"}, TypesLine(l) PROVE DraftTypeOK'
    BY <1>1 DEF TypesLine
  <1>2. CASE ToggleFocus BY <1>2 DEF ToggleFocus
  <1>3. ASSUME NEW up \in BOOLEAN, Select(up) PROVE DraftTypeOK'
    BY <1>3 DEF Select
  <1>4. CASE ReplyToMessage BY <1>4 DEF ReplyToMessage
  <1>5. CASE ToggleSearch BY <1>5 DEF ToggleSearch
  <1>6. CASE EscapeOther BY <1>6 DEF EscapeOther
  <1>7. ASSUME NEW m \in Message, BubbleGoes(m) PROVE DraftTypeOK'
    BY <1>7 DEF BubbleGoes
  <1> QED BY <1>1, <1>2, <1>3, <1>4, <1>5, <1>6, <1>7 DEF Others

\* So do the selection, reply and search.
LEMMA OthersPick == ComposerTypeOK /\ Others => PickTypeOK'
  <1> SUFFICES ASSUME ComposerTypeOK, Others PROVE PickTypeOK'
    OBVIOUS
  <1> USE DEF ComposerTypeOK, PickTypeOK, pickVars
  <1>1. ASSUME NEW l \in {"words", "path"}, TypesLine(l) PROVE PickTypeOK'
    BY <1>1 DEF TypesLine
  <1>2. CASE ToggleFocus BY <1>2 DEF ToggleFocus
  <1>3. ASSUME NEW up \in BOOLEAN, Select(up) PROVE PickTypeOK'
    BY <1>3 DEF Select, Neighbour
  <1>4. CASE ReplyToMessage BY <1>4 DEF ReplyToMessage
  <1>5. CASE ToggleSearch BY <1>5 DEF ToggleSearch
  <1>6. CASE EscapeOther BY <1>6 DEF EscapeOther
  <1>7. ASSUME NEW m \in Message, BubbleGoes(m) PROVE PickTypeOK'
    BY <1>7 DEF BubbleGoes
  <1> QED BY <1>1, <1>2, <1>3, <1>4, <1>5, <1>6, <1>7 DEF Others

\* A deletion takes a message and the selection.
LEMMA AsksPick == ComposerTypeOK /\ Asks => PickTypeOK'
  <1> SUFFICES ASSUME ComposerTypeOK, Asks PROVE PickTypeOK'
    OBVIOUS
  <1> USE DEF ComposerTypeOK, PickTypeOK, pickVars
  <1>1. CASE PressD BY <1>1 DEF PressD
  <1>2. CASE DeleteTimeOver BY <1>2 DEF DeleteTimeOver
  <1>3. ASSUME NEW m \in Message, DeleteStarts(m) PROVE PickTypeOK'
    BY <1>3 DEF DeleteStarts
  <1>4. ASSUME NEW m \in Message, DeleteReturns(m) PROVE PickTypeOK'
    BY <1>4 DEF DeleteReturns
  <1> QED BY <1>1, <1>2, <1>3, <1>4 DEF Asks

\* A message that goes takes the reply.
LEMMA DraftsPick == ComposerTypeOK /\ Drafts => PickTypeOK'
  <1> SUFFICES ASSUME ComposerTypeOK, Drafts PROVE PickTypeOK'
    OBVIOUS
  <1> USE DEF ComposerTypeOK, PickTypeOK, pickVars
  <1>1. CASE Attach BY <1>1 DEF Attach
  <1>2. CASE StagesClipboard BY <1>2 DEF StagesClipboard
  <1>3. CASE SubmitMessage BY <1>3 DEF SubmitMessage
  <1>4. CASE EscapeAttachment BY <1>4 DEF EscapeAttachment
  <1>5. ASSUME NEW r \in Reader, OnPaste(r) PROVE PickTypeOK'
    BY <1>5 DEF OnPaste
  <1>6. ASSUME NEW r \in Reader, SubmitPath(r) PROVE PickTypeOK'
    BY <1>6 DEF SubmitPath
  <1>7. ASSUME NEW r \in Reader, ReadingStarts(r) PROVE PickTypeOK'
    BY <1>7 DEF ReadingStarts
  <1>8. ASSUME NEW r \in Reader, ReadingEnds(r) PROVE PickTypeOK'
    BY <1>8 DEF ReadingEnds
  <1> QED BY <1>1, <1>2, <1>3, <1>4, <1>5, <1>6, <1>7, <1>8 DEF Drafts, Read

\* What is asked keeps its types.
LEMMA AsksAsk == ComposerTypeOK /\ Asks => AskTypeOK'
  <1> SUFFICES ASSUME ComposerTypeOK, Asks PROVE AskTypeOK'
    OBVIOUS
  <1> USE DEF ComposerTypeOK, AskTypeOK, PickTypeOK
  <1>1. CASE PressD BY <1>1 DEF PressD
  <1>2. CASE DeleteTimeOver BY <1>2 DEF DeleteTimeOver
  <1>3. ASSUME NEW m \in Message, DeleteStarts(m) PROVE AskTypeOK'
    BY <1>3 DEF DeleteStarts
  <1>4. ASSUME NEW m \in Message, DeleteReturns(m) PROVE AskTypeOK'
    BY <1>4 DEF DeleteReturns
  <1> QED BY <1>1, <1>2, <1>3, <1>4 DEF Asks

\* The bounds hold in the steps of the draft,
LEMMA DraftsCount == ComposerTypeOK /\ Drafts => CountTypeOK'
  <1> SUFFICES ASSUME ComposerTypeOK, Drafts PROVE CountTypeOK'
    OBVIOUS
  <1> USE ComposerAssumption DEF ComposerTypeOK, CountTypeOK, Key, Trouble
  <1>1. CASE Attach BY <1>1 DEF Attach, GivesUp
  <1>2. CASE StagesClipboard BY <1>2 DEF StagesClipboard
  <1>3. CASE SubmitMessage BY <1>3 DEF SubmitMessage
  <1>4. CASE EscapeAttachment BY <1>4 DEF EscapeAttachment, draftVars
  <1>5. ASSUME NEW r \in Reader, OnPaste(r) PROVE CountTypeOK'
    BY <1>5 DEF OnPaste, BeginsReading
  <1>6. ASSUME NEW r \in Reader, SubmitPath(r) PROVE CountTypeOK'
    BY <1>6 DEF SubmitPath, BeginsReading
  <1>7. ASSUME NEW r \in Reader, ReadingStarts(r) PROVE CountTypeOK'
    BY <1>7 DEF ReadingStarts, NotReading
  <1>8. ASSUME NEW r \in Reader, ReadingEnds(r) PROVE CountTypeOK'
    BY <1>8 DEF ReadingEnds, NotReading
  <1> QED BY <1>1, <1>2, <1>3, <1>4, <1>5, <1>6, <1>7, <1>8 DEF Drafts, Read

\* in the others of the user,
LEMMA OthersCount == ComposerTypeOK /\ Others => CountTypeOK'
  <1> SUFFICES ASSUME ComposerTypeOK, Others PROVE CountTypeOK'
    OBVIOUS
  <1> USE ComposerAssumption DEF ComposerTypeOK, CountTypeOK, Key, Trouble
  <1>1. ASSUME NEW l \in {"words", "path"}, TypesLine(l) PROVE CountTypeOK'
    BY <1>1 DEF TypesLine
  <1>2. CASE ToggleFocus BY <1>2 DEF ToggleFocus
  <1>3. ASSUME NEW up \in BOOLEAN, Select(up) PROVE CountTypeOK'
    BY <1>3 DEF Select, draftVars
  <1>4. CASE ReplyToMessage BY <1>4 DEF ReplyToMessage, draftVars
  <1>5. CASE ToggleSearch BY <1>5 DEF ToggleSearch, draftVars
  <1>6. CASE EscapeOther
    <2>1. left' = left \/ left' = TRUE BY <1>6 DEF EscapeOther
    <2>2. left' \in BOOLEAN BY <2>1
    <2> QED BY <1>6, <2>2 DEF EscapeOther, draftVars
  <1>7. ASSUME NEW m \in Message, BubbleGoes(m) PROVE CountTypeOK'
    BY <1>7 DEF BubbleGoes, draftVars
  <1> QED BY <1>1, <1>2, <1>3, <1>4, <1>5, <1>6, <1>7 DEF Others

\* and in those of deletions.
LEMMA AsksCount == ComposerTypeOK /\ Asks => CountTypeOK'
  <1> SUFFICES ASSUME ComposerTypeOK, Asks PROVE CountTypeOK'
    OBVIOUS
  <1> USE ComposerAssumption DEF ComposerTypeOK, CountTypeOK, Key, Trouble
  <1>1. CASE PressD BY <1>1 DEF PressD, draftVars
  <1>2. CASE DeleteTimeOver BY <1>2 DEF DeleteTimeOver, draftVars
  <1>3. ASSUME NEW m \in Message, DeleteStarts(m) PROVE CountTypeOK'
    BY <1>3 DEF DeleteStarts, draftVars
  <1>4. ASSUME NEW m \in Message, DeleteReturns(m) PROVE CountTypeOK'
    BY <1>4 DEF DeleteReturns, draftVars
  <1> QED BY <1>1, <1>2, <1>3, <1>4 DEF Asks

\* Every step keeps the types.
LEMMA StepKeepsTypes == ComposerTypeOK /\ [ComposerNext]_composerVars => ComposerTypeOK'
  <1> SUFFICES ASSUME ComposerTypeOK, [ComposerNext]_composerVars PROVE ComposerTypeOK'
    OBVIOUS
  <1>1. CASE Drafts
    <2>1. AskTypeOK' BY <1>1, DraftsLeave DEF ComposerTypeOK, AskTypeOK, askVars
    <2> QED BY <1>1, <2>1, DraftsDraft, DraftsPick, DraftsCount DEF ComposerTypeOK
  <1>2. CASE Others
    <2>1. AskTypeOK' BY <1>2, OthersLeave DEF ComposerTypeOK, AskTypeOK, askVars
    <2> QED BY <1>2, <2>1, OthersDraft, OthersPick, OthersCount DEF ComposerTypeOK
  <1>3. CASE Asks
    <2>1. DraftTypeOK' BY <1>3, AsksLeave DEF ComposerTypeOK, DraftTypeOK, draftVars
    <2> QED BY <1>3, <2>1, AsksPick, AsksAsk, AsksCount DEF ComposerTypeOK
  <1>4. CASE UNCHANGED composerVars
    BY <1>4 DEF composerVars, draftVars, pickVars, askVars, ComposerTypeOK, DraftTypeOK,
                PickTypeOK, AskTypeOK, CountTypeOK
  <1> QED BY <1>1, <1>2, <1>3, <1>4, ComposerSteps

\* The types hold at the start.
LEMMA InitTypes == ComposerInit => ComposerTypeOK
  <1> SUFFICES ASSUME ComposerInit PROVE ComposerTypeOK
    OBVIOUS
  <1> USE ComposerAssumption DEF ComposerInit
  <1>1. DraftTypeOK
    <2>1. outgoing \in Seq([attachment : 0..MaxKeys, reply : Message \cup {0}]) OBVIOUS
    <2>2. /\ readers \in [Reader -> [at : {"none", "starts", "reads"}, file : 0..MaxKeys]]
          /\ \A r \in Reader : readers[r].at # "reads"
      BY DEF NotReading
    <2> QED BY <2>1, <2>2 DEF DraftTypeOK
  <1>2. PickTypeOK BY DEF PickTypeOK
  <1>3. AskTypeOK BY DEF AskTypeOK
  <1>4. CountTypeOK
    <2>1. left \in BOOLEAN OBVIOUS
    <2>2. troubles \in 0..MaxTroubles /\ keys \in 0..MaxKeys /\ attachments \in 0..keys OBVIOUS
    <2> QED BY <2>1, <2>2 DEF CountTypeOK
  <1> QED BY <1>1, <1>2, <1>3, <1>4 DEF ComposerTypeOK

\* The state of the composer has its types (ChatWidget.__init__ and every handler).
THEOREM ComposerTypes == ComposerSpec => []ComposerTypeOK
  <1> QED BY InitTypes, StepKeepsTypes, PTL DEF ComposerSpec

-----------------------------------------------------------------------------
(* Where each attachment is.                                                *)

\* An element of a sequence over S is in S.
LEMMA ElementIn == ASSUME NEW S, NEW s \in Seq(S), NEW i \in DOMAIN s PROVE s[i] \in S
  OBVIOUS

\* The parts of the types the arguments about attachments need.
LEMMA AttachTypes ==
  ComposerTypeOK =>
    /\ attachments \in Nat /\ given_up \subseteq Nat \ {0}
    /\ pending_attachment.file \in Nat
    /\ \A r \in Reader : readers[r].file \in Nat
    /\ outgoing \in Seq([attachment : 0..MaxKeys, reply : Message \cup {0}])
    /\ \A i \in DOMAIN outgoing : outgoing[i].attachment \in Nat
  <1> SUFFICES ASSUME ComposerTypeOK
               PROVE  /\ attachments \in Nat /\ given_up \subseteq Nat \ {0}
                      /\ pending_attachment.file \in Nat
                      /\ \A r \in Reader : readers[r].file \in Nat
                      /\ outgoing \in Seq([attachment : 0..MaxKeys, reply : Message \cup {0}])
                      /\ \A i \in DOMAIN outgoing : outgoing[i].attachment \in Nat
    OBVIOUS
  <1> USE ComposerAssumption DEF ComposerTypeOK, DraftTypeOK, CountTypeOK
  <1>1. attachments \in Nat /\ given_up \subseteq Nat \ {0} BY DEF Attachment
  <1>2. pending_attachment.file \in Nat BY DEF Attachment, NothingAttached, Prompt, Staged
  <1>3. \A r \in Reader : readers[r].file \in Nat OBVIOUS
  <1>4. outgoing \in Seq([attachment : 0..MaxKeys, reply : Message \cup {0}]) OBVIOUS
  <1>5. ASSUME NEW i \in DOMAIN outgoing PROVE outgoing[i].attachment \in Nat
    <2> HIDE DEF ComposerTypeOK, DraftTypeOK, CountTypeOK
    <2>1. outgoing[i] \in [attachment : 0..MaxKeys, reply : Message \cup {0}] BY <1>4, ElementIn
    <2> QED BY <2>1
  <1> QED BY <1>1, <1>2, <1>3, <1>4, <1>5

\* Giving up what is attached: it is nowhere else.
LEMMA GivesUpAttach ==
  /\ ComposerTypeOK /\ AttachInv /\ GivesUp /\ UNCHANGED <<readers, attachments, outgoing>>
  => AttachInv'
  <1> SUFFICES ASSUME ComposerTypeOK, AttachInv, GivesUp, UNCHANGED <<readers, attachments, outgoing>>
               PROVE AttachInv'
    OBVIOUS
  <1> USE AttachTypes DEF AttachInv, GivesUp, NothingAttached
  <1>1. GivenOut' BY DEF GivenOut
  <1>2. ReadersAlone' BY DEF ReadersAlone
  <1>3. StagedAlone' BY DEF StagedAlone
  <1>4. AttachedOnce' BY DEF StagedAlone, AttachedOnce
  <1> QED BY <1>1, <1>2, <1>3, <1>4

\* A new number is nowhere yet.
LEMMA StagesNewAttach ==
  /\ ComposerTypeOK /\ AttachInv /\ attachments' = attachments + 1
  /\ pending_attachment' = Staged(attachments + 1) /\ UNCHANGED <<readers, outgoing, given_up>>
  => AttachInv'
  <1> SUFFICES ASSUME ComposerTypeOK, AttachInv, attachments' = attachments + 1,
                      pending_attachment' = Staged(attachments + 1),
                      UNCHANGED <<readers, outgoing, given_up>>
               PROVE AttachInv'
    OBVIOUS
  <1> USE AttachTypes DEF AttachInv, Staged
  <1>1. GivenOut' BY DEF GivenOut
  <1>2. ReadersAlone' BY DEF GivenOut, ReadersAlone
  <1>3. StagedAlone' BY DEF GivenOut, StagedAlone
  <1>4. AttachedOnce' BY DEF AttachedOnce
  <1> QED BY <1>1, <1>2, <1>3, <1>4

\* A file that begins to be read has a new number, or is none.
LEMMA BeginsReadingAttach ==
  ASSUME NEW r \in Reader, NEW file \in Nat, ComposerTypeOK, AttachInv, BeginsReading(r, file),
         \/ file = 0 /\ attachments' = attachments
         \/ file = attachments + 1 /\ attachments' = file,
         UNCHANGED <<pending_attachment, outgoing, given_up>>
  PROVE AttachInv'
  <1> USE AttachTypes DEF AttachInv
  <1>1. \A q \in Reader : readers'[q].file = IF q = r THEN file ELSE readers[q].file
    BY DEF BeginsReading, ComposerTypeOK, DraftTypeOK
  <1>2. GivenOut' BY <1>1 DEF GivenOut
  <1>3. ReadersAlone'
    <2> SUFFICES ASSUME NEW p \in Reader, readers'[p].file # 0
                 PROVE  /\ readers'[p].file # pending_attachment.file /\ readers'[p].file \notin given_up
                        /\ \A i \in DOMAIN outgoing : outgoing[i].attachment # readers'[p].file
                        /\ \A q \in Reader \ {p} : readers'[q].file # readers'[p].file
      BY DEF ReadersAlone
    <2>1. CASE p = r BY <1>1, <2>1 DEF GivenOut
    <2>2. CASE p # r BY <1>1, <2>2 DEF GivenOut, ReadersAlone
    <2> QED BY <2>1, <2>2
  <1>4. StagedAlone' BY DEF StagedAlone
  <1>5. AttachedOnce' BY DEF AttachedOnce
  <1> QED BY <1>2, <1>3, <1>4, <1>5

\* A reader ends: what it read is staged, or nothing is.
LEMMA EndsReadingAttach ==
  ASSUME NEW r \in Reader, ComposerTypeOK, AttachInv, readers' = [readers EXCEPT ![r] = NotReading],
         pending_attachment' \in {NothingAttached, Staged(readers[r].file)},
         UNCHANGED <<attachments, outgoing, given_up>>
  PROVE AttachInv'
  <1> USE AttachTypes DEF AttachInv
  <1>1. \A q \in Reader : readers'[q].file = IF q = r THEN 0 ELSE readers[q].file
    BY DEF NotReading, ComposerTypeOK, DraftTypeOK
  <1>2. pending_attachment'.file = 0 \/ pending_attachment'.file = readers[r].file
    BY DEF NothingAttached, Staged
  <1>3. GivenOut' BY <1>1, <1>2 DEF GivenOut
  <1>4. ReadersAlone' BY <1>1, <1>2 DEF ReadersAlone
  <1>5. StagedAlone' BY <1>2 DEF ReadersAlone, StagedAlone
  <1>6. AttachedOnce' BY DEF AttachedOnce
  <1> QED BY <1>3, <1>4, <1>5, <1>6

\* What is sent is staged no longer.
LEMMA SubmitAttach == ComposerTypeOK /\ AttachInv /\ SubmitMessage => AttachInv'
  <1> SUFFICES ASSUME ComposerTypeOK, AttachInv, SubmitMessage PROVE AttachInv'
    OBVIOUS
  <1> USE AttachTypes DEF AttachInv
  <1> DEFINE sent == [attachment |-> pending_attachment.file, reply |-> reply_to]
  <1>1. /\ outgoing' = Append(outgoing, sent) /\ pending_attachment' = NothingAttached
        /\ UNCHANGED <<readers, attachments, given_up>>
    BY DEF SubmitMessage
  <1>2. /\ DOMAIN outgoing = 1..Len(outgoing) /\ DOMAIN outgoing' = 1..(Len(outgoing) + 1)
        /\ Len(outgoing) \in Nat
        /\ \A i \in DOMAIN outgoing' :
             outgoing'[i].attachment = IF i \in DOMAIN outgoing THEN outgoing[i].attachment
                                       ELSE pending_attachment.file
    BY <1>1
  <1>3. pending_attachment'.file = 0 BY <1>1 DEF NothingAttached
  <1> HIDE DEF sent
  <1>4. GivenOut' BY <1>1, <1>2, <1>3 DEF GivenOut
  <1>5. ReadersAlone' BY <1>1, <1>2, <1>3 DEF ReadersAlone
  <1>6. StagedAlone' BY <1>3 DEF StagedAlone
  <1>7. AttachedOnce'
    <2> SUFFICES ASSUME NEW i \in DOMAIN outgoing', NEW j \in DOMAIN outgoing',
                        outgoing'[i].attachment # 0
                 PROVE  /\ outgoing'[i].attachment \notin given_up'
                        /\ i # j => outgoing'[j].attachment # outgoing'[i].attachment
      BY DEF AttachedOnce
    <2>1. CASE i \in DOMAIN outgoing /\ j \in DOMAIN outgoing
      BY <1>1, <1>2, <2>1 DEF AttachedOnce
    <2>2. CASE i \in DOMAIN outgoing /\ j \notin DOMAIN outgoing
      BY <1>1, <1>2, <2>2 DEF AttachedOnce, StagedAlone
    <2>3. CASE i \notin DOMAIN outgoing /\ j \in DOMAIN outgoing
      BY <1>1, <1>2, <2>3 DEF StagedAlone
    <2>4. CASE i \notin DOMAIN outgoing /\ j \notin DOMAIN outgoing
      BY <1>1, <1>2, <2>4 DEF StagedAlone
    <2> QED BY <2>1, <2>2, <2>3, <2>4
  <1> QED BY <1>4, <1>5, <1>6, <1>7

\* Every step of a draft keeps each attachment in one place.
LEMMA DraftsAttach == ComposerTypeOK /\ AttachInv /\ Drafts => AttachInv'
  <1> SUFFICES ASSUME ComposerTypeOK, AttachInv, Drafts PROVE AttachInv'
    OBVIOUS
  <1>1. CASE Attach
    <2>1. CASE pending_attachment # NothingAttached
      BY <1>1, <2>1, GivesUpAttach DEF Attach
    <2>2. CASE attachments' = attachments + 1 /\ pending_attachment' = Staged(attachments + 1)
               /\ UNCHANGED given_up
      BY <1>1, <2>2, StagesNewAttach DEF Attach
    <2>3. CASE pending_attachment' = Prompt /\ UNCHANGED <<attachments, given_up>>
      BY <1>1, <2>3, AttachTypes DEF Attach, AttachInv, GivenOut, ReadersAlone, StagedAlone,
         AttachedOnce, Prompt
    <2> QED BY <1>1, <2>1, <2>2, <2>3 DEF Attach
  <1>2. CASE StagesClipboard BY <1>2, StagesNewAttach DEF StagesClipboard
  <1>3. CASE SubmitMessage BY <1>3, SubmitAttach
  <1>4. CASE EscapeAttachment BY <1>4, GivesUpAttach DEF EscapeAttachment
  <1>5. ASSUME NEW r \in Reader, OnPaste(r) PROVE AttachInv'
    BY <1>5, AttachTypes, BeginsReadingAttach DEF OnPaste
  <1>6. ASSUME NEW r \in Reader, SubmitPath(r) PROVE AttachInv'
    <2>1. CASE line = "path"
      BY <1>6, <2>1, AttachTypes, BeginsReadingAttach DEF SubmitPath
    <2>2. CASE line # "path"
      BY <1>6, <2>2, AttachTypes, BeginsReadingAttach DEF SubmitPath
    <2> QED BY <2>1, <2>2
  <1>7. ASSUME NEW r \in Reader, ReadingStarts(r) PROVE AttachInv'
    <2>1. CASE readers' = [readers EXCEPT ![r].at = "reads"] /\ UNCHANGED pending_attachment
      <3>1. \A q \in Reader : readers'[q].file = readers[q].file
        BY <2>1 DEF ComposerTypeOK, DraftTypeOK
      <3> QED BY <1>7, <2>1, <3>1 DEF ReadingStarts, AttachInv, GivenOut, ReadersAlone,
              StagedAlone, AttachedOnce
    <2>2. CASE readers' = [readers EXCEPT ![r] = NotReading] /\ pending_attachment' = NothingAttached
      BY <1>7, <2>2, EndsReadingAttach DEF ReadingStarts
    <2> QED BY <1>7, <2>1, <2>2 DEF ReadingStarts
  <1>8. ASSUME NEW r \in Reader, ReadingEnds(r) PROVE AttachInv'
    BY <1>8, EndsReadingAttach DEF ReadingEnds
  <1> QED BY <1>1, <1>2, <1>3, <1>4, <1>5, <1>6, <1>7, <1>8 DEF Drafts, Read

\* So does every step.
LEMMA StepKeepsAttach ==
  ComposerTypeOK /\ AttachInv /\ [ComposerNext]_composerVars => AttachInv'
  <1> SUFFICES ASSUME ComposerTypeOK, AttachInv, [ComposerNext]_composerVars PROVE AttachInv'
    OBVIOUS
  <1>1. CASE UNCHANGED <<pending_attachment, readers, attachments, outgoing, given_up>>
    BY <1>1 DEF AttachInv, GivenOut, ReadersAlone, StagedAlone, AttachedOnce
  <1>2. CASE Drafts BY <1>2, DraftsAttach
  <1>3. CASE Others BY <1>1, <1>3, OthersLeave
  <1>4. CASE Asks BY <1>1, <1>4, AsksLeave DEF draftVars
  <1>5. CASE UNCHANGED composerVars BY <1>1, <1>5 DEF composerVars, draftVars
  <1> QED BY <1>2, <1>3, <1>4, <1>5, ComposerSteps

\* No attachment goes with two messages, and none goes that was given up, for any number
\* of files read while the user goes on (action_attach_file, _stage_attachment_from_path,
\* on_input_submitted, action_escape_handler).
THEOREM AttachmentsGoOnce == ComposerSpec => []AttachedOnce
  <1>1. ComposerInit => AttachInv
    BY DEF ComposerInit, AttachInv, GivenOut, ReadersAlone, StagedAlone, AttachedOnce,
       NotReading, NothingAttached
  <1>2. AttachInv => AttachedOnce BY DEF AttachInv
  <1> QED BY <1>1, <1>2, InitTypes, StepKeepsTypes, StepKeepsAttach, PTL DEF ComposerSpec

-----------------------------------------------------------------------------
(* What is asked twice.                                                    *)

\* Each step keeps that what is asked about was asked just now, is about to be deleted, or
\* found no bridge; and so nothing else is deleted.
LEMMA StepKeepsAsked ==
  /\ ComposerTypeOK /\ AskedInv /\ DeletedWasMeant /\ [ComposerNext]_composerVars
  => AskedInv' /\ DeletedWasMeant'
  <1> SUFFICES ASSUME ComposerTypeOK, AskedInv, DeletedWasMeant, [ComposerNext]_composerVars
               PROVE  AskedInv' /\ DeletedWasMeant'
    OBVIOUS
  <1>1. CASE UNCHANGED askVars
    BY <1>1 DEF askVars, AskedInv, DeletedWasMeant
  <1>2. CASE Drafts BY <1>1, <1>2, DraftsLeave
  <1>3. CASE Others BY <1>1, <1>3, OthersLeave
  <1>4. CASE UNCHANGED composerVars BY <1>1, <1>4 DEF composerVars
  <1>5. CASE Asks
    <2> USE ComposerAssumption DEF ComposerTypeOK, AskTypeOK, PickTypeOK, AskedInv, DeletedWasMeant
    <2>1. CASE PressD BY <1>5, <2>1 DEF PressD
    <2>2. CASE DeleteTimeOver BY <2>2 DEF DeleteTimeOver
    <2>3. ASSUME NEW m \in Message, DeleteStarts(m) PROVE AskedInv' /\ DeletedWasMeant'
      BY <2>3 DEF DeleteStarts
    <2>4. ASSUME NEW m \in Message, DeleteReturns(m) PROVE AskedInv' /\ DeletedWasMeant'
      BY <2>4 DEF DeleteReturns
    <2> QED BY <1>5, <2>1, <2>2, <2>3, <2>4 DEF Asks
  <1> QED BY <1>2, <1>3, <1>4, <1>5, ComposerSteps

\* A deletion nobody confirmed is of a message whose deletion found no bridge before
\* (action_delete_message, _cancel_delete_pending, _execute_delete).
THEOREM DeletionsAreMeant == ComposerSpec => []DeletedWasMeant
  <1>1. ComposerInit => AskedInv /\ DeletedWasMeant
    BY DEF ComposerInit, AskedInv, DeletedWasMeant
  <1> QED BY <1>1, InitTypes, StepKeepsTypes, StepKeepsAsked, PTL DEF ComposerSpec

-----------------------------------------------------------------------------
(* The table of nodes.                                                     *)

\* What is built shows the cache.
LEMMA BuiltShows ==
  ASSUME NEW hide, NEW d \in Device
  PROVE  Built(hide)[d] = _devices[d] \/ (hide /\ Built(hide)[d] = 0)
  BY DEF Built

\* A list that is taken over is posted when it changes anything.
LEMMA RefreshedPosts ==
  ASSUME NEW new, Refreshed(new)
  PROVE  updated' = TRUE \/ UNCHANGED <<_devices, updated>>
  BY DEF Refreshed

\* The table follows the cache by each step: what changes the cache posts a message.
LEMMA StepKeepsTables ==
  TablesFollowCache /\ [ViewsNext]_viewsVars => TablesFollowCache'
  <1> SUFFICES ASSUME TablesFollowCache, [ViewsNext]_viewsVars PROVE TablesFollowCache'
    OBVIOUS
  <1>1. ASSUME UNCHANGED <<_devices, updated, screen, rows, hide_lost>> PROVE TablesFollowCache'
    BY <1>1 DEF TablesFollowCache
  <1>2. ASSUME updated' = TRUE PROVE TablesFollowCache'
    BY <1>2 DEF TablesFollowCache
  <1>3. ASSUME screen' # "active" PROVE TablesFollowCache'
    BY <1>3 DEF TablesFollowCache
  <1>4. ASSUME UNCHANGED _devices, rows' = Built(hide_lost') PROVE TablesFollowCache'
    <2>1. ASSUME NEW d \in Device
          PROVE  rows'[d] = _devices'[d] \/ (hide_lost' /\ rows'[d] = 0)
      BY <1>4, BuiltShows
    <2> QED BY <2>1 DEF TablesFollowCache
  <1>5. ASSUME NEW new, Refreshed(new), UNCHANGED <<screen, rows, hide_lost>>
        PROVE  TablesFollowCache'
    BY <1>1, <1>2, <1>5, RefreshedPosts
  <1> USE DEF cacheVars, screenVars, meshVars
  <1>6. ASSUME NEW d \in Device, Announces(d) PROVE TablesFollowCache'
    BY <1>1, <1>6 DEF Announces
  <1>7. ASSUME NEW d \in Device, FallsSilent(d) PROVE TablesFollowCache'
    BY <1>1, <1>7 DEF FallsSilent
  <1>8. CASE Start BY <1>1, <1>8 DEF Start
  <1>9. CASE ScheduleInitialLoad BY <1>1, <1>9 DEF ScheduleInitialLoad
  <1>10. CASE RunInitialRefresh BY <1>1, <1>10 DEF RunInitialRefresh
  <1>11. ASSUME NEW t \in timers, TimerFires(t) PROVE TablesFollowCache'
    BY <1>1, <1>11 DEF TimerFires
  <1>12. ASSUME NEW f \in fetches, Answers(f) PROVE TablesFollowCache'
    BY <1>1, <1>12 DEF Answers
  <1>13. ASSUME NEW f \in fetches, FetchReturns(f) PROVE TablesFollowCache'
    BY <1>1, <1>5, <1>13, Zenon DEF FetchReturns
  <1>14. CASE OnMount BY <1>4, <1>14 DEF OnMount
  <1>15. CASE OnScreenSuspend BY <1>3, <1>15 DEF OnScreenSuspend
  <1>16. CASE OnScreenResume BY <1>4, <1>16 DEF OnScreenResume
  <1>17. CASE OnUnmount BY <1>3, <1>17 DEF OnUnmount
  <1>18. CASE StartNodeRefresh BY <1>1, <1>18 DEF StartNodeRefresh
  <1>19. CASE ToggleHideLost BY <1>4, <1>19 DEF ToggleHideLost
  <1>20. CASE ActionRefresh BY <1>4, <1>20 DEF ActionRefresh
  <1>21. CASE ScreenAnswered BY <1>1, <1>21 DEF ScreenAnswered
  <1>22. CASE ScreenRefreshed BY <1>1, <1>5, <1>22, Zenon DEF ScreenRefreshed
  <1>23. CASE DevicesUpdated
    BY <1>3, <1>4, <1>23 DEF DevicesUpdated
  <1>24. CASE UNCHANGED viewsVars BY <1>1, <1>24 DEF viewsVars
  <1> QED
    BY <1>6, <1>7, <1>8, <1>9, <1>10, <1>11, <1>12, <1>13, <1>14, <1>15, <1>16, <1>17, <1>18,
       <1>19, <1>20, <1>21, <1>22, <1>23, <1>24 DEF ViewsNext, CacheStep, ScreenStep

\* What the Nodes screen shows while no message is on its way is what the cache holds, for
\* any nodes, fetches and overlaps (_do_refresh, _rebuild_table, on_screen_resume).
THEOREM TablesFollow == ViewsSpec => []TablesFollowCache
  <1>1. ViewsInit => TablesFollowCache
    BY DEF ViewsInit, TablesFollowCache
  <1> QED BY <1>1, StepKeepsTables, PTL DEF ViewsSpec

-----------------------------------------------------------------------------
(* The settings.                                                           *)


\* The types of SettingsTypeOK by parts, with the domain of saver.
Configs == [core : Core, theme : Theme]
Saves == [at : {"identity"}, draft : Configs] \cup [at : {"core"}, sent : Core]
FilesTypeOK ==
    /\ live \in Configs /\ tuiFile \in [theme : Theme, legacy : Name]
    /\ coreFile \in Core /\ announced \in Name
EditorTypeOK ==
    /\ bridge \in BOOLEAN
    /\ editor \in {"closed", "open", "leaving"} /\ form \in Form
    /\ theme \in [shown : Theme, applied : Theme, committed : BOOLEAN]
    /\ touches \in 0..MaxTouches /\ told \in {"none", "saving", "saved"}
SaverTypeOK ==
    /\ saver = [w \in Saver |-> saver[w]]
    /\ \A w \in Saver : saver[w] = Still \/ saver[w] \in Saves
SettingsInvType == FilesTypeOK /\ EditorTypeOK /\ SaverTypeOK

LEMMA SettingsTypes == SettingsInvType => SettingsTypeOK
  BY DEF SettingsInvType, FilesTypeOK, EditorTypeOK, SaverTypeOK, SettingsTypeOK, Configs, Saves

\* What is loaded and shown has its type.
LEMMA LoadCoreType == ASSUME NEW core \in Core PROVE LoadCore(core) \in Core
  BY DEF LoadCore, Core, Name

LEMMA LoadConfigType == FilesTypeOK => LoadConfig \in Configs
  <1> SUFFICES ASSUME FilesTypeOK PROVE LoadConfig \in Configs
    OBVIOUS
  <1>1. Parsed \in [theme : Theme, legacy : Name]
    BY DEF FilesTypeOK, Parsed, Default, Name
  <1>2. LoadCore(coreFile) \in Core
    BY LoadCoreType DEF FilesTypeOK
  <1>3. [LoadCore(coreFile) EXCEPT !.name = Parsed.legacy] \in Core
    BY <1>1, <1>2 DEF Core
  <1> QED BY <1>1, <1>2, <1>3 DEF LoadConfig, Configs

LEMMA FormOfType == ASSUME NEW config \in Configs PROVE FormOf(config) \in Form
  BY DEF FormOf, Configs, Form, Core

LEMMA FormCoreType == ASSUME NEW f \in Form PROVE HubOf(f) \in {"absent", "off", "on"}
  BY DEF HubOf

\* A screen that closes has no saver left, and leaves values of the files' types.
LEMMA ClosesTypes ==
  FilesTypeOK /\ SaverTypeOK /\ Closes =>
    announced' \in Name /\ coreFile' \in Core /\ SaverTypeOK' /\ editor' = "closed"
  <1> SUFFICES ASSUME FilesTypeOK, SaverTypeOK, Closes
               PROVE  announced' \in Name /\ coreFile' \in Core /\ SaverTypeOK' /\ editor' = "closed"
    OBVIOUS
  <1>1. ASSUME NEW w \in Saver, saver[w].at = "identity" PROVE saver[w].draft.core.name \in Name
    BY <1>1 DEF SaverTypeOK, Saves, Still, Configs, Core
  <1>2. ASSUME NEW w \in Saver, saver[w].at = "core" PROVE saver[w].sent \in Core
    BY <1>2 DEF SaverTypeOK, Saves, Still
  <1>3. announced' \in Name /\ coreFile' \in Core
    BY <1>1, <1>2 DEF Closes, FilesTypeOK
  <1>4. saver' = [w \in Saver |-> Still] /\ editor' = "closed"
    BY DEF Closes
  <1> QED BY <1>3, <1>4 DEF SaverTypeOK

\* The types of the editor, by each step.
LEMMA StepKeepsSettingsTypes ==
  SettingsInvType /\ [SettingsNext]_settingsVars => SettingsInvType'
  <1> SUFFICES ASSUME SettingsInvType, [SettingsNext]_settingsVars PROVE SettingsInvType'
    OBVIOUS
  <1> USE SettingsAssumption DEF SettingsInvType, Touch
  <1>a. FilesTypeOK /\ UNCHANGED <<live, tuiFile, coreFile, announced>> => FilesTypeOK'
    BY DEF FilesTypeOK
  <1>b. SaverTypeOK /\ UNCHANGED saver => SaverTypeOK'
    BY DEF SaverTypeOK
  <1>c. ASSUME NEW w \in Saver, NEW x, x = Still \/ x \in Saves, saver' = [saver EXCEPT ![w] = x]
        PROVE  SaverTypeOK'
    <2>1. saver' = [v \in Saver |-> IF v = w THEN x ELSE saver[v]]
      BY <1>c, Zenon DEF SaverTypeOK
    <2>2. \A v \in Saver : saver'[v] = IF v = w THEN x ELSE saver[v]
      BY <2>1, Zenon
    <2>3. saver' = [v \in Saver |-> saver'[v]]
      BY <2>1, Zenon
    <2> QED BY <1>c, <2>2, <2>3, Zenon DEF SaverTypeOK
  <1>d. ASSUME NEW w \in Saver, saver' = [saver EXCEPT ![w] = Still] PROVE SaverTypeOK'
    BY <1>c, <1>d
  <1>e. live \in Configs /\ form \in Form /\ live.theme \in Theme /\ live.core \in Core
    BY DEF FilesTypeOK, EditorTypeOK, Configs
  <1>1. CASE OpenSettings
    <2>1. form' \in Form
      BY <1>e, <1>1, FormOfType DEF OpenSettings
    <2>2. theme' \in [shown : Theme, applied : Theme, committed : BOOLEAN]
      BY <1>e, <1>1 DEF OpenSettings, EditorTypeOK
    <2>3. EditorTypeOK'
      BY <1>1, <2>1, <2>2 DEF OpenSettings, EditorTypeOK
    <2> QED BY <1>a, <1>b, <1>1, <2>3 DEF OpenSettings
  <1>2. ASSUME NEW f \in Form, EditField(f) PROVE SettingsInvType'
    BY <1>a, <1>b, <1>2 DEF EditField, EditorTypeOK
  <1>3. CASE OnAdapterToggle
    <2>1. live' \in Configs
      BY <1>e, <1>3 DEF OnAdapterToggle, Configs, Core
    <2>2. form' \in Form
      BY <1>e, <1>3 DEF OnAdapterToggle, Form
    <2>3. FilesTypeOK'
      BY <1>3, <2>1 DEF OnAdapterToggle, FilesTypeOK
    <2>4. EditorTypeOK'
      BY <1>3, <2>2 DEF OnAdapterToggle, EditorTypeOK
    <2> QED BY <1>b, <1>3, <2>3, <2>4 DEF OnAdapterToggle
  <1>4. ASSUME NEW t \in Theme, PreviewTheme(t) PROVE SettingsInvType'
    BY <1>a, <1>b, <1>4 DEF PreviewTheme, EditorTypeOK
  <1>5. CASE OnApplyTheme
    <2>1. FilesTypeOK'
      BY <1>e, <1>5 DEF OnApplyTheme, FilesTypeOK, EditorTypeOK, Configs
    <2>2. EditorTypeOK'
      BY <1>5 DEF OnApplyTheme, EditorTypeOK
    <2> QED BY <1>b, <1>5, <2>1, <2>2 DEF OnApplyTheme
  <1>6. CASE Cancel
    <2>1. announced' \in Name /\ coreFile' \in Core /\ SaverTypeOK' /\ editor' = "closed"
      BY <1>6, ClosesTypes DEF Cancel
    <2>2. live' \in Configs
      BY <1>e, <1>6 DEF Cancel, EditorTypeOK, Configs
    <2>3. theme' \in [shown : Theme, applied : Theme, committed : BOOLEAN]
      BY <1>6 DEF Cancel, EditorTypeOK
    <2> QED BY <1>6, <2>1, <2>2, <2>3 DEF Cancel, FilesTypeOK, EditorTypeOK
  <1>7. CASE PopSettings
    <2>1. announced' \in Name /\ coreFile' \in Core /\ SaverTypeOK' /\ editor' = "closed"
      BY <1>7, ClosesTypes DEF PopSettings
    <2> QED BY <1>7, <2>1 DEF PopSettings, FilesTypeOK, EditorTypeOK
  <1>8. CASE ResetConfig
    <2>1. Default \in Core
      BY DEF Default, Core, Name
    <2> QED BY <1>b, <1>8, <2>1 DEF ResetConfig, FilesTypeOK, EditorTypeOK
  <1>9. ASSUME NEW w \in Saver, NEW button \in BOOLEAN, SaveBegins(w, button) PROVE SettingsInvType'
    <2>1. [live EXCEPT !.core.name = form.name] \in Configs
      BY <1>e DEF Configs, Core, Form
    <2>2. [at |-> "identity", draft |-> [live EXCEPT !.core.name = form.name]] \in Saves
      BY <2>1 DEF Saves
    <2>3. SaverTypeOK'
      BY <1>c, <1>9, <2>2, Zenon DEF SaveBegins
    <2>4. EditorTypeOK'
      BY <1>9 DEF SaveBegins, EditorTypeOK
    <2> QED BY <1>a, <1>9, <2>3, <2>4 DEF SaveBegins
  <1>10. ASSUME NEW w \in Saver, SaveRejected(w) PROVE SettingsInvType'
    <2>1. SaverTypeOK'
      BY <1>d, <1>10 DEF SaveRejected
    <2>2. saver[w].draft.core.name \in Name
      BY <1>10 DEF SaveRejected, SaverTypeOK, Saves, Still, Configs, Core
    <2> QED BY <1>10, <2>1, <2>2 DEF SaveRejected, FilesTypeOK, EditorTypeOK
  <1>11. ASSUME NEW w \in Saver, SaveDrafted(w) PROVE SettingsInvType'
    <2>1. saver[w].draft \in Configs
      BY <1>11 DEF SaveDrafted, SaverTypeOK, Saves, Still
    <2>2. form.net \in {"n0", "n1"}
      BY <1>e, <1>11 DEF SaveDrafted, Valid, Form
    <2>3. Drafted(w) \in Configs
      BY <1>e, <2>1, <2>2, FormCoreType DEF Drafted, Configs, Core
    <2>4. live' \in Configs /\ live'.core \in Core /\ live'.theme \in Theme
      BY <1>11, <2>3 DEF SaveDrafted, Configs
    <2>5. FilesTypeOK'
      BY <1>11, <2>1, <2>4 DEF SaveDrafted, FilesTypeOK, Configs, Core, Name
    <2>6. [at |-> "core", sent |-> live'.core] \in Saves
      BY <2>4 DEF Saves
    <2>7. SaverTypeOK'
      BY <1>c, <1>d, <1>11, <2>6, Zenon DEF SaveDrafted
    <2> QED BY <1>11, <2>5, <2>7 DEF SaveDrafted, EditorTypeOK
  <1>12. ASSUME NEW w \in Saver, SaveSucceeds(w) PROVE SettingsInvType'
    <2>1. saver[w].sent \in Core
      BY <1>12 DEF SaveSucceeds, SaverTypeOK, Saves, Still
    <2>2. SaverTypeOK'
      BY <1>d, <1>12 DEF SaveSucceeds
    <2> QED BY <1>12, <2>1, <2>2 DEF SaveSucceeds, FilesTypeOK, EditorTypeOK
  <1>13. ASSUME NEW w \in Saver, SaveFails(w) PROVE SettingsInvType'
    <2>1. saver[w].sent \in Core
      BY <1>13 DEF SaveFails, SaverTypeOK, Saves, Still
    <2>2. SaverTypeOK'
      BY <1>d, <1>13 DEF SaveFails
    <2> QED BY <1>13, <2>1, <2>2 DEF SaveFails, FilesTypeOK, EditorTypeOK
  <1>14. CASE DismissSettings
    <2>1. announced' \in Name /\ coreFile' \in Core /\ SaverTypeOK' /\ editor' = "closed"
      BY <1>14, ClosesTypes DEF DismissSettings
    <2> QED BY <1>14, <2>1 DEF DismissSettings, FilesTypeOK, EditorTypeOK
  <1>15. CASE BridgeChanges
    BY <1>a, <1>b, <1>15 DEF BridgeChanges, EditorTypeOK
  <1>16. CASE LoadsAgain
    <2>1. live' \in Configs /\ live'.core \in Core /\ live'.theme \in Theme
      BY <1>16, LoadConfigType DEF LoadsAgain, Configs
    <2>2. form' \in Form
      BY <1>16, <2>1, FormOfType DEF LoadsAgain
    <2>3. SaverTypeOK'
      BY <1>16 DEF LoadsAgain, SaverTypeOK
    <2> QED BY <1>16, <2>1, <2>2, <2>3 DEF LoadsAgain, FilesTypeOK, EditorTypeOK
  <1>17. CASE UNCHANGED settingsVars
    BY <1>a, <1>b, <1>17 DEF settingsVars, EditorTypeOK
  <1> QED
    BY <1>1, <1>2, <1>3, <1>4, <1>5, <1>6, <1>7, <1>8, <1>9, <1>10, <1>11, <1>12, <1>13, <1>14,
       <1>15, <1>16, <1>17 DEF SettingsNext

LEMMA SettingsInitTypes == SettingsInit => SettingsInvType
  <1> SUFFICES ASSUME SettingsInit PROVE SettingsInvType
    OBVIOUS
  <1> USE SettingsAssumption
  <1>1. coreFile \in Core /\ tuiFile \in [theme : Theme, legacy : Name] /\ announced \in Name
    BY DEF SettingsInit, Default, Core, Name, Theme
  <1>2. live \in Configs
    <2>1. Parsed \in [theme : Theme, legacy : Name]
      BY <1>1 DEF Parsed, Default, Name
    <2>2. LoadCore(coreFile) \in Core
      BY <1>1, LoadCoreType
    <2>3. [LoadCore(coreFile) EXCEPT !.name = Parsed.legacy] \in Core
      BY <2>1, <2>2 DEF Core
    <2> QED BY <2>1, <2>2, <2>3 DEF SettingsInit, LoadConfig, Configs
  <1>3. form \in Form
    BY <1>2, FormOfType DEF SettingsInit
  <1>4. SaverTypeOK
    BY DEF SettingsInit, SaverTypeOK
  <1>5. EditorTypeOK
    BY <1>3 DEF SettingsInit, EditorTypeOK, Theme
  <1> QED BY <1>1, <1>2, <1>4, <1>5 DEF SettingsInvType, FilesTypeOK

-----------------------------------------------------------------------------
(* What a save reports.                                                    *)

\* What the form says, as a core configuration, and a tui.yaml of the theme in memory.
FormCore ==
    [name |-> form.name, net |-> form.net, hub |-> HubOf(form), adapter |-> form.adapter]
TuiFileIsLive == tuiFile = [theme |-> live.theme, legacy |-> "none"]

\* An adapter is turned off in the form and in memory at once.
AdapterShown == form.adapter = live.core.adapter

\* Where a save that can still be reported stands: it is the only one, nothing that it has
\* read was touched, and what it has written is what the form says.
ReportInv ==
    /\ told # "none" => \A v, w \in Saver : Saving(v) /\ Saving(w) => v = w
    /\ told = "saving" =>
        \A w \in Saver :
            /\ saver[w].at = "identity" => saver[w].draft.core.name = form.name
            /\ saver[w].at = "core" => saver[w].sent = FormCore /\ TuiFileIsLive
    /\ told = "saved" =>
        /\ editor # "open" /\ coreFile = FormCore /\ TuiFileIsLive
        /\ \A w \in Saver : ~Saving(w)

SaveInv == AdapterShown /\ ReportInv

\* What was reported is what is loaded: no old name fills in.
LEMMA ReportedIsLoaded == SettingsInvType /\ SaveInv => SavedIsLoaded
  <1> SUFFICES ASSUME SettingsInvType, SaveInv, told = "saved"
               PROVE  LoadConfig = [core |-> LoadCore(FormCore), theme |-> live.theme]
    BY DEF SavedIsLoaded, FormCore
  <1>1. coreFile = FormCore /\ TuiFileIsLive
    BY DEF SaveInv, ReportInv
  <1>2. Parsed = [theme |-> live.theme, legacy |-> "anonymous"]
    BY <1>1 DEF TuiFileIsLive, Parsed, Default
  <1>3. ~Migrates(LoadCore(coreFile))
    BY <1>2 DEF Migrates
  <1> QED BY <1>1, <1>2, <1>3 DEF LoadConfig

\* A step that ends all reports keeps the invariant.
LEMMA NothingToReport == told' = "none" => ReportInv'
  BY DEF ReportInv

\* One that touches neither the form, nor the files, nor a save.
LEMMA NothingTouched ==
  /\ ReportInv
  /\ UNCHANGED <<form, live, tuiFile, coreFile, saver, told>>
  /\ editor' = editor \/ editor' # "open"
  => ReportInv'
  BY DEF ReportInv, Saving, FormCore, TuiFileIsLive, HubOf

\* Each step keeps it.
LEMMA StepKeepsReports ==
  SettingsInvType /\ SaveInv /\ [SettingsNext]_settingsVars => SaveInv'
  <1> SUFFICES ASSUME SettingsInvType, SaveInv, [SettingsNext]_settingsVars PROVE SaveInv'
    OBVIOUS
  <1>a. AdapterShown /\ ReportInv
    BY DEF SaveInv
  <1>b. UNCHANGED <<form, live>> => AdapterShown'
    BY <1>a DEF AdapterShown
  <1>c. ASSUME UNCHANGED <<form, live>>, told' = "none" PROVE SaveInv'
    BY <1>b, <1>c, NothingToReport DEF SaveInv
  <1>e. live \in Configs /\ live.core \in Core /\ form \in Form
    BY DEF SettingsInvType, FilesTypeOK, EditorTypeOK, Configs
  <1>1. CASE OpenSettings
    BY <1>1, NothingToReport DEF OpenSettings, SaveInv, AdapterShown, FormOf
  <1>2. ASSUME NEW f \in Form, EditField(f) PROVE SaveInv'
    <2>1. f.adapter = form.adapter /\ form' = f /\ live' = live /\ saver' = saver /\ editor = "open"
      BY <1>2 DEF EditField
    <2>2. AdapterShown'
      BY <1>a, <2>1 DEF AdapterShown
    <2>3. CASE told' = "none"
      BY <2>2, <2>3, NothingToReport DEF SaveInv
    <2>4. CASE told' # "none"
      <3>1. told' = told /\ f.name = form.name /\ \A w \in Saver : saver[w].at # "core"
        BY <1>2, <2>4 DEF EditField
      <3> QED BY <1>a, <2>1, <2>2, <2>4, <3>1 DEF SaveInv, ReportInv, Saving
    <2> QED BY <2>3, <2>4
  <1>3. CASE OnAdapterToggle
    <2>1. /\ form' = [form EXCEPT !.adapter = FALSE] /\ saver' = saver /\ editor = "open"
          /\ live' = [live EXCEPT !.core.adapter = FALSE]
      BY <1>3 DEF OnAdapterToggle
    <2>2. form'.name = form.name /\ form'.adapter = FALSE /\ live'.core.adapter = FALSE
      BY <1>e, <2>1 DEF Form, Configs, Core
    <2>3. CASE told' = "none"
      BY <2>2, <2>3, NothingToReport DEF SaveInv, AdapterShown
    <2>4. CASE told' # "none"
      <3>1. told' = told /\ \A w \in Saver : saver[w].at # "core"
        BY <1>3, <2>4 DEF OnAdapterToggle
      <3> QED BY <1>a, <2>1, <2>2, <2>4, <3>1 DEF SaveInv, ReportInv, Saving, AdapterShown
    <2> QED BY <2>3, <2>4
  <1>4. ASSUME NEW t \in Theme, PreviewTheme(t) PROVE SaveInv'
    BY <1>a, <1>b, <1>4, NothingTouched DEF PreviewTheme, SaveInv
  <1>5. CASE OnApplyTheme
    <2>1. live'.core = live.core /\ form' = form /\ told' = "none"
      BY <1>e, <1>5 DEF OnApplyTheme, Configs
    <2> QED BY <1>a, <2>1, NothingToReport DEF SaveInv, AdapterShown
  <1>6. CASE Cancel
    <2>1. live'.core = live.core /\ form' = form /\ told' = "none"
      BY <1>e, <1>6 DEF Cancel, Configs
    <2> QED BY <1>a, <2>1, NothingToReport DEF SaveInv, AdapterShown
  <1>7. CASE PopSettings BY <1>c, <1>7 DEF PopSettings
  <1>8. CASE ResetConfig BY <1>c, <1>8 DEF ResetConfig
  <1>9. ASSUME NEW w \in Saver, NEW button \in BOOLEAN, SaveBegins(w, button) PROVE SaveInv'
    <2> DEFINE x == [at |-> "identity", draft |-> [live EXCEPT !.core.name = form.name]]
    <2>1. /\ UNCHANGED <<form, live>> /\ saver' = [saver EXCEPT ![w] = x]
          /\ told' = IF \E v \in Saver : Saving(v) THEN "none" ELSE "saving"
      BY <1>9 DEF SaveBegins
    <2>2. CASE told' = "none"
      BY <1>c, <2>1, <2>2
    <2>3. CASE told' # "none"
      <3>1. told' = "saving" /\ \A v \in Saver : saver[v].at = "idle"
        BY <2>1, <2>3 DEF Saving
      <3>2. x.at = "identity" /\ x.draft.core.name = form.name
        BY <1>e DEF Configs, Core
      <3> HIDE DEF x
      <3>3. \A v \in Saver : saver'[v] = IF v = w THEN x ELSE saver[v]
        BY <2>1, Zenon DEF SettingsInvType, SaverTypeOK
      <3>4. \A v \in Saver : saver'[v].at = IF v = w THEN "identity" ELSE "idle"
        BY <3>1, <3>2, <3>3
      <3>5. \A v, u \in Saver : Saving(v)' /\ Saving(u)' => v = u
        BY <3>4 DEF Saving
      <3>6. \A v \in Saver : saver'[v].at = "identity" => saver'[v].draft.core.name = form'.name
        BY <2>1, <3>2, <3>3, <3>4
      <3>7. \A v \in Saver : saver'[v].at # "core"
        BY <3>4
      <3>8. ReportInv'
        BY <3>1, <3>5, <3>6, <3>7 DEF ReportInv
      <3> QED BY <1>b, <2>1, <3>8 DEF SaveInv
    <2> QED BY <2>2, <2>3
  <1>10. ASSUME NEW w \in Saver, SaveRejected(w) PROVE SaveInv'
    BY <1>c, <1>10 DEF SaveRejected
  <1>11. ASSUME NEW w \in Saver, SaveDrafted(w) PROVE SaveInv'
    <2>1. saver[w].at = "identity" /\ form' = form /\ live' = Drafted(w) /\ Saving(w)
      BY <1>11 DEF SaveDrafted, Saving
    <2>2. saver[w].draft \in Configs
      BY <1>11 DEF SaveDrafted, SettingsInvType, SaverTypeOK, Saves, Still
    <2>3. live'.core = [saver[w].draft.core EXCEPT !.net = form.net, !.hub = HubOf(form),
                                                   !.adapter = live.core.adapter]
      BY <2>1, <2>2 DEF Drafted, Configs
    <2>4. saver[w].draft.core \in Core
      BY <2>2 DEF Configs
    <2>5. live'.core = [name |-> saver[w].draft.core.name, net |-> form.net, hub |-> HubOf(form),
                        adapter |-> live.core.adapter]
      BY <2>3, <2>4 DEF Core
    <2>6. AdapterShown'
      BY <1>a, <2>1, <2>5 DEF AdapterShown
    <2>7. CASE told' = "none"
      BY <2>6, <2>7, NothingToReport DEF SaveInv
    <2>8. CASE told' # "none"
      <3> DEFINE x == [at |-> "core", sent |-> live'.core]
      <3>1. told' = told /\ tuiFile' = [theme |-> live'.theme, legacy |-> "none"]
            /\ saver' = [saver EXCEPT ![w] = x]
        BY <1>11, <2>8 DEF SaveDrafted
      <3>2. told = "saving"
        BY <2>1, <2>8, <3>1 DEF SettingsInvType, EditorTypeOK, SaveInv, ReportInv
      <3>3. x.at = "core" /\ x.sent = FormCore
        BY <1>a, <2>1, <2>5, <3>2 DEF ReportInv, FormCore, AdapterShown
      <3>4. TuiFileIsLive' /\ FormCore' = FormCore
        BY <2>1, <3>1 DEF TuiFileIsLive, FormCore, HubOf
      <3>5. \A v \in Saver : v # w => ~Saving(v)
        BY <1>a, <2>1, <3>2 DEF ReportInv
      <3> HIDE DEF x
      <3>6. \A v \in Saver : saver'[v] = IF v = w THEN x ELSE saver[v]
        BY <3>1, Zenon DEF SettingsInvType, SaverTypeOK
      <3>7. \A v \in Saver : saver'[v].at = IF v = w THEN "core" ELSE "idle"
        BY <3>3, <3>5, <3>6 DEF Saving
      <3>8. \A v, u \in Saver : Saving(v)' /\ Saving(u)' => v = u
        BY <3>7 DEF Saving
      <3>9. \A v \in Saver : saver'[v].at = "core" => saver'[v].sent = FormCore' /\ TuiFileIsLive'
        BY <3>3, <3>4, <3>6, <3>7
      <3>10. \A v \in Saver : saver'[v].at # "identity"
        BY <3>7
      <3>11. ReportInv'
        BY <3>1, <3>2, <3>8, <3>9, <3>10 DEF ReportInv
      <3> QED BY <2>6, <3>11 DEF SaveInv
    <2> QED BY <2>7, <2>8
  <1>12. ASSUME NEW w \in Saver, SaveSucceeds(w) PROVE SaveInv'
    <2>1. /\ UNCHANGED <<form, live, tuiFile>> /\ saver[w].at = "core" /\ Saving(w)
          /\ saver' = [saver EXCEPT ![w] = Still]
          /\ editor' # "open"
      BY <1>12 DEF SaveSucceeds, Saving
    <2>2. CASE told' = "none"
      BY <1>c, <2>1, <2>2
    <2>3. CASE told' # "none"
      <3>1. told = "saving" /\ told' = "saved" /\ coreFile' = saver[w].sent
        BY <1>12, <2>3 DEF SaveSucceeds
      <3>2. coreFile' = FormCore /\ TuiFileIsLive /\ \A v \in Saver : v # w => ~Saving(v)
        BY <1>a, <2>1, <3>1 DEF ReportInv
      <3>3. \A v \in Saver : saver'[v] = IF v = w THEN Still ELSE saver[v]
        BY <2>1, Zenon DEF SettingsInvType, SaverTypeOK
      <3>4. \A v \in Saver : ~Saving(v)'
        BY <3>2, <3>3 DEF Saving, Still
      <3>5. FormCore' = FormCore /\ (TuiFileIsLive' <=> TuiFileIsLive)
        BY <2>1 DEF FormCore, TuiFileIsLive, HubOf
      <3>6. ReportInv'
        BY <2>1, <3>1, <3>2, <3>4, <3>5 DEF ReportInv
      <3> QED BY <1>b, <2>1, <3>6 DEF SaveInv
    <2> QED BY <2>2, <2>3
  <1>13. ASSUME NEW w \in Saver, SaveFails(w) PROVE SaveInv'
    BY <1>c, <1>13 DEF SaveFails
  <1>14. CASE DismissSettings
    <2>1. UNCHANGED <<form, live, tuiFile>> /\ editor' = "closed"
      BY <1>14 DEF DismissSettings, Closes
    <2>2. CASE told' = "none"
      BY <1>c, <2>1, <2>2
    <2>3. CASE told' # "none"
      <3>1. told' = told /\ \A w \in Saver : ~Saving(w)
        BY <1>14, <2>3 DEF DismissSettings
      <3>2. saver' = [w \in Saver |-> Still]
        BY <1>14 DEF DismissSettings, Closes
      <3>3. \A w \in Saver : saver'[w].at = "idle"
        BY <3>2 DEF Still
      <3>4. \A w \in Saver : ~(saver[w].at = "core")
        BY <3>1 DEF Saving
      <3>5. coreFile' = coreFile
        BY <1>14, <3>4 DEF DismissSettings, Closes
      <3>6. FormCore' = FormCore /\ (TuiFileIsLive' <=> TuiFileIsLive)
        BY <2>1 DEF FormCore, TuiFileIsLive, HubOf
      <3>7. \A w \in Saver : ~Saving(w)'
        BY <3>3 DEF Saving
      <3>8. ReportInv'
        BY <1>a, <2>1, <3>1, <3>3, <3>5, <3>6, <3>7 DEF ReportInv
      <3> QED BY <1>b, <2>1, <3>8 DEF SaveInv
    <2> QED BY <2>2, <2>3
  <1>15. CASE BridgeChanges
    BY <1>a, <1>b, <1>15, NothingTouched DEF BridgeChanges, SaveInv
  <1>16. CASE LoadsAgain
    BY <1>16, NothingToReport DEF LoadsAgain, SaveInv, AdapterShown, FormOf
  <1>17. CASE UNCHANGED settingsVars
    BY <1>a, <1>b, <1>17, NothingTouched DEF settingsVars, SaveInv
  <1> QED
    BY <1>1, <1>2, <1>3, <1>4, <1>5, <1>6, <1>7, <1>8, <1>9, <1>10, <1>11, <1>12, <1>13, <1>14,
       <1>15, <1>16, <1>17 DEF SettingsNext

LEMMA SettingsInitReports == SettingsInit => SaveInv
  BY DEF SettingsInit, SaveInv, AdapterShown, ReportInv, FormOf

\* The state of the settings has its types, for any saves at once (_save_settings).
THEOREM SettingsAreTyped == SettingsSpec => []SettingsTypeOK
  BY SettingsInitTypes, StepKeepsSettingsTypes, SettingsTypes, PTL DEF SettingsSpec

\* A save that is reported is what the next start loads, for any overlapping saves, edits
\* and failures (_save_settings, save_config, load_config, _overlay_core_config).
THEOREM SavesAreLoaded == SettingsSpec => []SavedIsLoaded
  BY SettingsInitTypes, SettingsInitReports, StepKeepsSettingsTypes, StepKeepsReports,
     ReportedIsLoaded, PTL DEF SettingsSpec

-----------------------------------------------------------------------------
(* The life of the chat.                                                   *)

\* Only what mounts the widget, subscribes and unmounts it changes what runs.
LEMMA StepKeepsReleased == ChatReleased /\ [ChatNext]_chatVars => ChatReleased'
  <1> SUFFICES ASSUME ChatReleased, [ChatNext]_chatVars PROVE ChatReleased'
    OBVIOUS
  <1>a. UNCHANGED <<mounted, subscribed, poll>> => ChatReleased'
    BY DEF ChatReleased
  <1> USE DEF lifeVars
  <1>1. ASSUME NEW w \in Worker, Answer(w) PROVE ChatReleased'
    BY <1>1, <1>a DEF Answer
  <1>2. ASSUME NEW w \in Worker, ShowStatuses(w) PROVE ChatReleased'
    BY <1>2, <1>a DEF ShowStatuses
  <1>3. ASSUME NEW w \in Worker, ShowFirst(w) PROVE ChatReleased'
    BY <1>3, <1>a DEF ShowFirst
  <1>4. ASSUME NEW w \in Worker, Rebuild(w) PROVE ChatReleased'
    BY <1>4, <1>a DEF Rebuild
  <1>5. ASSUME NEW w \in Worker, ShowDeleted(w) PROVE ChatReleased'
    BY <1>5, <1>a DEF ShowDeleted
  <1>6. ASSUME NEW w \in Worker, ShowNew(w) PROVE ChatReleased'
    BY <1>6, <1>a DEF ShowNew
  <1>7. ASSUME NEW w \in Worker, MountBubble(w) PROVE ChatReleased'
    BY <1>7, <1>a DEF MountBubble
  <1>8. ASSUME NEW w \in Worker, Mounted(w) PROVE ChatReleased'
    BY <1>8, <1>a DEF Mounted
  <1>9. ASSUME NEW w \in Worker, FetchFails(w) PROVE ChatReleased'
    BY <1>9, <1>a DEF FetchFails
  <1>10. ASSUME NEW w \in Worker, InitialRefresh(w) PROVE ChatReleased'
    BY <1>10, <1>a DEF InitialRefresh
  <1>11. ASSUME NEW w \in Worker, PollFallback(w) PROVE ChatReleased'
    BY <1>11, <1>a DEF PollFallback
  <1>12. ASSUME NEW w \in Worker, OnMessageEvent(w) PROVE ChatReleased'
    BY <1>12, <1>a DEF OnMessageEvent
  <1>13. ASSUME NEW w \in Worker, SendRefreshes(w) PROVE ChatReleased'
    BY <1>13, <1>a DEF SendRefreshes
  <1>14. ASSUME NEW w \in Worker, CloseSearch(w) PROVE ChatReleased'
    BY <1>14, <1>a DEF CloseSearch
  <1>15. ASSUME NEW w \in Worker, RetryOptimistic(w) PROVE ChatReleased'
    BY <1>15, <1>a DEF RetryOptimistic
  <1>16. ASSUME NEW w \in Worker, RetryAnswered(w) PROVE ChatReleased'
    BY <1>16, <1>a DEF RetryAnswered
  <1>17. ASSUME NEW i \in DOMAIN stored, DeliveryFails(i) PROVE ChatReleased'
    BY <1>17, <1>a DEF DeliveryFails, ChatReleased
  <1>18. ASSUME NEW m \in ToSet(stored), UpdateBubbleStatus(m) PROVE ChatReleased'
    BY <1>18, <1>a DEF UpdateBubbleStatus, ChatReleased
  <1>19. ASSUME NEW failed \in BOOLEAN, SendReturns(failed) PROVE ChatReleased'
    BY <1>19, <1>a DEF SendReturns, ChatReleased
  <1>20. ASSUME NEW id \in 0..MaxId, PressDelete(id) PROVE ChatReleased'
    BY <1>20, <1>a DEF PressDelete, ChatReleased
  <1>21. ASSUME NEW b \in ToSet(shown), Retry(b) PROVE ChatReleased'
    BY <1>21, <1>a DEF Retry, ChatReleased
  <1>22. ASSUME NEW works \in BOOLEAN, Subscribe(works) PROVE ChatReleased'
    BY <1>22, <1>a DEF Subscribe, ChatReleased
  <1>23. CASE Arrives BY <1>23, <1>a DEF Arrives, ChatReleased
  <1>24. CASE Submit BY <1>24, <1>a DEF Submit, ChatReleased
  <1>25. CASE SendStores BY <1>25, <1>a DEF SendStores, ChatReleased
  <1>26. CASE SearchStarts BY <1>26, <1>a DEF SearchStarts, ChatReleased
  <1>27. CASE SearchAnswers BY <1>27, <1>a DEF SearchAnswers, ChatReleased
  <1>28. CASE DeleteAnswered BY <1>28, <1>a DEF DeleteAnswered, ChatReleased
  <1>29. CASE DeleteBubble BY <1>29, <1>a DEF DeleteBubble, ChatReleased
  <1>30. CASE DeleteId BY <1>30, <1>a DEF DeleteId, ChatReleased
  <1>31. CASE RetryLooks BY <1>31, <1>a DEF RetryLooks, ChatReleased
  <1>32. CASE ChatMount BY <1>32, <1>a DEF ChatMount, ChatReleased
  <1>33. CASE Unmount BY <1>33, <1>a DEF Unmount, ChatReleased
  <1>34. CASE UNCHANGED chatVars BY <1>34, <1>a DEF chatVars
  <1> QED
    BY <1>1, <1>2, <1>3, <1>4, <1>5, <1>6, <1>7, <1>8, <1>9, <1>10, <1>11, <1>12, <1>13, <1>14,
       <1>15, <1>16, <1>17, <1>18, <1>19, <1>20, <1>21, <1>22, <1>23, <1>24, <1>25,
       <1>26, <1>27, <1>28, <1>29, <1>30, <1>31, <1>32, <1>33, <1>34
    DEF ChatNext, WorkerStep, RefreshStep

\* Nothing of the chat runs when it is gone, whatever was under way (on_unmount, _initialize).
THEOREM ChatIsReleased == ChatSpec => []ChatReleased
  <1>1. ChatInit => ChatReleased
    BY DEF ChatInit, ChatReleased
  <1> QED BY <1>1, StepKeepsReleased, PTL DEF ChatSpec

-----------------------------------------------------------------------------
(* The types of the views.                                                 *)

\* The types of ViewsTypeOK by parts; what was answered to a fetch is a list of nodes, too.
IsFetch(f) ==
    /\ f[1] \in {"asked", "failed", "list"} /\ f[2] \in {"initial", "timer"}
    /\ f[1] = "list" => f[3] \in Nodes
ListsTypeOK == mesh \in Nodes /\ _devices \in Nodes /\ rows \in Nodes
FetchesTypeOK == \A f \in fetches : IsFetch(f)
ScreenFetchTypeOK == screenFetch \in {NoFetch, Asked, <<"failed">>} \cup ({"list"} \X Nodes)
ScreenTypeOK ==
    /\ silent \subseteq Device /\ errors \in 0..MaxErrors
    /\ started \in {"no", "painting", "priming", "loading", "yes"}
    /\ timers \subseteq {"followup", "interval"}
    /\ screen \in {"gone", "active", "suspended"}
SwitchesTypeOK == updated \in BOOLEAN /\ hide_lost \in BOOLEAN
ViewsInvType == ListsTypeOK /\ FetchesTypeOK /\ ScreenFetchTypeOK /\ ScreenTypeOK /\ SwitchesTypeOK

LEMMA ViewsTypes == ViewsInvType => ViewsTypeOK
  BY DEF ViewsInvType, ListsTypeOK, FetchesTypeOK, IsFetch, ScreenFetchTypeOK, ScreenTypeOK,
     SwitchesTypeOK, ViewsTypeOK

LEMMA BuiltType == ASSUME _devices \in Nodes, NEW hide \in BOOLEAN PROVE Built(hide) \in Nodes
  BY ViewsAssumption DEF Built, Nodes

LEMMA NoNodesType == NoNodes \in Nodes
  BY ViewsAssumption DEF NoNodes, Nodes

\* A list that is taken over has the type of the cache.
LEMMA RefreshedTypes ==
  ASSUME NEW new \in Nodes, Refreshed(new), _devices \in Nodes, updated \in BOOLEAN
  PROVE  _devices' \in Nodes /\ updated' \in BOOLEAN
  BY DEF Refreshed

LEMMA AnotherFetch ==
  ASSUME FetchesTypeOK, NEW x, IsFetch(x), NEW S, S \subseteq fetches, fetches' = S \cup {x}
  PROVE  FetchesTypeOK'
  <1>1. ASSUME NEW f \in fetches' PROVE IsFetch(f)
    BY <1>1 DEF FetchesTypeOK
  <1> QED BY <1>1, Zenon DEF FetchesTypeOK, IsFetch

\* Each step keeps the types.
LEMMA StepKeepsViewsTypes == ViewsInvType /\ [ViewsNext]_viewsVars => ViewsInvType'
  <1> SUFFICES ASSUME ViewsInvType, [ViewsNext]_viewsVars PROVE ViewsInvType'
    OBVIOUS
  <1> USE ViewsAssumption DEF cacheVars, screenVars, meshVars
  <1>0. ListsTypeOK /\ FetchesTypeOK /\ ScreenFetchTypeOK /\ ScreenTypeOK /\ SwitchesTypeOK
    BY DEF ViewsInvType
  <1>l. UNCHANGED <<mesh, _devices, rows>> => ListsTypeOK'
    BY <1>0 DEF ListsTypeOK
  <1>f. UNCHANGED fetches => FetchesTypeOK'
    BY <1>0 DEF FetchesTypeOK
  <1>g. UNCHANGED screenFetch => ScreenFetchTypeOK'
    BY <1>0 DEF ScreenFetchTypeOK
  <1>h. screenFetch' = NoFetch \/ screenFetch' = Asked => ScreenFetchTypeOK'
    BY DEF ScreenFetchTypeOK
  <1>b. UNCHANGED <<updated, hide_lost>> => SwitchesTypeOK'
    BY <1>0 DEF SwitchesTypeOK
  <1>r. ASSUME NEW hide \in BOOLEAN, rows' = Built(hide) \/ rows' = NoNodes, UNCHANGED <<mesh, _devices>>
        PROVE  ListsTypeOK'
    BY <1>0, <1>r, BuiltType, NoNodesType DEF ListsTypeOK
  <1>s. UNCHANGED <<silent, errors, started, timers, screen>> => ScreenTypeOK'
    BY <1>0 DEF ScreenTypeOK
  <1>1. ASSUME NEW d \in Device, Announces(d) PROVE ViewsInvType'
    <2>1. mesh' = [mesh EXCEPT ![d] = mesh[d] + 1] /\ mesh[d] < MaxAnnounces
      BY <1>1 DEF Announces
    <2>2. mesh[d] + 1 \in 0..MaxAnnounces
      BY <1>0, <2>1 DEF ListsTypeOK, Nodes
    <2>3. mesh' \in Nodes
      BY <1>0, <2>1, <2>2 DEF ListsTypeOK, Nodes
    <2>4. ListsTypeOK'
      BY <1>0, <1>1, <2>3 DEF Announces, ListsTypeOK
    <2>5. ScreenTypeOK'
      BY <1>0, <1>1 DEF Announces, ScreenTypeOK
    <2> QED BY <1>f, <1>g, <1>b, <1>1, <2>4, <2>5 DEF Announces, ViewsInvType
  <1>2. ASSUME NEW d \in Device, FallsSilent(d) PROVE ViewsInvType'
    <2>1. ScreenTypeOK'
      BY <1>0, <1>2 DEF FallsSilent, ScreenTypeOK
    <2> QED BY <1>l, <1>f, <1>g, <1>b, <1>2, <2>1 DEF FallsSilent, ViewsInvType
  <1>3. CASE Start
    BY <1>0, <1>l, <1>f, <1>g, <1>b, <1>3 DEF Start, ScreenTypeOK, ViewsInvType
  <1>4. CASE ScheduleInitialLoad
    BY <1>0, <1>l, <1>f, <1>g, <1>b, <1>4 DEF ScheduleInitialLoad, ScreenTypeOK, ViewsInvType
  <1>5. CASE RunInitialRefresh
    <2>1. IsFetch(<<"asked", "initial">>)
      BY DEF IsFetch
    <2>2. FetchesTypeOK'
      BY <1>0, <1>5, <2>1, AnotherFetch DEF RunInitialRefresh
    <2>3. ScreenTypeOK'
      BY <1>0, <1>5 DEF RunInitialRefresh, ScreenTypeOK
    <2> QED BY <1>l, <1>g, <1>b, <1>5, <2>2, <2>3 DEF RunInitialRefresh, ViewsInvType
  <1>6. ASSUME NEW t \in timers, TimerFires(t) PROVE ViewsInvType'
    <2>1. IsFetch(<<"asked", "timer">>)
      BY DEF IsFetch
    <2>2. FetchesTypeOK'
      BY <1>0, <1>6, <2>1, AnotherFetch DEF TimerFires
    <2>3. ScreenTypeOK'
      BY <1>0, <1>6 DEF TimerFires, ScreenTypeOK
    <2> QED BY <1>l, <1>g, <1>b, <1>6, <2>2, <2>3 DEF TimerFires, ViewsInvType
  <1>7. ASSUME NEW f \in fetches, Answers(f) PROVE ViewsInvType'
    <2>1. f[2] \in {"initial", "timer"} /\ mesh \in Nodes
      BY <1>0 DEF FetchesTypeOK, IsFetch, ListsTypeOK
    <2>2. IsFetch(<<"list", f[2], mesh>>) /\ IsFetch(<<"failed", f[2]>>)
      BY <2>1 DEF IsFetch
    <2>3. \/ fetches' = (fetches \ {f}) \cup {<<"list", f[2], mesh>>}
          \/ fetches' = (fetches \ {f}) \cup {<<"failed", f[2]>>}
      BY <1>7 DEF Answers
    <2>4. FetchesTypeOK'
      BY <1>0, <2>2, <2>3, AnotherFetch
    <2>5. ScreenTypeOK'
      BY <1>0, <1>7 DEF Answers, ScreenTypeOK
    <2> QED BY <1>l, <1>g, <1>b, <1>7, <2>4, <2>5 DEF Answers, ViewsInvType
  <1>8. ASSUME NEW f \in fetches, FetchReturns(f) PROVE ViewsInvType'
    <2>1. _devices' \in Nodes /\ updated' \in BOOLEAN
      <3>1. CASE f[1] = "list"
        <4>1. Refreshed(f[3]) /\ f[3] \in Nodes
          BY <1>0, <1>8, <3>1 DEF FetchReturns, FetchesTypeOK, IsFetch
        <4> QED BY <1>0, <4>1, RefreshedTypes DEF ListsTypeOK, SwitchesTypeOK
      <3>2. CASE f[1] # "list"
        BY <1>0, <1>8, <3>2, Zenon DEF FetchReturns, ListsTypeOK, SwitchesTypeOK
      <3> QED BY <3>1, <3>2
    <2>2. FetchesTypeOK'
      BY <1>0, <1>8 DEF FetchReturns, FetchesTypeOK
    <2>3. ScreenTypeOK'
      BY <1>0, <1>8 DEF FetchReturns, ScreenTypeOK
    <2>4. ListsTypeOK' /\ SwitchesTypeOK'
      BY <1>0, <1>8, <2>1 DEF FetchReturns, ListsTypeOK, SwitchesTypeOK
    <2> QED BY <1>g, <1>8, <2>2, <2>3, <2>4 DEF FetchReturns, ViewsInvType
  <1>u. hide_lost \in BOOLEAN /\ updated \in BOOLEAN
    BY <1>0 DEF SwitchesTypeOK
  <1>9. CASE OnMount
    <2>1. ScreenTypeOK'
      BY <1>0, <1>9 DEF OnMount, ScreenTypeOK
    <2> QED BY <1>f, <1>h, <1>b, <1>r, <1>u, <1>9, <2>1 DEF OnMount, ViewsInvType
  <1>10. CASE OnScreenSuspend
    <2>1. ScreenTypeOK'
      BY <1>0, <1>10 DEF OnScreenSuspend, ScreenTypeOK
    <2> QED BY <1>l, <1>f, <1>h, <1>b, <1>10, <2>1 DEF OnScreenSuspend, ViewsInvType
  <1>11. CASE OnScreenResume
    <2>1. ScreenTypeOK'
      BY <1>0, <1>11 DEF OnScreenResume, ScreenTypeOK
    <2> QED BY <1>f, <1>h, <1>b, <1>r, <1>u, <1>11, <2>1 DEF OnScreenResume, ViewsInvType
  <1>12. CASE OnUnmount
    <2>1. ScreenTypeOK'
      BY <1>0, <1>12 DEF OnUnmount, ScreenTypeOK
    <2>2. SwitchesTypeOK'
      BY <1>u, <1>12 DEF OnUnmount, SwitchesTypeOK
    <2> QED BY <1>f, <1>h, <1>r, <1>u, <1>12, <2>1, <2>2 DEF OnUnmount, ViewsInvType
  <1>13. CASE StartNodeRefresh
    BY <1>l, <1>f, <1>h, <1>b, <1>s, <1>13 DEF StartNodeRefresh, ViewsInvType
  <1>14. CASE ToggleHideLost
    <2>1. SwitchesTypeOK' /\ (~hide_lost) \in BOOLEAN
      BY <1>u, <1>14 DEF ToggleHideLost, SwitchesTypeOK
    <2> QED BY <1>f, <1>g, <1>r, <1>s, <1>14, <2>1 DEF ToggleHideLost, ViewsInvType
  <1>15. CASE ActionRefresh
    BY <1>f, <1>g, <1>b, <1>r, <1>s, <1>u, <1>15 DEF ActionRefresh, ViewsInvType
  <1>16. CASE ScreenAnswered
    <2>1. ScreenFetchTypeOK'
      BY <1>0, <1>16 DEF ScreenAnswered, ScreenFetchTypeOK, ListsTypeOK
    <2>2. ScreenTypeOK'
      BY <1>0, <1>16 DEF ScreenAnswered, ScreenTypeOK
    <2> QED BY <1>l, <1>f, <1>b, <1>16, <2>1, <2>2 DEF ScreenAnswered, ViewsInvType
  <1>17. CASE ScreenRefreshed
    <2>1. _devices' \in Nodes /\ updated' \in BOOLEAN
      <3>1. CASE screenFetch[1] = "list"
        <4>1. Refreshed(screenFetch[2]) /\ screenFetch # NoFetch /\ screenFetch # Asked
          BY <1>17, <3>1 DEF ScreenRefreshed
        <4>2. screenFetch[2] \in Nodes
          BY <1>0, <3>1, <4>1 DEF ScreenFetchTypeOK
        <4> QED BY <1>0, <4>1, <4>2, RefreshedTypes DEF ListsTypeOK, SwitchesTypeOK
      <3>2. CASE screenFetch[1] # "list"
        BY <1>0, <1>17, <3>2, Zenon DEF ScreenRefreshed, ListsTypeOK, SwitchesTypeOK
      <3> QED BY <3>1, <3>2
    <2>2. ListsTypeOK' /\ SwitchesTypeOK'
      BY <1>0, <1>17, <2>1 DEF ScreenRefreshed, ListsTypeOK, SwitchesTypeOK
    <2> QED BY <1>f, <1>h, <1>s, <1>17, <2>2 DEF ScreenRefreshed, ViewsInvType
  <1>18. CASE DevicesUpdated
    <2>1. ListsTypeOK'
      BY <1>l, <1>r, <1>u, <1>18 DEF DevicesUpdated
    <2>2. SwitchesTypeOK'
      BY <1>u, <1>18 DEF DevicesUpdated, SwitchesTypeOK
    <2> QED BY <1>f, <1>g, <1>s, <1>18, <2>1, <2>2 DEF DevicesUpdated, ViewsInvType
  <1>19. CASE UNCHANGED viewsVars
    BY <1>l, <1>f, <1>g, <1>b, <1>s, <1>19 DEF viewsVars, ViewsInvType
  <1> QED
    BY <1>1, <1>2, <1>3, <1>4, <1>5, <1>6, <1>7, <1>8, <1>9, <1>10, <1>11, <1>12, <1>13, <1>14,
       <1>15, <1>16, <1>17, <1>18, <1>19 DEF ViewsNext, CacheStep, ScreenStep

LEMMA ViewsInitTypes == ViewsInit => ViewsInvType
  <1> USE ViewsAssumption, NoNodesType
  <1>1. ViewsInit => ListsTypeOK /\ FetchesTypeOK /\ ScreenFetchTypeOK
    BY DEF ViewsInit, ListsTypeOK, FetchesTypeOK, ScreenFetchTypeOK
  <1>2. ViewsInit => ScreenTypeOK
    BY DEF ViewsInit, ScreenTypeOK
  <1>3. ViewsInit => SwitchesTypeOK
    BY DEF ViewsInit, SwitchesTypeOK
  <1> QED BY <1>1, <1>2, <1>3 DEF ViewsInvType

\* The state of the cache and the Nodes screen has its types, for any nodes and fetches.
THEOREM ViewsAreTyped == ViewsSpec => []ViewsTypeOK
  BY ViewsInitTypes, StepKeepsViewsTypes, ViewsTypes, PTL DEF ViewsSpec

-----------------------------------------------------------------------------
(* The messages of the chat widget.                                        *)

\* How many of the places K are not behind i.
UpTo(K, i) == Cardinality({j \in K : j <= i})

\* The places of a part of a sequence are counted from 1, each once.
LEMMA PlacesCount ==
  ASSUME NEW n \in Nat, NEW K \in SUBSET (1..n)
  PROVE  /\ IsFiniteSet(K) /\ Cardinality(K) \in 0..n
         /\ \A i, j \in K : i < j => UpTo(K, i) < UpTo(K, j)
         /\ \A i \in K : UpTo(K, i) \in 1..Cardinality(K)
         /\ \A k \in 1..Cardinality(K) : \E i \in K : UpTo(K, i) = k
  <1> DEFINE c == Cardinality(K)
  <1>1. IsFiniteSet(K) /\ c \in 0..n
    <2>1. IsFiniteSet(1..n) /\ Cardinality(1..n) = n
      BY FS_Interval
    <2>2. IsFiniteSet(K) /\ c <= n
      BY <2>1, FS_Subset
    <2> QED BY <2>2, FS_CardinalityType
  <1>2. ASSUME NEW i \in K PROVE IsFiniteSet({j \in K : j <= i}) /\ UpTo(K, i) \in 1..c
    <2> DEFINE low == {j \in K : j <= i}
    <2>1. low \in SUBSET K /\ i \in low
      OBVIOUS
    <2>2. IsFiniteSet(low) /\ Cardinality(low) <= c
      BY <1>1, <2>1, FS_Subset
    <2>3. Cardinality(low) \in Nat /\ Cardinality(low) # 0
      BY <2>1, <2>2, FS_CardinalityType, FS_EmptySet
    <2> QED BY <1>1, <2>2, <2>3 DEF UpTo
  <1>3. ASSUME NEW i \in K, NEW j \in K, i < j PROVE UpTo(K, i) < UpTo(K, j)
    <2> DEFINE low == {k \in K : k <= i}
               high == {k \in K : k <= j}
    <2>1. low \in SUBSET high /\ j \in high /\ j \notin low
      <3>1. i \in Nat /\ j \in Nat /\ \A k \in K : k \in Nat
        OBVIOUS
      <3>2. \A k \in Nat : k <= i => k <= j
        BY <1>3, <3>1
      <3>3. ~(j <= i) /\ j <= j
        BY <1>3, <3>1
      <3> QED BY <3>1, <3>2, <3>3
    <2>2. IsFiniteSet(high) /\ Cardinality(high) \in 1..c /\ Cardinality(low) \in 1..c
      BY <1>2 DEF UpTo
    <2>3. Cardinality(low) <= Cardinality(high) /\ Cardinality(low) # Cardinality(high)
      BY <2>1, <2>2, FS_Subset
    <2> QED BY <1>1, <2>2, <2>3 DEF UpTo
  <1>4. ASSUME NEW k \in 1..c PROVE \E i \in K : UpTo(K, i) = k
    <2> DEFINE f == [i \in K |-> UpTo(K, i)]
    <2>1. f \in Injection(K, 1..c)
      <3>1. f \in [K -> 1..c]
        BY <1>2
      <3>2. ASSUME NEW i \in K, NEW j \in K, f[i] = f[j] PROVE i = j
        <4>1. UpTo(K, i) = UpTo(K, j)
          BY <3>2
        <4>3. UpTo(K, i) \in Nat /\ UpTo(K, j) \in Nat
          <5>1. UpTo(K, i) \in 1..c /\ UpTo(K, j) \in 1..c
            BY <1>2
          <5> QED BY <1>1, <5>1
        <4>2. i \in Nat /\ j \in Nat
          OBVIOUS
        <4>4. ~(i < j) /\ ~(j < i)
          BY <1>3, <4>1, <4>3
        <4> QED BY <4>2, <4>4
      <3>3. IsInjective(f)
        BY <3>1, <3>2 DEF IsInjective
      <3> QED BY <3>1, <3>3 DEF Injection
    <2>2. IsFiniteSet(1..c) /\ Cardinality(1..c) = c
      BY <1>1, FS_Interval
    <2>3. f \in Surjection(K, 1..c)
      <3>1. \A S, T : \A g \in Injection(S, T) :
               IsFiniteSet(T) /\ Cardinality(S) = Cardinality(T) => g \in Surjection(S, T)
        BY FS_Injection
      <3> HIDE DEF f
      <3> QED BY <2>1, <2>2, <3>1
    <2> QED BY <2>3 DEF Surjection
  <1> QED BY <1>1, <1>2, <1>3, <1>4

\* A part of a sequence: elements of it, in their order.
LEMMA PartIs ==
  ASSUME NEW S, NEW s \in Seq(S), NEW K \in SUBSET DOMAIN s
  PROVE  /\ PartOf(s, K) \in Seq(S)
         /\ \E p \in [DOMAIN PartOf(s, K) -> K] :
               /\ \A k \in DOMAIN PartOf(s, K) : PartOf(s, K)[k] = s[p[k]]
               /\ \A k, l \in DOMAIN PartOf(s, K) : k < l => p[k] < p[l]
  <1> DEFINE c == Cardinality(K)
             p == [k \in 1..c |-> CHOOSE i \in K : UpTo(K, i) = k]
  <1>1. DOMAIN s = 1..Len(s) /\ Len(s) \in Nat
    OBVIOUS
  <1>2. /\ c \in Nat
        /\ \A i, j \in K : i < j => UpTo(K, i) < UpTo(K, j)
        /\ \A k \in 1..c : \E i \in K : UpTo(K, i) = k
    BY <1>1, PlacesCount
  <1>3. \A k \in 1..c : p[k] \in K /\ UpTo(K, p[k]) = k
    BY <1>2
  <1>4. p \in [1..c -> K]
    BY <1>3
  <1>5. PartOf(s, K) = [k \in 1..c |-> s[p[k]]]
    BY DEF PartOf, UpTo
  <1> HIDE DEF p
  <1>6. \A k \in 1..c : s[p[k]] \in S
    BY <1>1, <1>3
  <1>7. PartOf(s, K) \in Seq(S) /\ DOMAIN PartOf(s, K) = 1..c
    BY <1>2, <1>5, <1>6
  <1>8. ASSUME NEW k \in 1..c, NEW l \in 1..c, k < l PROVE p[k] < p[l]
    <2>1. p[k] \in Nat /\ p[l] \in Nat /\ p[k] \in K /\ p[l] \in K
      BY <1>1, <1>3
    <2>2. UpTo(K, p[k]) = k /\ UpTo(K, p[l]) = l
      BY <1>3
    <2>3. CASE p[l] < p[k]
      BY <1>2, <1>8, <2>1, <2>2, <2>3
    <2>4. CASE p[l] = p[k]
      BY <1>8, <2>2, <2>4
    <2> QED BY <2>1, <2>3, <2>4
  <1> QED BY <1>4, <1>5, <1>7, <1>8

\* Where a sequence has e for the first time, if it has it.
LEMMA IndexIs ==
  ASSUME NEW S, NEW s \in Seq(S), NEW e
  PROVE  /\ IndexOf(s, e) \in 0..Len(s)
         /\ e \in ToSet(s) => IndexOf(s, e) \in DOMAIN s /\ s[IndexOf(s, e)] = e
  <1> DEFINE I == {i \in 1..Len(s) : s[i] = e}
  <1>1. DOMAIN s = 1..Len(s) /\ Len(s) \in Nat
    OBVIOUS
  <1>2. IndexOf(s, e) = IF I # {} THEN Min(I) ELSE 0
    BY DEF IndexOf, SelectInSeq
  <1>3. ASSUME I # {} PROVE Min(I) \in I
    <2>1. /\ Cardinality(I) \in 0..Len(s) /\ IsFiniteSet(I)
          /\ \A i, j \in I : i < j => UpTo(I, i) < UpTo(I, j)
          /\ \A i \in I : UpTo(I, i) \in 1..Cardinality(I)
          /\ \A k \in 1..Cardinality(I) : \E i \in I : UpTo(I, i) = k
      <3>1. I \in SUBSET (1..Len(s))
        OBVIOUS
      <3> HIDE DEF I
      <3> QED BY <1>1, <3>1, PlacesCount
    <2>2. 1 \in 1..Cardinality(I)
      <3>1. Cardinality(I) # 0
        BY <1>3, <2>1, FS_EmptySet
      <3> QED BY <1>1, <2>1, <3>1
    <2>3. PICK i \in I : UpTo(I, i) = 1
      BY <2>1, <2>2
    <2>4. ASSUME NEW j \in I PROVE i <= j
      <3>1. i \in Nat /\ j \in Nat /\ UpTo(I, j) >= 1
        BY <1>1, <2>1
      <3>2. CASE j < i
        <4>1. UpTo(I, j) < 1
          BY <2>1, <2>3, <3>2
        <4>2. UpTo(I, j) \in Nat
          BY <2>1
        <4> QED BY <3>1, <4>1, <4>2
      <3> QED BY <3>1, <3>2
    <2> HIDE DEF I
    <2> QED BY <2>3, <2>4 DEF Min
  <1>4. e \in ToSet(s) => I # {}
    BY <1>1 DEF ToSet
  <1> QED BY <1>1, <1>2, <1>3, <1>4

\* What the daemon holds, and what the widget shows of it and remembers.
Posted == {b \in Bubble : b.id \in Id}
StoreTypes ==
    /\ stored \in Seq(Posted) /\ lastId \in 0..MaxId
    /\ \A i, j \in DOMAIN stored : i < j => stored[i].id < stored[j].id
    /\ \A i \in DOMAIN stored : stored[i].id <= lastId
ShownTypes ==
    /\ shown \in Seq(Bubble) /\ message_ids \in Seq(Id)
    /\ pending \in BOOLEAN /\ searched \in BOOLEAN
WorkTypes ==
    refresh \in [Worker -> [at : {"idle", "fetch", "answered", "rebuild", "mount"},
                            list : Seq(Posted), rest : Seq(Posted)]]
LifeTypes ==
    /\ mounted \in BOOLEAN /\ subscribed \in BOOLEAN /\ poll \in BOOLEAN
    /\ initialize \in {"none", "refresh", "subscribe", "done"}
UseTypes ==
    /\ failures \in Nat /\ acts \in Nat /\ failures + acts <= MaxEvents
    /\ search \in BOOLEAN /\ send \in {"none", "sending", "stored", "sleep", "done"}
DeleteTypes == delete = NoDelete \/ delete \in {"asked", "deleted", "removed"} \X (0..MaxId)
RetryTypes == retry = NoRetry \/ retry = <<"look">> \/ retry \in {"asked"} \X Id
ChatTyped ==
    /\ StoreTypes /\ ShownTypes /\ WorkTypes /\ LifeTypes /\ UseTypes
    /\ DeleteTypes /\ RetryTypes

LEMMA ChatTypesShow == ChatTyped => ChatTypeOK
  <1> SUFFICES ASSUME ChatTyped PROVE ChatTypeOK
    OBVIOUS
  <1>1. StoreTypes /\ ShownTypes /\ WorkTypes /\ LifeTypes /\ UseTypes /\ DeleteTypes /\ RetryTypes
    BY DEF ChatTyped
  <1>2. ToSet(stored) \subseteq Bubble /\ ToSet(shown) \subseteq Bubble /\ ToSet(message_ids) \subseteq Id
    BY <1>1 DEF StoreTypes, ShownTypes, ToSet, Posted
  <1>3. /\ \A i, j \in DOMAIN stored : i < j => stored[i].id < stored[j].id
        /\ lastId \in 0..MaxId
    BY <1>1 DEF StoreTypes
  <1>4. failures \in 0..MaxEvents /\ acts \in 0..MaxEvents
    BY <1>1, ChatAssumption DEF UseTypes
  <1>5. \A w \in Worker : refresh[w].at \in {"idle", "fetch", "answered", "rebuild", "mount"}
    BY <1>1 DEF WorkTypes
  <1> QED
    BY <1>1, <1>2, <1>3, <1>4, <1>5, Zenon
       DEF ChatTypeOK, ShownTypes, LifeTypes, UseTypes, DeleteTypes, RetryTypes

LEMMA ChatTypesStart == ChatInit => ChatTyped
  <1> SUFFICES ASSUME ChatInit PROVE ChatTyped
    OBVIOUS
  <1>1. StoreTypes
    <2>1. PICK f \in BOOLEAN : stored \in {<<>>, <<[id |-> 1, ours |-> FALSE, failed |-> f]>>}
      BY DEF ChatInit
    <2>2. lastId = Len(stored) /\ MaxId \in Nat \ {0}
      BY ChatAssumption DEF ChatInit
    <2>3. CASE stored = <<>>
      BY <2>2, <2>3 DEF StoreTypes
    <2>4. CASE stored = <<[id |-> 1, ours |-> FALSE, failed |-> f]>>
      <3>1. [id |-> 1, ours |-> FALSE, failed |-> f] \in Posted
        BY <2>2 DEF Posted, Bubble, Id
      <3>2. stored \in Seq(Posted) /\ DOMAIN stored = {1} /\ stored[1].id = 1 /\ Len(stored) = 1
        BY <2>4, <3>1
      <3> QED BY <2>2, <3>2 DEF StoreTypes
    <2> QED BY <2>1, <2>3, <2>4
  <1>2. ShownTypes
    <2>1. shown = <<>> /\ message_ids = <<>> /\ pending = FALSE /\ searched = FALSE
      BY DEF ChatInit
    <2>2. shown \in Seq(Bubble) /\ message_ids \in Seq(Id)
      BY <2>1
    <2> QED BY <2>1, <2>2, Zenon DEF ShownTypes
  <1>3. WorkTypes
    BY DEF ChatInit, WorkTypes, Idle
  <1>4. LifeTypes
    BY Zenon DEF ChatInit, LifeTypes
  <1>6. UseTypes
    <2>1. failures = 0 /\ acts = 0 /\ search = FALSE /\ send = "none"
      BY DEF ChatInit
    <2>2. failures \in Nat /\ acts \in Nat /\ failures + acts <= MaxEvents
      BY <2>1, ChatAssumption
    <2> QED BY <2>1, <2>2, Zenon DEF UseTypes
  <1>5. DeleteTypes /\ RetryTypes
    BY DEF ChatInit, DeleteTypes, RetryTypes
  <1> QED BY <1>1, <1>2, <1>3, <1>4, <1>5, <1>6 DEF ChatTyped

\* A part that nothing touches keeps its types.
LEMMA ChatTypesStay ==
  /\ StoreTypes /\ UNCHANGED <<stored, lastId>> => StoreTypes'
  /\ ShownTypes /\ UNCHANGED viewVars => ShownTypes'
  /\ WorkTypes /\ UNCHANGED refresh => WorkTypes'
  /\ LifeTypes /\ UNCHANGED lifeVars => LifeTypes'
  /\ UseTypes /\ UNCHANGED <<failures, acts, search, send>> => UseTypes'
  /\ DeleteTypes /\ UNCHANGED delete => DeleteTypes'
  /\ RetryTypes /\ UNCHANGED retry => RetryTypes'
  <1>1. StoreTypes /\ UNCHANGED <<stored, lastId>> => StoreTypes'
    BY DEF StoreTypes
  <1>2. ShownTypes /\ UNCHANGED viewVars => ShownTypes'
    BY DEF ShownTypes, viewVars
  <1>3. WorkTypes /\ UNCHANGED refresh => WorkTypes'
    BY DEF WorkTypes
  <1>4. LifeTypes /\ UNCHANGED lifeVars => LifeTypes'
    BY DEF LifeTypes, lifeVars
  <1>5. UseTypes /\ UNCHANGED <<failures, acts, search, send>> => UseTypes'
    BY DEF UseTypes
  <1>6. DeleteTypes /\ UNCHANGED delete => DeleteTypes'
    BY DEF DeleteTypes
  <1>7. RetryTypes /\ UNCHANGED retry => RetryTypes'
    BY DEF RetryTypes
  <1> QED BY <1>1, <1>2, <1>3, <1>4, <1>5, <1>6, <1>7, Zenon

LEMMA FailedIs ==
  ASSUME NEW b \in Bubble, NEW f \in BOOLEAN
  PROVE  /\ [b EXCEPT !.failed = f] \in Bubble /\ [b EXCEPT !.failed = f].id = b.id
         /\ b \in Posted => [b EXCEPT !.failed = f] \in Posted
  BY DEF Bubble, Posted

\* The ids of messages, as many as they are.
LEMMA IdsAre ==
  ASSUME NEW s \in Seq(Posted)
  PROVE  Ids(s) \in Seq(Id) /\ DOMAIN Ids(s) = DOMAIN s /\ \A i \in DOMAIN s : Ids(s)[i] = s[i].id
  BY DEF Ids, Posted

LEMMA MarkedTypes ==
  ASSUME ShownTypes, NEW id, NEW failed \in BOOLEAN PROVE Marked(id, failed) \in Seq(Bubble)
  <1>1. shown \in Seq(Bubble)
    BY DEF ShownTypes
  <1>2. \A k \in DOMAIN shown : shown[k] \in Bubble /\ [shown[k] EXCEPT !.failed = failed] \in Bubble
    BY <1>1, FailedIs
  <1> QED BY <1>1, <1>2 DEF Marked

\* A refresh begins, or is over.
LEMMA WorkChanges ==
  ASSUME WorkTypes, NEW w
  PROVE  /\ Starts(w) => WorkTypes'
         /\ refresh' = [refresh EXCEPT ![w] = Idle] => WorkTypes'
         /\ refresh' = [v \in Worker |-> Idle] => WorkTypes'
  <1> DEFINE Work == [at : {"idle", "fetch", "answered", "rebuild", "mount"},
                      list : Seq(Posted), rest : Seq(Posted)]
  <1>1. Idle \in Work /\ [Idle EXCEPT !.at = "fetch"] \in Work
    <2>1. <<>> \in Seq(Posted)
      OBVIOUS
    <2>2. Idle = [at |-> "idle", list |-> <<>>, rest |-> <<>>]
      BY DEF Idle
    <2>3. [Idle EXCEPT !.at = "fetch"] = [at |-> "fetch", list |-> <<>>, rest |-> <<>>]
      BY <2>2
    <2> QED BY <2>1, <2>2, <2>3
  <1>2. refresh \in [Worker -> Work] /\ (refresh' \in [Worker -> Work] => WorkTypes')
    BY DEF WorkTypes
  <1> HIDE DEF Work
  <1> QED BY <1>1, <1>2 DEF Starts

\* One worker's refresh goes on.
LEMMA WorkGoesOn ==
  ASSUME WorkTypes, NEW w \in Worker, NEW a \in {"idle", "fetch", "answered", "rebuild", "mount"},
         NEW l \in Seq(Posted), NEW q \in Seq(Posted),
         refresh' = [refresh EXCEPT ![w] = [at |-> a, list |-> l, rest |-> q]]
  PROVE  WorkTypes'
  <1> DEFINE Work == [at : {"idle", "fetch", "answered", "rebuild", "mount"},
                      list : Seq(Posted), rest : Seq(Posted)]
  <1>1. [at |-> a, list |-> l, rest |-> q] \in Work
    OBVIOUS
  <1>2. refresh \in [Worker -> Work] /\ (refresh' \in [Worker -> Work] => WorkTypes')
    BY DEF WorkTypes
  <1> HIDE DEF Work
  <1> QED BY <1>1, <1>2

LEMMA WorkIs ==
  ASSUME WorkTypes, NEW w \in Worker
  PROVE  /\ refresh[w].list \in Seq(Posted) /\ refresh[w].rest \in Seq(Posted)
         /\ refresh[w] = [at |-> refresh[w].at, list |-> refresh[w].list, rest |-> refresh[w].rest]
         /\ <<>> \in Seq(Posted) /\ Seq(Posted) \subseteq Seq(Bubble)
  BY DEF WorkTypes, Posted

\* What a refresh has read, shown and remembered.
LEMMA RefreshTyped ==
  ASSUME ChatTyped, NEW w \in Worker, RefreshStep(w) \/ FetchFails(w) PROVE ChatTyped'
  <1>1. StoreTypes /\ ShownTypes /\ WorkTypes /\ LifeTypes /\ UseTypes /\ DeleteTypes /\ RetryTypes
    BY DEF ChatTyped
  <1> DEFINE list == refresh[w].list
             togo == refresh[w].rest
  <1>2. list \in Seq(Posted) /\ togo \in Seq(Posted) /\ <<>> \in Seq(Posted) /\ Seq(Posted) \subseteq Seq(Bubble)
    BY <1>1, WorkIs
  <1>3. Ids(list) \in Seq(Id) /\ DOMAIN Ids(list) = DOMAIN list /\ \A i \in DOMAIN list : Ids(list)[i] = list[i].id
    BY <1>2, IdsAre
  <1>4. refresh[w] = [at |-> refresh[w].at, list |-> list, rest |-> togo]
    BY <1>1, WorkIs
  <1>5. shown \in Seq(Bubble) /\ message_ids \in Seq(Id) /\ pending \in BOOLEAN /\ searched \in BOOLEAN
    BY <1>1 DEF ShownTypes
  <1> HIDE DEF list, togo
  <1>6. UNCHANGED <<stored, lastId, lifeVars, acts, send, search, delete, retry>>
    BY DEF RefreshStep, FetchFails, Answer, ShowStatuses, ShowFirst, Rebuild, ShowDeleted, ShowNew, MountBubble,
           Mounted, daemonVars, userVars
  <1>7. StoreTypes' /\ LifeTypes' /\ DeleteTypes' /\ RetryTypes'
    BY <1>1, <1>6, ChatTypesStay
  <1>8. UseTypes'
    <2>1. CASE UNCHANGED failures
      BY <1>1, <1>6, <2>1, ChatTypesStay
    <2>2. CASE FetchFails(w)
      <3>1. failures' = failures + 1 /\ failures + acts < MaxEvents /\ UNCHANGED <<acts, send, search>>
        BY <1>6, <2>2 DEF FetchFails
      <3>2. failures' \in Nat /\ acts' \in Nat /\ failures' + acts' <= MaxEvents
        BY <1>1, <3>1, ChatAssumption DEF UseTypes
      <3> QED BY <1>1, <3>1, <3>2, Zenon DEF UseTypes
    <2> QED
      BY <2>1, <2>2 DEF RefreshStep, Answer, ShowStatuses, ShowFirst, Rebuild, ShowDeleted, ShowNew, MountBubble,
                        Mounted, daemonVars
  <1>9. ShownTypes' /\ WorkTypes'
    <2>1. CASE Answer(w)
      <3>1. refresh' = [refresh EXCEPT ![w] = [at |-> "answered", list |-> stored, rest |-> <<>>]]
        <4>1. [Idle EXCEPT !.at = "answered", !.list = stored] = [at |-> "answered", list |-> stored, rest |-> <<>>]
          <5>1. [Idle EXCEPT !.at = "answered"] = [at |-> "answered", list |-> <<>>, rest |-> <<>>]
            BY DEF Idle
          <5>2. [[at |-> "answered", list |-> <<>>, rest |-> <<>>] EXCEPT !.list = stored]
                = [at |-> "answered", list |-> stored, rest |-> <<>>]
            OBVIOUS
          <5> QED BY <5>1, <5>2
        <4> QED BY <2>1, <4>1 DEF Answer
      <3>2. WorkTypes'
        BY <1>1, <1>2, <3>1, WorkGoesOn DEF StoreTypes
      <3> QED BY <1>1, <2>1, <3>2, ChatTypesStay DEF Answer
    <2>2. CASE FetchFails(w)
      <3>1. refresh' = [refresh EXCEPT ![w] = [at |-> "answered", list |-> <<>>, rest |-> <<>>]]
        <4>1. [Idle EXCEPT !.at = "answered"] = [at |-> "answered", list |-> <<>>, rest |-> <<>>]
          BY DEF Idle
        <4> QED BY <2>2, <4>1 DEF FetchFails
      <3>2. WorkTypes'
        BY <1>1, <1>2, <3>1, WorkGoesOn
      <3> QED BY <1>1, <2>2, <3>2, ChatTypesStay DEF FetchFails
    <2>3. CASE ShowStatuses(w)
      <3>1. /\ shown' = [k \in DOMAIN shown |->
                    IF shown[k].id \in ToSet(Ids(list)) THEN list[IndexOf(Ids(list), shown[k].id)] ELSE shown[k]]
            /\ refresh' = [refresh EXCEPT ![w] = Idle] /\ UNCHANGED <<message_ids, pending, searched>>
        BY <2>3 DEF ShowStatuses, list
      <3>2. ASSUME NEW k \in DOMAIN shown, shown[k].id \in ToSet(Ids(list))
            PROVE  list[IndexOf(Ids(list), shown[k].id)] \in Bubble
        <4>1. IndexOf(Ids(list), shown[k].id) \in DOMAIN list
          BY <1>3, <3>2, IndexIs
        <4> QED BY <1>2, <4>1 DEF Posted
      <3>3. \A k \in DOMAIN shown : shown[k] \in Bubble
        BY <1>5
      <3>4. shown' \in Seq(Bubble)
        BY <1>5, <3>1, <3>2, <3>3
      <3>5. WorkTypes'
        BY <1>1, <3>1, WorkChanges
      <3> QED BY <1>5, <3>1, <3>4, <3>5 DEF ShownTypes
    <2>4. CASE ShowFirst(w)
      <3>1. /\ shown' = <<>> /\ searched' = FALSE /\ UNCHANGED <<message_ids, pending>>
            /\ refresh' = [refresh EXCEPT ![w] = [at |-> "rebuild", list |-> list, rest |-> togo]]
        <4>1. [refresh[w] EXCEPT !.at = "rebuild"] = [at |-> "rebuild", list |-> list, rest |-> togo]
          BY <1>4
        <4>2. refresh' = [refresh EXCEPT ![w] = [refresh[w] EXCEPT !.at = "rebuild"]]
          BY <2>4 DEF ShowFirst
        <4> QED BY <2>4, <4>1, <4>2 DEF ShowFirst
      <3>2. WorkTypes'
        BY <1>1, <1>2, <3>1, WorkGoesOn
      <3>3. shown' \in Seq(Bubble)
        BY <3>1
      <3> QED BY <1>5, <3>1, <3>2, <3>3, Zenon DEF ShownTypes
    <2>5. CASE Rebuild(w)
      <3>1. /\ message_ids' = Ids(list) /\ pending' = FALSE /\ UNCHANGED <<shown, searched>>
            /\ refresh' = [refresh EXCEPT ![w] = [at |-> "mount", list |-> <<>>, rest |-> list]]
        BY <2>5 DEF Rebuild, list
      <3>2. WorkTypes'
        BY <1>1, <1>2, <3>1, WorkGoesOn
      <3> QED BY <1>3, <1>5, <3>1, <3>2, Zenon DEF ShownTypes
    <2>6. CASE ShowDeleted(w)
      <3>1. message_ids' = <<>> /\ Starts(w) /\ UNCHANGED <<shown, pending, searched>>
        BY <2>6 DEF ShowDeleted
      <3>2. WorkTypes' /\ message_ids' \in Seq(Id)
        BY <1>1, <3>1, WorkChanges
      <3> QED BY <1>5, <3>1, <3>2, Zenon DEF ShownTypes
    <2>7. CASE ShowNew(w)
      <3> DEFINE K == {k \in DOMAIN shown : shown[k].id # 0}
                 fresh == {k \in DOMAIN list : list[k].id \notin ToSet(message_ids)}
      <3>1. /\ shown' = PartOf(shown, K) /\ UNCHANGED <<message_ids, pending, searched>>
            /\ refresh' = [refresh EXCEPT ![w] = [at |-> "mount", list |-> list, rest |-> PartOf(list, fresh)]]
        <4>1. [refresh[w] EXCEPT !.at = "mount", !.rest = PartOf(list, fresh)]
              = [at |-> "mount", list |-> list, rest |-> PartOf(list, fresh)]
          <5>1. [refresh[w] EXCEPT !.at = "mount"] = [at |-> "mount", list |-> list, rest |-> togo]
            BY <1>4
          <5>2. [[at |-> "mount", list |-> list, rest |-> togo] EXCEPT !.rest = PartOf(list, fresh)]
                = [at |-> "mount", list |-> list, rest |-> PartOf(list, fresh)]
            OBVIOUS
          <5> QED BY <5>1, <5>2
        <4>2. refresh' = [refresh EXCEPT ![w] = [refresh[w] EXCEPT !.at = "mount", !.rest = PartOf(list, fresh)]]
          BY <1>1, <2>7 DEF ShowNew, list, WorkTypes
        <4> QED BY <2>7, <4>1, <4>2 DEF ShowNew
      <3>2. PartOf(shown, K) \in Seq(Bubble) /\ PartOf(list, fresh) \in Seq(Posted)
        <4>1. K \in SUBSET DOMAIN shown /\ fresh \in SUBSET DOMAIN list
          OBVIOUS
        <4> HIDE DEF K, fresh
        <4> QED BY <1>2, <1>5, <4>1, PartIs
      <3> HIDE DEF K, fresh
      <3>3. WorkTypes'
        BY <1>1, <1>2, <3>1, <3>2, WorkGoesOn
      <3> QED BY <1>5, <3>1, <3>2, <3>3, Zenon DEF ShownTypes
    <2>8. CASE MountBubble(w)
      <3>1. /\ shown' = Append(shown, Head(togo)) /\ UNCHANGED <<message_ids, pending, searched>> /\ togo # <<>>
            /\ refresh' = [refresh EXCEPT ![w] = [at |-> "mount", list |-> list, rest |-> Tail(togo)]]
        <4>1. [refresh[w] EXCEPT !.rest = Tail(togo)] = [at |-> "mount", list |-> list, rest |-> Tail(togo)]
          BY <1>4, <2>8 DEF MountBubble
        <4>2. refresh' = [refresh EXCEPT ![w] = [refresh[w] EXCEPT !.rest = Tail(togo)]]
          BY <2>8 DEF MountBubble, togo
        <4> QED BY <2>8, <4>1, <4>2 DEF MountBubble, togo
      <3>2. Head(togo) \in Bubble /\ Tail(togo) \in Seq(Posted)
        BY <1>2, <3>1 DEF Posted
      <3>3. WorkTypes'
        BY <1>1, <1>2, <3>1, <3>2, WorkGoesOn
      <3>4. shown' \in Seq(Bubble)
        BY <1>5, <3>1, <3>2
      <3> QED BY <1>5, <3>1, <3>3, <3>4, Zenon DEF ShownTypes
    <2>9. CASE Mounted(w)
      <3>1. /\ message_ids' = IF list = <<>> THEN message_ids ELSE Ids(list)
            /\ pending' = (list = <<>> /\ pending) /\ UNCHANGED <<shown, searched>>
            /\ refresh' = [refresh EXCEPT ![w] = Idle]
        BY <2>9 DEF Mounted, list
      <3>2. WorkTypes'
        BY <1>1, <3>1, WorkChanges
      <3>3. pending' \in BOOLEAN
        BY <3>1, Zenon
      <3> QED BY <1>3, <1>5, <3>1, <3>2, <3>3, Zenon DEF ShownTypes
    <2> QED
      BY <2>1, <2>2, <2>3, <2>4, <2>5, <2>6, <2>7, <2>8, <2>9, Zenon DEF RefreshStep
  <1> QED BY <1>1, <1>7, <1>8, <1>9 DEF ChatTyped

\* A message is stored, or changes its status, or some are deleted.
LEMMA StoreGrows ==
  ASSUME StoreTypes, lastId < MaxId, NEW o \in BOOLEAN, lastId' = lastId + 1,
         stored' = Append(stored, [id |-> lastId + 1, ours |-> o, failed |-> FALSE])
  PROVE  StoreTypes'
  <1> DEFINE m == [id |-> lastId + 1, ours |-> o, failed |-> FALSE]
             n == Len(stored)
  <1>1. stored \in Seq(Posted) /\ DOMAIN stored = 1..n /\ n \in Nat /\ lastId \in 0..MaxId /\ MaxId \in Nat
    BY ChatAssumption DEF StoreTypes
  <1>2. m \in Posted /\ m.id = lastId'
    BY <1>1 DEF Posted, Bubble, Id
  <1> HIDE DEF m
  <1>3. /\ stored' \in Seq(Posted) /\ DOMAIN stored' = 1..(n + 1) /\ stored'[n + 1] = m
        /\ \A i \in 1..n : stored'[i] = stored[i]
    BY <1>1, <1>2 DEF m
  <1>4. \A i \in 1..n : stored[i].id \in Nat /\ stored[i].id <= lastId
    BY <1>1 DEF StoreTypes, Posted, Id
  <1>5. lastId' \in 0..MaxId
    BY <1>1
  <1>6. ASSUME NEW i \in 1..(n + 1), NEW j \in 1..(n + 1), i < j PROVE stored'[i].id < stored'[j].id
    <2>1. i \in 1..n
      BY <1>1, <1>6
    <2>2. CASE j \in 1..n
      BY <1>1, <1>3, <1>6, <2>1, <2>2 DEF StoreTypes
    <2>3. CASE j = n + 1
      BY <1>1, <1>2, <1>3, <1>4, <2>1, <2>3
    <2> QED BY <1>1, <2>2, <2>3
  <1>7. ASSUME NEW i \in 1..(n + 1) PROVE stored'[i].id <= lastId'
    <2>1. CASE i \in 1..n
      BY <1>1, <1>3, <1>4, <2>1
    <2>2. CASE i = n + 1
      BY <1>1, <1>2, <1>3, <2>2
    <2> QED BY <1>1, <2>1, <2>2
  <1> QED BY <1>3, <1>5, <1>6, <1>7 DEF StoreTypes

LEMMA StoreKeepsIds ==
  ASSUME StoreTypes, UNCHANGED lastId, stored' \in Seq(Posted), DOMAIN stored' = DOMAIN stored,
         \A i \in DOMAIN stored : stored'[i].id = stored[i].id
  PROVE  StoreTypes'
  BY DEF StoreTypes

LEMMA StoreShrinks ==
  ASSUME StoreTypes, UNCHANGED lastId, NEW K \in SUBSET DOMAIN stored, stored' = PartOf(stored, K)
  PROVE  StoreTypes'
  <1>1. stored \in Seq(Posted)
    BY DEF StoreTypes
  <1>2. /\ stored' \in Seq(Posted)
        /\ \E p \in [DOMAIN stored' -> K] :
              /\ \A k \in DOMAIN stored' : stored'[k] = stored[p[k]]
              /\ \A k, l \in DOMAIN stored' : k < l => p[k] < p[l]
    BY <1>1, PartIs
  <1>3. PICK p \in [DOMAIN stored' -> K] :
              /\ \A k \in DOMAIN stored' : stored'[k] = stored[p[k]]
              /\ \A k, l \in DOMAIN stored' : k < l => p[k] < p[l]
    BY <1>2
  <1>4. \A k \in DOMAIN stored' : p[k] \in DOMAIN stored
    BY <1>3
  <1>5. \A k, l \in DOMAIN stored' : k < l => stored'[k].id < stored'[l].id
    BY <1>3, <1>4 DEF StoreTypes
  <1>6. \A k \in DOMAIN stored' : stored'[k].id <= lastId
    BY <1>3, <1>4 DEF StoreTypes
  <1> QED BY <1>2, <1>5, <1>6 DEF StoreTypes

\* The user does something.
LEMMA ActsCount ==
  ASSUME UseTypes, Acts, UNCHANGED failures, search' \in BOOLEAN,
         send' \in {"none", "sending", "stored", "sleep", "done"}
  PROVE  UseTypes'
  <1>1. failures' \in Nat /\ acts' \in Nat /\ failures' + acts' <= MaxEvents
    BY ChatAssumption DEF Acts, UseTypes
  <1> QED BY <1>1, Zenon DEF UseTypes

\* A refresh begins, for whatever reason.
LEMMA StartsTyped ==
  ASSUME ChatTyped, NEW w \in Worker,
         \/ InitialRefresh(w) \/ PollFallback(w) \/ OnMessageEvent(w) \/ SendRefreshes(w) \/ CloseSearch(w)
         \/ RetryOptimistic(w) \/ RetryAnswered(w)
  PROVE  ChatTyped'
  <1>1. StoreTypes /\ ShownTypes /\ WorkTypes /\ LifeTypes /\ UseTypes /\ DeleteTypes /\ RetryTypes
    BY DEF ChatTyped
  <1>2. search \in BOOLEAN /\ send \in {"none", "sending", "stored", "sleep", "done"}
    BY <1>1 DEF UseTypes
  <1>3. CASE InitialRefresh(w)
    <2>1. /\ UNCHANGED <<stored, lastId, viewVars, failures, acts, search, send, delete, retry>>
          /\ Starts(w) /\ initialize' = "subscribe" /\ UNCHANGED <<mounted, subscribed, poll>>
      BY <1>3 DEF InitialRefresh, daemonVars, userVars
    <2>2. LifeTypes'
      BY <1>1, <2>1, Zenon DEF LifeTypes
    <2> QED BY <1>1, <2>1, <2>2, ChatTypesStay, WorkChanges DEF ChatTyped
  <1>4. CASE PollFallback(w) \/ OnMessageEvent(w)
    <2>1. UNCHANGED <<stored, lastId, viewVars, lifeVars, failures, acts, search, send, delete, retry>> /\ Starts(w)
      BY <1>4 DEF PollFallback, OnMessageEvent, daemonVars, userVars
    <2> QED BY <1>1, <2>1, ChatTypesStay, WorkChanges DEF ChatTyped
  <1>5. CASE SendRefreshes(w)
    <2>1. /\ UNCHANGED <<stored, lastId, viewVars, lifeVars, failures, acts, search, delete, retry>>
          /\ Starts(w) /\ send' = "done"
      BY <1>5 DEF SendRefreshes, daemonVars
    <2>2. UseTypes'
      <3>1. failures' \in Nat /\ acts' \in Nat /\ failures' + acts' <= MaxEvents
        BY <1>1, <2>1 DEF UseTypes
      <3> QED BY <1>2, <2>1, <3>1, Zenon DEF UseTypes
    <2> QED BY <1>1, <2>1, <2>2, ChatTypesStay, WorkChanges DEF ChatTyped
  <1>6. CASE CloseSearch(w)
    <2>1. UNCHANGED <<stored, lastId, viewVars, lifeVars, failures, search, send, delete, retry>> /\ Starts(w) /\ Acts
      BY <1>6 DEF CloseSearch, daemonVars
    <2> QED BY <1>1, <1>2, <2>1, ActsCount, ChatTypesStay, WorkChanges DEF ChatTyped
  <1>7. CASE RetryOptimistic(w)
    <2>1. /\ UNCHANGED <<stored, lastId, viewVars, lifeVars, failures, search, send, delete>> /\ Starts(w) /\ Acts
          /\ retry' = <<"look">>
      BY <1>7 DEF RetryOptimistic, daemonVars
    <2>2. RetryTypes'
      BY <2>1 DEF RetryTypes
    <2> QED BY <1>1, <1>2, <2>1, <2>2, ActsCount, ChatTypesStay, WorkChanges DEF ChatTyped
  <1>8. CASE RetryAnswered(w)
    <2>1. /\ UNCHANGED <<lastId, failures, message_ids, pending, searched, lifeVars, acts, send, search, delete>>
          /\ retry' = NoRetry
          /\ \/ /\ stored' = [k \in DOMAIN stored |-> [stored[k] EXCEPT !.failed = @ /\ stored[k].id # retry[2]]]
                /\ Starts(w) /\ UNCHANGED shown
             \/ shown' = Marked(retry[2], TRUE) /\ UNCHANGED <<stored, refresh>>
      BY <1>8 DEF RetryAnswered
    <2>2. RetryTypes'
      BY <2>1 DEF RetryTypes
    <2>3. LifeTypes' /\ UseTypes' /\ DeleteTypes'
      BY <1>1, <2>1, ChatTypesStay
    <2>4. StoreTypes' /\ ShownTypes' /\ WorkTypes'
      <3>1. CASE /\ stored' = [k \in DOMAIN stored |-> [stored[k] EXCEPT !.failed = @ /\ stored[k].id # retry[2]]]
                 /\ Starts(w) /\ UNCHANGED shown
        <4> DEFINE Sets(k) == stored[k].failed /\ stored[k].id # retry[2]
        <4>1. stored \in Seq(Posted) /\ Posted \subseteq Bubble
          BY <1>1 DEF StoreTypes, Posted
        <4>2. \A k \in DOMAIN stored : stored[k] \in Posted /\ stored[k] \in Bubble /\ Sets(k) \in BOOLEAN
          <5>1. \A k \in DOMAIN stored : stored[k] \in Posted /\ stored[k] \in Bubble
            BY <4>1
          <5>2. \A k \in DOMAIN stored : Sets(k) \in BOOLEAN
            BY Zenon
          <5> QED BY <5>1, <5>2
        <4>3. stored' = [k \in DOMAIN stored |-> [stored[k] EXCEPT !.failed = Sets(k)]]
          BY <3>1
        <4> HIDE DEF Sets
        <4>4. \A k \in DOMAIN stored : /\ [stored[k] EXCEPT !.failed = Sets(k)] \in Posted
                                       /\ [stored[k] EXCEPT !.failed = Sets(k)].id = stored[k].id
          BY <4>2, FailedIs
        <4>5. /\ stored' \in Seq(Posted) /\ DOMAIN stored' = DOMAIN stored
              /\ \A k \in DOMAIN stored : stored'[k].id = stored[k].id
          <5> DEFINE M(k) == [stored[k] EXCEPT !.failed = Sets(k)]
          <5>1. stored' = [k \in DOMAIN stored |-> M(k)]
            BY <4>3
          <5>2. \A k \in DOMAIN stored : M(k) \in Posted /\ M(k).id = stored[k].id
            BY <4>4
          <5> HIDE DEF M
          <5> QED BY <4>1, <5>1, <5>2
        <4> QED BY <1>1, <2>1, <3>1, <4>5, StoreKeepsIds, WorkChanges, ChatTypesStay DEF viewVars
      <3>2. CASE shown' = Marked(retry[2], TRUE) /\ UNCHANGED <<stored, refresh>>
        <4>1. shown' \in Seq(Bubble)
          BY <1>1, <3>2, MarkedTypes
        <4>2. ShownTypes'
          BY <1>1, <2>1, <4>1, Zenon DEF ShownTypes
        <4> QED BY <1>1, <2>1, <3>2, <4>2, ChatTypesStay
      <3> QED BY <2>1, <3>1, <3>2
    <2> QED BY <2>2, <2>3, <2>4 DEF ChatTyped
  <1> QED BY <1>3, <1>4, <1>5, <1>6, <1>7, <1>8

\* What the daemon and the mesh do, and the life of the widget.
LEMMA OthersTyped ==
  ASSUME ChatTyped,
         \/ Arrives \/ (\E i \in DOMAIN stored : DeliveryFails(i)) \/ (\E works \in BOOLEAN : Subscribe(works))
         \/ (\E m \in ToSet(stored) : UpdateBubbleStatus(m)) \/ ChatMount \/ Unmount
  PROVE  ChatTyped'
  <1>1. StoreTypes /\ ShownTypes /\ WorkTypes /\ LifeTypes /\ UseTypes /\ DeleteTypes /\ RetryTypes
    BY DEF ChatTyped
  <1>2. stored \in Seq(Posted) /\ shown \in Seq(Bubble) /\ Posted \subseteq Bubble
    BY <1>1 DEF StoreTypes, ShownTypes, Posted
  <1>3. CASE Arrives
    <2>1. /\ UNCHANGED <<failures, viewVars, refresh, lifeVars, acts, search, send, delete, retry>>
          /\ lastId < MaxId /\ lastId' = lastId + 1
          /\ stored' = Append(stored, [id |-> lastId + 1, ours |-> FALSE, failed |-> FALSE])
      BY <1>3 DEF Arrives, userVars
    <2>2. StoreTypes'
      BY <1>1, <2>1, StoreGrows
    <2> QED BY <1>1, <2>1, <2>2, ChatTypesStay DEF ChatTyped
  <1>4. ASSUME NEW i \in DOMAIN stored, DeliveryFails(i) PROVE ChatTyped'
    <2>1. /\ UNCHANGED <<lastId, failures, viewVars, refresh, lifeVars, acts, search, send, delete, retry>>
          /\ stored' = [stored EXCEPT ![i] = [stored[i] EXCEPT !.failed = TRUE]]
      BY <1>4 DEF DeliveryFails, userVars
    <2> DEFINE m == [stored[i] EXCEPT !.failed = TRUE]
    <2>2. m \in Posted /\ m.id = stored[i].id
      <3>1. stored[i] \in Posted /\ stored[i] \in Bubble
        BY <1>2
      <3> QED BY <3>1, FailedIs
    <2>3. stored' = [stored EXCEPT ![i] = m]
      BY <2>1
    <2> HIDE DEF m
    <2>4. /\ stored' \in Seq(Posted) /\ DOMAIN stored' = DOMAIN stored
          /\ \A k \in DOMAIN stored : stored'[k].id = stored[k].id
      BY <1>2, <2>2, <2>3
    <2> QED BY <1>1, <2>1, <2>4, StoreKeepsIds, ChatTypesStay DEF ChatTyped
  <1>5. ASSUME NEW works \in BOOLEAN, Subscribe(works) PROVE ChatTyped'
    <2>1. /\ UNCHANGED <<stored, lastId, viewVars, refresh, failures, acts, search, send, delete, retry, mounted>>
          /\ initialize' = "done" /\ subscribed' = works /\ poll' = TRUE
      BY <1>5 DEF Subscribe, daemonVars, userVars
    <2>2. LifeTypes'
      BY <1>1, <2>1, Zenon DEF LifeTypes
    <2> QED BY <1>1, <2>1, <2>2, ChatTypesStay DEF ChatTyped
  <1>6. ASSUME NEW m \in ToSet(stored), UpdateBubbleStatus(m) PROVE ChatTyped'
    <2> DEFINE i == IndexOf(Ids(shown), m.id)
               b == [shown[i] EXCEPT !.failed = m.failed]
    <2>1. /\ UNCHANGED <<stored, lastId, refresh, lifeVars, failures, acts, search, send, delete, retry>>
          /\ UNCHANGED <<message_ids, pending, searched>> /\ shown' = [shown EXCEPT ![i] = b]
      BY <1>6 DEF UpdateBubbleStatus, daemonVars, userVars
    <2>2. m.failed \in BOOLEAN
      BY <1>2 DEF ToSet, Bubble
    <2>3. i \in DOMAIN shown => b \in Bubble
      BY <1>2, <2>2, FailedIs
    <2> HIDE DEF i, b
    <2>4. shown' \in Seq(Bubble)
      <3>1. CASE i \in DOMAIN shown
        <4>1. b \in Bubble
          BY <2>3, <3>1
        <4> QED BY <1>2, <2>1, <3>1, <4>1
      <3>2. CASE i \notin DOMAIN shown
        <4>1. shown' = shown
          BY <1>2, <2>1, <3>2
        <4> QED BY <1>2, <4>1
      <3> QED BY <3>1, <3>2
    <2>5. ShownTypes'
      BY <1>1, <2>1, <2>4, Zenon DEF ShownTypes
    <2> QED BY <1>1, <2>1, <2>5, ChatTypesStay DEF ChatTyped
  <1>7. CASE ChatMount
    <2>1. /\ UNCHANGED <<stored, lastId, viewVars, refresh, failures, acts, search, send, delete, retry>>
          /\ mounted' = TRUE /\ initialize' = "refresh" /\ UNCHANGED <<subscribed, poll>>
      BY <1>7 DEF ChatMount, daemonVars, userVars
    <2>2. LifeTypes'
      BY <1>1, <2>1, Zenon DEF LifeTypes
    <2> QED BY <1>1, <2>1, <2>2, ChatTypesStay DEF ChatTyped
  <1>8. CASE Unmount
    <2>1. /\ UNCHANGED <<stored, lastId, viewVars, failures, acts, send>>
          /\ mounted' = FALSE /\ subscribed' = FALSE /\ poll' = FALSE /\ UNCHANGED initialize
          /\ refresh' = [w \in Worker |-> Idle] /\ search' = FALSE /\ delete' = NoDelete /\ retry' = NoRetry
      BY <1>8 DEF Unmount, daemonVars
    <2>2. LifeTypes'
      BY <1>1, <2>1, Zenon DEF LifeTypes
    <2>3. WorkTypes'
      BY <1>1, <2>1, WorkChanges
    <2>4. UseTypes'
      BY <1>1, <2>1, Zenon DEF UseTypes
    <2>5. DeleteTypes' /\ RetryTypes'
      BY <2>1 DEF DeleteTypes, RetryTypes
    <2> QED BY <1>1, <2>1, <2>2, <2>3, <2>4, <2>5, ChatTypesStay DEF ChatTyped
  <1> QED BY <1>3, <1>4, <1>5, <1>6, <1>7, <1>8

\* What the user does.
LEMMA UserTyped ==
  ASSUME ChatTyped,
         \/ Submit \/ SendStores \/ (\E failed \in BOOLEAN : SendReturns(failed)) \/ SearchStarts \/ SearchAnswers
         \/ (\E id \in 0..MaxId : PressDelete(id)) \/ DeleteAnswered \/ DeleteBubble \/ DeleteId
         \/ (\E b \in ToSet(shown) : Retry(b)) \/ RetryLooks
  PROVE  ChatTyped'
  <1>1. StoreTypes /\ ShownTypes /\ WorkTypes /\ LifeTypes /\ UseTypes /\ DeleteTypes /\ RetryTypes
    BY DEF ChatTyped
  <1>2. stored \in Seq(Posted) /\ shown \in Seq(Bubble) /\ message_ids \in Seq(Id) /\ Posted \subseteq Bubble
    BY <1>1 DEF StoreTypes, ShownTypes, Posted
  <1>3. /\ search \in BOOLEAN /\ send \in {"none", "sending", "stored", "sleep", "done"}
        /\ pending \in BOOLEAN /\ searched \in BOOLEAN
    BY <1>1 DEF UseTypes, ShownTypes
  <1>4. CASE Submit
    <2> DEFINE b == [id |-> 0, ours |-> TRUE, failed |-> FALSE]
    <2>1. /\ UNCHANGED <<stored, lastId, failures, refresh, lifeVars, search, delete, retry>> /\ Acts
          /\ pending' = TRUE /\ send' = "sending" /\ shown' = Append(shown, b) /\ UNCHANGED <<message_ids, searched>>
      BY <1>4 DEF Submit, daemonVars
    <2>2. b \in Bubble
      BY ChatAssumption DEF Bubble
    <2> HIDE DEF b
    <2>3. shown' \in Seq(Bubble)
      BY <1>2, <2>1, <2>2
    <2>4. ShownTypes'
      BY <1>1, <2>1, <2>3, Zenon DEF ShownTypes
    <2>5. UseTypes'
      BY <1>1, <1>3, <2>1, ActsCount
    <2> QED BY <1>1, <2>1, <2>4, <2>5, ChatTypesStay DEF ChatTyped
  <1>5. CASE SendStores
    <2>1. /\ UNCHANGED <<failures, viewVars, refresh, lifeVars, acts, search, delete, retry>> /\ send' = "stored"
          /\ lastId < MaxId /\ lastId' = lastId + 1
          /\ stored' = Append(stored, [id |-> lastId + 1, ours |-> TRUE, failed |-> FALSE])
      BY <1>5 DEF SendStores
    <2>2. StoreTypes'
      BY <1>1, <2>1, StoreGrows
    <2>3. UseTypes'
      BY <1>1, <2>1, Zenon DEF UseTypes
    <2> QED BY <1>1, <2>1, <2>2, <2>3, ChatTypesStay DEF ChatTyped
  <1>6. ASSUME NEW failed \in BOOLEAN, SendReturns(failed) PROVE ChatTyped'
    <2> DEFINE M(k) == [shown[k] EXCEPT !.failed = failed]
    <2>1. /\ UNCHANGED <<stored, lastId, failures, message_ids, pending, searched, refresh, lifeVars, acts, search,
                         delete, retry>>
          /\ send' = "sleep" /\ shown' = [k \in DOMAIN shown |-> IF k \in LastOfOurs THEN M(k) ELSE shown[k]]
      BY <1>6 DEF SendReturns, daemonVars
    <2>2. \A k \in DOMAIN shown : shown[k] \in Bubble /\ M(k) \in Bubble
      BY <1>2, FailedIs
    <2> HIDE DEF M
    <2>3. shown' \in Seq(Bubble)
      BY <1>2, <2>1, <2>2
    <2>4. ShownTypes'
      BY <1>1, <2>1, <2>3, Zenon DEF ShownTypes
    <2>5. UseTypes'
      BY <1>1, <2>1, Zenon DEF UseTypes
    <2> QED BY <1>1, <2>1, <2>4, <2>5, ChatTypesStay DEF ChatTyped
  <1>7. CASE SearchStarts
    <2>1. /\ UNCHANGED <<stored, lastId, failures, viewVars, refresh, lifeVars, send, delete, retry>> /\ Acts
          /\ search' = TRUE
      BY <1>7 DEF SearchStarts, daemonVars
    <2>2. UseTypes'
      BY <1>1, <1>3, <2>1, ActsCount
    <2> QED BY <1>1, <2>1, <2>2, ChatTypesStay DEF ChatTyped
  <1>8. CASE SearchAnswers
    <2>1. /\ UNCHANGED <<stored, lastId, failures, message_ids, pending, refresh, lifeVars, acts, send, delete, retry>>
          /\ search' = FALSE
          /\ \/ \E found \in SUBSET ToSet(stored) :
                   shown' = PartOf(stored, {k \in DOMAIN stored : stored[k] \in found}) /\ searched' = TRUE
             \/ UNCHANGED <<shown, searched>>
      BY <1>8 DEF SearchAnswers, daemonVars
    <2>2. ASSUME NEW found, shown' = PartOf(stored, {k \in DOMAIN stored : stored[k] \in found})
          PROVE  shown' \in Seq(Bubble)
      <3> DEFINE K == {k \in DOMAIN stored : stored[k] \in found}
      <3>1. K \in SUBSET DOMAIN stored
        OBVIOUS
      <3> HIDE DEF K
      <3>2. PartOf(stored, K) \in Seq(Posted) /\ Seq(Posted) \subseteq Seq(Bubble)
        BY <1>2, <3>1, PartIs
      <3> QED BY <2>2, <3>2 DEF K
    <2>3. shown' \in Seq(Bubble) /\ searched' \in BOOLEAN
      BY <1>2, <1>3, <2>1, <2>2, Zenon
    <2>4. ShownTypes'
      BY <1>1, <2>1, <2>3, Zenon DEF ShownTypes
    <2>5. UseTypes'
      BY <1>1, <2>1, Zenon DEF UseTypes
    <2> QED BY <1>1, <2>1, <2>4, <2>5, ChatTypesStay DEF ChatTyped
  <1>9. ASSUME NEW id \in 0..MaxId, PressDelete(id) PROVE ChatTyped'
    <2>1. /\ UNCHANGED <<stored, lastId, failures, viewVars, refresh, lifeVars, send, search, retry>> /\ Acts
          /\ delete' = <<"asked", id>>
      BY <1>9 DEF PressDelete, daemonVars
    <2>2. DeleteTypes'
      BY <2>1 DEF DeleteTypes
    <2>3. UseTypes'
      BY <1>1, <1>3, <2>1, ActsCount
    <2> QED BY <1>1, <2>1, <2>2, <2>3, ChatTypesStay DEF ChatTyped
  <1>10. CASE DeleteAnswered
    <2> DEFINE K == {k \in DOMAIN stored : stored[k].id # delete[2]}
    <2>1. /\ UNCHANGED <<lastId, failures, viewVars, refresh, lifeVars, acts, send, search, retry>>
          /\ delete[1] = "asked"
          /\ \/ stored' = PartOf(stored, K) /\ delete' = <<"deleted", delete[2]>>
             \/ UNCHANGED stored /\ delete' = NoDelete
      BY <1>10 DEF DeleteAnswered
    <2>2. K \in SUBSET DOMAIN stored
      OBVIOUS
    <2> HIDE DEF K
    <2>3. StoreTypes'
      BY <1>1, <2>1, <2>2, StoreShrinks, ChatTypesStay
    <2>4. DeleteTypes'
      BY <1>1, <2>1 DEF DeleteTypes, NoDelete
    <2> QED BY <1>1, <2>1, <2>3, <2>4, ChatTypesStay DEF ChatTyped
  <1>11. CASE DeleteBubble
    <2> DEFINE i == IndexOf(Ids(shown), delete[2])
    <2>1. /\ UNCHANGED <<stored, lastId, failures, message_ids, pending, searched, refresh, lifeVars, acts, send,
                         search, retry>>
          /\ delete[1] = "deleted" /\ delete' = <<"removed", delete[2]>>
          /\ shown' = IF IsShown(delete[2]) THEN RemoveAt(shown, i) ELSE shown
      BY <1>11 DEF DeleteBubble, daemonVars
    <2>2. i \in 0..Len(shown) /\ (IsShown(delete[2]) => i \in 1..Len(shown))
      <3>1. Ids(shown) \in Seq(0..MaxId) /\ Len(Ids(shown)) = Len(shown)
        <4>1. \A k \in DOMAIN shown : shown[k] \in Bubble
          BY <1>2
        <4>2. \A k \in DOMAIN shown : shown[k].id \in 0..MaxId
          BY <4>1 DEF Bubble
        <4>3. Ids(shown) = [k \in 1..Len(shown) |-> shown[k].id] /\ Len(shown) \in Nat /\ DOMAIN shown = 1..Len(shown)
          BY <1>2 DEF Ids
        <4> QED BY <4>2, <4>3
      <3>2. IsShown(delete[2]) => delete[2] \in ToSet(Ids(shown))
        BY <1>2 DEF IsShown, ToSet, Ids
      <3>3. DOMAIN Ids(shown) = 1..Len(Ids(shown))
        BY <3>1
      <3> QED BY <3>1, <3>2, <3>3, IndexIs
    <2> HIDE DEF i
    <2>3. shown' \in Seq(Bubble)
      BY <1>2, <2>1, <2>2 DEF RemoveAt
    <2>4. ShownTypes'
      BY <1>1, <2>1, <2>3, Zenon DEF ShownTypes
    <2>5. DeleteTypes'
      BY <1>1, <2>1 DEF DeleteTypes, NoDelete
    <2> QED BY <1>1, <2>1, <2>4, <2>5, ChatTypesStay DEF ChatTyped
  <1>12. CASE DeleteId
    <2> DEFINE i == IndexOf(message_ids, delete[2])
    <2>1. /\ UNCHANGED <<stored, lastId, failures, shown, pending, searched, refresh, lifeVars, acts, send, search,
                         retry>>
          /\ delete' = NoDelete /\ message_ids' = RemoveFirst(message_ids, delete[2])
      BY <1>12 DEF DeleteId, daemonVars
    <2>2. \/ message_ids' = message_ids
          \/ message_ids' = RemoveAt(message_ids, i) /\ i \in 1..Len(message_ids)
      <3>1. CASE delete[2] \in ToSet(message_ids)
        <4>1. i \in DOMAIN message_ids /\ DOMAIN message_ids = 1..Len(message_ids)
          BY <1>2, <3>1, IndexIs
        <4>2. RemoveFirst(message_ids, delete[2]) = RemoveAt(message_ids, i)
          <5>1. \E k \in 1..Len(message_ids) : message_ids[k] = delete[2]
            BY <1>2, <3>1 DEF ToSet
          <5> QED BY <5>1 DEF RemoveFirst, IndexOf, i
        <4> QED BY <2>1, <4>1, <4>2
      <3>2. CASE delete[2] \notin ToSet(message_ids)
        <4>1. RemoveFirst(message_ids, delete[2]) = message_ids
          BY <1>2, <3>2 DEF RemoveFirst, ToSet
        <4> QED BY <2>1, <4>1
      <3> QED BY <3>1, <3>2
    <2> HIDE DEF i
    <2>3. message_ids' \in Seq(Id)
      <3>1. CASE message_ids' = message_ids
        BY <1>2, <3>1
      <3>2. CASE message_ids' = RemoveAt(message_ids, i) /\ i \in 1..Len(message_ids)
        BY <1>2, <3>2 DEF RemoveAt
      <3> QED BY <2>2, <3>1, <3>2
    <2>4. ShownTypes'
      BY <1>1, <2>1, <2>3, Zenon DEF ShownTypes
    <2>5. DeleteTypes'
      BY <2>1 DEF DeleteTypes
    <2> QED BY <1>1, <2>1, <2>4, <2>5, ChatTypesStay DEF ChatTyped
  <1>13. ASSUME NEW b \in ToSet(shown), Retry(b) PROVE ChatTyped'
    <2>1. /\ UNCHANGED <<stored, lastId, failures, message_ids, pending, searched, refresh, lifeVars, send, search,
                         delete>>
          /\ Acts /\ b.id # 0 /\ retry' = <<"asked", b.id>> /\ shown' = Marked(b.id, FALSE)
      BY <1>13 DEF Retry, daemonVars
    <2>2. b.id \in Id
      <3>1. b \in Bubble
        BY <1>2 DEF ToSet
      <3>2. b.id \in 0..MaxId
        BY <3>1 DEF Bubble
      <3> QED BY <2>1, <3>2, ChatAssumption DEF Id
    <2>3. shown' \in Seq(Bubble)
      BY <1>1, <2>1, MarkedTypes
    <2>4. ShownTypes'
      BY <1>1, <2>1, <2>3, Zenon DEF ShownTypes
    <2>5. UseTypes'
      BY <1>1, <1>3, <2>1, ActsCount
    <2>6. RetryTypes'
      BY <2>1, <2>2 DEF RetryTypes
    <2> QED BY <1>1, <2>1, <2>4, <2>5, <2>6, ChatTypesStay DEF ChatTyped
  <1>14. CASE RetryLooks
    <2> DEFINE found == {b \in ToSet(shown) : b.id # 0 /\ b.failed /\ b.ours}
    <2>1. /\ UNCHANGED <<stored, lastId, failures, message_ids, pending, searched, refresh, lifeVars, acts, send,
                         search, delete>>
          /\ IF found = {} THEN retry' = NoRetry /\ UNCHANGED shown
             ELSE \E b \in found : retry' = <<"asked", b.id>> /\ shown' = Marked(b.id, FALSE)
      BY <1>14 DEF RetryLooks, daemonVars
    <2>2. CASE retry' = NoRetry /\ UNCHANGED shown
      <3>1. ShownTypes'
        BY <1>1, <2>1, <2>2, Zenon DEF ShownTypes
      <3>2. RetryTypes'
        BY <2>2 DEF RetryTypes
      <3> QED BY <1>1, <2>1, <3>1, <3>2, ChatTypesStay DEF ChatTyped
    <2>3. ASSUME NEW b \in found, retry' = <<"asked", b.id>>, shown' = Marked(b.id, FALSE) PROVE ChatTyped'
      <3>1. b.id \in Id
        <4>1. b \in Bubble /\ b.id # 0
          BY <1>2 DEF ToSet
        <4>2. b.id \in 0..MaxId
          BY <4>1 DEF Bubble
        <4> QED BY <4>1, <4>2, ChatAssumption DEF Id
      <3>2. shown' \in Seq(Bubble)
        BY <1>1, <2>3, MarkedTypes
      <3>3. ShownTypes'
        BY <1>1, <2>1, <3>2, Zenon DEF ShownTypes
      <3>4. RetryTypes'
        BY <2>3, <3>1 DEF RetryTypes
      <3> QED BY <1>1, <2>1, <3>3, <3>4, ChatTypesStay DEF ChatTyped
    <2> QED BY <2>1, <2>2, <2>3, Zenon
  <1> QED BY <1>4, <1>5, <1>6, <1>7, <1>8, <1>9, <1>10, <1>11, <1>12, <1>13, <1>14

LEMMA StepKeepsChat == ChatTyped /\ [ChatNext]_chatVars => ChatTyped'
  <1> SUFFICES ASSUME ChatTyped, [ChatNext]_chatVars PROVE ChatTyped'
    OBVIOUS
  <1>1. CASE UNCHANGED chatVars
    <2>1. /\ UNCHANGED <<stored, lastId, failures, viewVars, refresh, lifeVars, acts, send, search, delete, retry>>
      BY <1>1 DEF chatVars, daemonVars, userVars
    <2> QED BY <2>1, ChatTypesStay DEF ChatTyped
  <1>2. CASE ChatNext
    <2>1. ASSUME NEW w \in Worker, WorkerStep(w) PROVE ChatTyped'
      BY <2>1, RefreshTyped, StartsTyped, Zenon DEF WorkerStep
    <2> QED BY <1>2, <2>1, OthersTyped, UserTyped, Zenon DEF ChatNext
  <1> QED BY <1>1, <1>2

\* The chat widget keeps its state within its types, and the daemon's messages in their order,
\* whatever refreshes, sends, searches, deletions and retries overlap (ChatWidget).
THEOREM ChatIsTyped == ChatSpec => []ChatTypeOK
  BY ChatTypesStart, StepKeepsChat, ChatTypesShow, PTL DEF ChatSpec

-----------------------------------------------------------------------------
(* The composition.                                                        *)

AppInv ==
    /\ ComposerTypeOK /\ AttachInv /\ AskedInv /\ DeletedWasMeant
    /\ TablesFollowCache /\ ViewsInvType
    /\ SettingsInvType /\ SaveInv
    /\ ChatReleased /\ ChatTyped

\* What one part does is a step or a stutter of each.
LEMMA AppStepAlone ==
  [MCNext]_MCVars =>
    [ChatNext]_chatVars /\ [ComposerNext]_composerVars /\ [ViewsNext]_viewsVars /\ [SettingsNext]_settingsVars
  <1> SUFFICES ASSUME [MCNext]_MCVars
               PROVE  /\ [ChatNext]_chatVars /\ [ComposerNext]_composerVars
                      /\ [ViewsNext]_viewsVars /\ [SettingsNext]_settingsVars
    OBVIOUS
  <1>1. CASE UNCHANGED MCVars
    BY <1>1, Zenon DEF MCVars
  <1>2. CASE MCNext
    BY <1>2, Zenon DEF MCNext
  <1> QED BY <1>1, <1>2

LEMMA AppStep == AppInv /\ [MCNext]_MCVars => AppInv'
  <1> SUFFICES ASSUME AppInv, [MCNext]_MCVars PROVE AppInv'
    OBVIOUS
  <1>1. /\ [ChatNext]_chatVars /\ [ComposerNext]_composerVars
        /\ [ViewsNext]_viewsVars /\ [SettingsNext]_settingsVars
    BY AppStepAlone
  <1>2. ComposerTypeOK' /\ AttachInv' /\ AskedInv' /\ DeletedWasMeant'
    BY <1>1, StepKeepsTypes, StepKeepsAttach, StepKeepsAsked DEF AppInv
  <1>3. TablesFollowCache' /\ ViewsInvType'
    BY <1>1, StepKeepsTables, StepKeepsViewsTypes DEF AppInv
  <1>4. SettingsInvType' /\ SaveInv'
    BY <1>1, StepKeepsSettingsTypes, StepKeepsReports DEF AppInv
  <1>5. ChatReleased' /\ ChatTyped'
    BY <1>1, StepKeepsReleased, StepKeepsChat DEF AppInv
  <1> QED BY <1>2, <1>3, <1>4, <1>5 DEF AppInv

LEMMA AppStarts == MCInit => AppInv
  <1> SUFFICES ASSUME MCInit PROVE AppInv
    OBVIOUS
  <1>1. ComposerInit /\ ViewsInit /\ SettingsInit /\ ChatInit
    BY DEF MCInit
  <1>2. AttachInv /\ AskedInv /\ DeletedWasMeant
    BY <1>1 DEF ComposerInit, AttachInv, GivenOut, ReadersAlone, StagedAlone, AttachedOnce,
       NotReading, NothingAttached, AskedInv, DeletedWasMeant
  <1>3. TablesFollowCache /\ ChatReleased
    BY <1>1 DEF ViewsInit, TablesFollowCache, ChatInit, ChatReleased
  <1> QED BY <1>1, <1>2, <1>3, ChatTypesStart, InitTypes, ViewsInitTypes, SettingsInitTypes, SettingsInitReports DEF AppInv

\* What the tables show, what a save reported, what is attached and what is deleted are as
\* they should be, for any values of the constants: the property of the run app_views
\* (StyreneFleetTable, SettingsScreen and ChatWidget).
THEOREM AppViewsAreTrue == MCSpec => []ViewsAreTrue
  <1>1. AppInv => ViewsAreTrue
    BY ReportedIsLoaded DEF AppInv, ViewsAreTrue, AttachInv
  <1> QED BY <1>1, AppStarts, AppStep, PTL DEF MCSpec

\* The chat widget, its composer, the views of devices and the settings keep their state
\* within its types, for any values of the constants (ChatWidget, StyreneFleetTable and
\* SettingsScreen).
THEOREM AppIsTyped == MCSpec => []AppTypeOK
  <1>1. AppInv => AppTypeOK
    BY ChatTypesShow, ViewsTypes, SettingsTypes, Zenon DEF AppInv, AppTypeOK
  <1> QED BY <1>1, AppStarts, AppStep, PTL DEF MCSpec
===============================================================================
