------------------------------- MODULE MCClient -------------------------------
(* A client of the daemon: the calls of its bridge, and the people on its      *)
(* screens, for one run of TLC: in a behaviour one of the modules steps,       *)
(* which is chosen at the start; the others stay where nothing has started.    *)
EXTENDS IPCBridge, MailTab, ContactBook

CONSTANTS t1, t2

VARIABLE subject

\* A bound: the switch is used, and requests fail, while there is no conversation, and
\* messages come before the first key.
RepliesApart ==
    /\ letters' = letters \/ presses = 0
    /\ inbox' \cup indexed' = {} \/ (chosen' = "disabled" /\ reply_mode' = "disabled" /\ refusals' = 0)

MCInit ==
    /\ subject \in {"bridge", "mail", "book"}
    /\ BridgeInit /\ MailInit /\ BookInit
    /\ inbox = {} \/ (subject = "mail" /\ reply_mode = "disabled")
    /\ subject # "mail" => reply_mode = "disabled"
    /\ subject # "book" => contacts = <<>>

MCNext ==
    /\ UNCHANGED subject
    /\ \/ /\ subject = "bridge" /\ BridgeNext
          /\ UNCHANGED <<mailVars, bookVars>>
       \/ /\ subject = "mail" /\ MailNext /\ RepliesApart
          /\ UNCHANGED <<bridgeVars, bookVars>>
       \/ /\ subject = "book" /\ BookNext
          /\ UNCHANGED <<bridgeVars, mailVars>>

MCVars == <<subject, bridgeVars, mailVars, bookVars>>
MCSpec == MCInit /\ [][MCNext]_MCVars /\ BridgeFairness

\* The types of every module's state.
CallersTypeOK ==
    /\ BridgeTypeOK /\ MailTypeOK /\ BookTypeOK

\* What a call to the daemon reports is what became of its request, and no
\* other user of the connection takes it from a call that waits.
BridgeIsTrue == OutcomeIsTrue /\ WaitersKept

\* The people and conversations on the screens are those the daemon has, whichever
\* worker ends last, and only what was confirmed is deleted.
PeopleAreShown ==
    /\ ListIsTrue /\ SwitchIsTrue /\ ContactsAreShown /\ DeletionIsConfirmed
===============================================================================
