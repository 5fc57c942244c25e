--------------------------- MODULE TerminalClient ---------------------------
(***************************************************************************)
(* The client's side of remote terminals (terminal/client.py): one         *)
(* connect() per session, then run_interactive() or run_command(), and     *)
(* close().  The handlers of ACCEPT and REJECT run on the loop, the link   *)
(* callbacks on Reticulum's thread; each is one step, and asyncio's events *)
(* are set through the loop.  What the handlers are given comes from the   *)
(* mesh and is the composing module's business.                            *)
(***************************************************************************)
CONSTANTS SessionId   \* request ids of the connects

\* Exit codes: "zero", any "other", -1 ("lost"), or none yet.
Code == {"zero", "other", "lost"}

VARIABLES
    attempt,    \* connect(): "new", "asking", "linking", "open"; or how it
                \* ended: "refused", "failed", "over" (the terminal has run)
    pending,    \* keys of _pending_requests
    answer,     \* the future: "none", "accepted" or "rejected"
    linkAt,     \* session.link: "none", "pending", "active", "closed" (its
                \* callback has still to run) or "gone"
    connected,  \* sessions whose _connected is set
    exited,     \* sessions whose _exited is set
    code,       \* session.exit_code, or "none"
    closing,    \* close(): "no", "sent" (TERMINAL_CLOSE) or "done"
    result      \* what run_interactive() or run_command() returned

clientVars == <<attempt, pending, answer, linkAt, connected, exited, code,
                closing, result>>

ClientTypeOK ==
    /\ attempt \in [SessionId -> {"new", "asking", "linking", "open", "refused",
                                  "failed", "over"}]
    /\ pending \subseteq SessionId
    /\ answer \in [SessionId -> {"none", "accepted", "rejected"}]
    /\ linkAt \in [SessionId -> {"none", "pending", "active", "closed", "gone"}]
    /\ connected \subseteq SessionId
    /\ exited \subseteq SessionId
    /\ code \in [SessionId -> Code \union {"none"}]
    /\ closing \in [SessionId -> {"no", "sent", "done"}]
    /\ result \in [SessionId -> Code \union {"none"}]
    /\ \A s \in SessionId : attempt[s] = "over" => result[s] \in Code

ClientInit ==
    /\ attempt = [s \in SessionId |-> "new"]
    /\ pending = {}
    /\ answer = [s \in SessionId |-> "none"]
    /\ linkAt = [s \in SessionId |-> "none"]
    /\ connected = {}
    /\ exited = {}
    /\ code = [s \in SessionId |-> "none"]
    /\ closing = [s \in SessionId |-> "no"]
    /\ result = [s \in SessionId |-> "none"]

Becomes(s, stage) == attempt' = [attempt EXCEPT ![s] = stage]

\* connect() ends: the finally clause.
Ends(s, stage) ==
    /\ Becomes(s, stage)
    /\ pending' = pending \ {s}

\* link.teardown() of an established or pending link.
TearsDown(s) ==
    linkAt' = [linkAt EXCEPT ![s] = IF @ \in {"pending", "active"} THEN "closed" ELSE @]

-----------------------------------------------------------------------------
(* connect(): the control plane.                                           *)

\* The request is sent, its future registered before.
Connect(s) ==
    /\ attempt[s] = "new"
    /\ Becomes(s, "asking")
    /\ pending' = pending \union {s}
    /\ UNCHANGED <<answer, linkAt, connected, exited, code, closing, result>>

\* A late or second answer finds no future, or one that is done.
Answered(s, a) ==
    /\ answer' = IF s \in pending /\ answer[s] = "none"
                 THEN [answer EXCEPT ![s] = a]
                 ELSE answer
    /\ UNCHANGED <<attempt, pending, linkAt, connected, exited, code, closing, result>>

HandleTerminalAccept(s) == Answered(s, "accepted")

HandleTerminalReject(s) == Answered(s, "rejected")

Refused(s) ==
    /\ attempt[s] = "asking"
    /\ answer[s] = "rejected"
    /\ Ends(s, "refused")
    /\ UNCHANGED <<answer, linkAt, connected, exited, code, closing, result>>

AskTimesOut(s) ==
    /\ attempt[s] = "asking"
    /\ answer[s] = "none"
    /\ Ends(s, "failed")
    /\ UNCHANGED <<answer, linkAt, connected, exited, code, closing, result>>

-----------------------------------------------------------------------------
(* session.connect(): the data plane.                                      *)

\* The server's identity is known, or its path was found in time.
OpenLink(s) ==
    /\ attempt[s] = "asking"
    /\ answer[s] = "accepted"
    /\ Becomes(s, "linking")
    /\ linkAt' = [linkAt EXCEPT ![s] = "pending"]
    /\ UNCHANGED <<pending, answer, connected, exited, code, closing, result>>

NoPath(s) ==
    /\ attempt[s] = "asking"
    /\ answer[s] = "accepted"
    /\ Ends(s, "failed")
    /\ UNCHANGED <<answer, linkAt, connected, exited, code, closing, result>>

\* Mutant of OnLinkEstablished: connected before the server has said so.
OnLinkEstablishedEarly(s) ==
    /\ linkAt[s] = "pending"
    /\ linkAt' = [linkAt EXCEPT ![s] = "active"]
    /\ connected' = connected \union {s}
    /\ UNCHANGED <<attempt, pending, answer, exited, code, closing, result>>

\* The identity proof, the session id and the version are sent.
OnLinkEstablished(s) ==
    /\ linkAt[s] = "pending"
    /\ linkAt' = [linkAt EXCEPT ![s] = "active"]
    /\ UNCHANGED <<attempt, pending, answer, connected, exited, code, closing, result>>

\* VersionInfo from the server.
HandleVersion(s) ==
    /\ linkAt[s] = "active"
    /\ connected' = connected \union {s}
    /\ UNCHANGED <<attempt, pending, answer, linkAt, exited, code, closing, result>>

Connected(s) ==
    /\ attempt[s] = "linking"
    /\ s \in connected
    /\ Ends(s, "open")
    /\ UNCHANGED <<answer, linkAt, connected, exited, code, closing, result>>

\* Mutants of LinkTimesOut: the link is left as it is; no timeout.
LinkTimesOutKeeps(s) ==
    /\ attempt[s] = "linking"
    /\ s \notin connected
    /\ Ends(s, "failed")
    /\ UNCHANGED <<answer, linkAt, connected, exited, code, closing, result>>

LinkNeverTimesOut(s) == FALSE

LinkTimesOut(s) ==
    /\ attempt[s] = "linking"
    /\ s \notin connected
    /\ TearsDown(s)
    /\ Ends(s, "failed")
    /\ UNCHANGED <<answer, connected, exited, code, closing, result>>

-----------------------------------------------------------------------------
(* The session.                                                            *)

\* CommandExited from the server, with code c.
HandleExited(s, c) ==
    /\ linkAt[s] = "active"
    /\ code' = [code EXCEPT ![s] = c]
    /\ exited' = exited \union {s}
    /\ UNCHANGED <<attempt, pending, answer, linkAt, connected, closing, result>>

\* Mutants of OnLinkClosed: no exit code of its own; the waiting is not ended.
OnLinkClosedNoCode(s) ==
    /\ linkAt[s] = "closed"
    /\ linkAt' = [linkAt EXCEPT ![s] = "gone"]
    /\ exited' = exited \union {s}
    /\ UNCHANGED <<attempt, pending, answer, connected, code, closing, result>>

OnLinkClosedQuiet(s) ==
    /\ linkAt[s] = "closed"
    /\ linkAt' = [linkAt EXCEPT ![s] = "gone"]
    /\ code' = [code EXCEPT ![s] = IF @ = "none" THEN "lost" ELSE @]
    /\ UNCHANGED <<attempt, pending, answer, connected, exited, closing, result>>

\* _on_link_closed, also after a teardown() of our own.
OnLinkClosed(s) ==
    /\ linkAt[s] = "closed"
    /\ linkAt' = [linkAt EXCEPT ![s] = "gone"]
    /\ code' = [code EXCEPT ![s] = IF @ = "none" THEN "lost" ELSE @]
    /\ exited' = exited \union {s}
    /\ UNCHANGED <<attempt, pending, answer, connected, closing, result>>

\* Mutant of Returns: exit_code as it is.
ReturnsRaw(s) ==
    /\ attempt[s] = "open"
    /\ s \in exited
    /\ Becomes(s, "over")
    /\ result' = [result EXCEPT ![s] = code[s]]
    /\ UNCHANGED <<pending, answer, linkAt, connected, exited, code, closing>>

\* The wait for _exited is over: "exit_code or 0".
Returns(s) ==
    /\ attempt[s] = "open"
    /\ s \in exited
    /\ Becomes(s, "over")
    /\ result' = [result EXCEPT ![s] = IF code[s] = "none" THEN "zero" ELSE code[s]]
    /\ UNCHANGED <<pending, answer, linkAt, connected, exited, code, closing>>

\* close(): TERMINAL_CLOSE is sent ...
Close(s) ==
    /\ attempt[s] = "open"
    /\ closing[s] = "no"
    /\ closing' = [closing EXCEPT ![s] = "sent"]
    /\ UNCHANGED <<attempt, pending, answer, linkAt, connected, exited, code, result>>

\* ... and after that await the link is torn down.
CloseTearsDown(s) ==
    /\ closing[s] = "sent"
    /\ closing' = [closing EXCEPT ![s] = "done"]
    /\ TearsDown(s)
    /\ exited' = exited \union {s}
    /\ UNCHANGED <<attempt, pending, answer, connected, code, result>>
=============================================================================
