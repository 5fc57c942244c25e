---------------------------- MODULE DeviceTerminal ----------------------------
(***************************************************************************)
(* The terminal of a device (tui/widgets/terminal_widget.py) and the       *)
(* daemon's sessions behind it.  Answers and events come in one stream; an *)
(* answer wakes a worker, which goes on after events that follow it may    *)
(* have been handled.                                                      *)
(***************************************************************************)
EXTENDS Naturals, Sequences, FiniteSets

CONSTANTS
    MaxOpens,   \* bound: sessions
    MaxFrames,  \* bound: frames on their way
    MaxClosers  \* bound: workers that close a session

ASSUME DeviceTerminalAssumption == {MaxOpens, MaxFrames, MaxClosers} \subseteq Nat

Shell == 1..MaxOpens
NoShell == 0

VARIABLES
    termOn,     \* the widget is mounted
    connected,  \* _connected
    session_id, \* session_id
    registered, \* the handlers of events are registered
    opener,     \* the worker that connects: its phase, and the session of its answer
    closers,    \* workers that disconnect: id, session and whether the answer is there
    closing,    \* sessions whose close was asked by the unmounting
    alive,      \* the daemon's sessions
    opened,     \* sessions so far
    frames,     \* on their way to the widget
    painted,    \* the sessions whose output is in the screen buffer
    missed,     \* sessions whose exit came while the worker had yet to go on
    dropped     \* sessions nobody closed: their opening, or their close, was cut off

paneVars == <<termOn, connected, session_id, registered>>
workVars == <<opener, closers, closing>>
farVars == <<alive, opened, frames>>
terminalVars == <<paneVars, workVars, farVars, painted, missed, dropped>>

Frame == [kind : {"opened", "refused", "output", "exited"}, of : Shell \cup {NoShell}]
Closer == [id : 1..MaxClosers, of : Shell \cup {NoShell}, back : BOOLEAN]
Resting == [phase |-> "idle", of |-> NoShell]

TerminalTypeOK ==
    /\ {termOn, connected, registered} \subseteq BOOLEAN /\ session_id \in Shell \cup {NoShell}
    /\ opener \in [phase : {"idle", "asks", "opened", "refused"}, of : Shell \cup {NoShell}]
    /\ closers \subseteq Closer /\ closing \cup alive \cup painted \cup missed \cup dropped \subseteq Shell
    /\ opened \in 0..MaxOpens /\ frames \in Seq(Frame)

TerminalInit ==
    /\ termOn = TRUE /\ connected = FALSE /\ session_id = NoShell /\ registered = FALSE
    /\ opener = Resting /\ closers = {} /\ closing = {}
    /\ alive = {} /\ opened = 0 /\ frames = <<>>
    /\ painted = {} /\ missed = {} /\ dropped = {}

Comes(kind, s) == Len(frames) < MaxFrames /\ frames' = Append(frames, [kind |-> kind, of |-> s])

-----------------------------------------------------------------------------
(* The button, and the workers it starts.                                   *)

\* Mutant of DoConnect: it does not cancel.
DoConnectBeside ==
    /\ termOn /\ ~connected /\ opener = Resting /\ opened < MaxOpens
    /\ registered' = TRUE
    /\ opener' = [phase |-> "asks", of |-> NoShell]
    /\ UNCHANGED <<termOn, connected, session_id, closers, closing, farVars, painted, missed, dropped>>

\* The workers of the widget are one group: a new connection cancels the
\* closers.  The button is disabled while one is being opened.
DoConnect ==
    /\ termOn /\ ~connected /\ opener = Resting /\ opened < MaxOpens
    /\ registered' = TRUE
    /\ opener' = [phase |-> "asks", of |-> NoShell]
    /\ closers' = {}
    /\ UNCHANGED <<termOn, connected, session_id, closing, farVars, painted, missed, dropped>>

Connected ==
    /\ opener.phase = "opened"
    /\ session_id' = opener.of /\ connected' = TRUE /\ opener' = Resting
    /\ UNCHANGED <<termOn, registered, closers, closing, farVars, painted, missed, dropped>>

ConnectFailed ==
    /\ opener.phase = "refused"
    /\ registered' = FALSE /\ opener' = Resting
    /\ UNCHANGED <<termOn, connected, session_id, closers, closing, farVars, painted, missed, dropped>>

Disconnect ==
    /\ termOn /\ connected /\ opener = Resting
    /\ \E i \in 1..MaxClosers :
          /\ \A c \in closers : c.id # i
          /\ closers' = closers \cup {[id |-> i, of |-> session_id, back |-> FALSE]}
    /\ UNCHANGED <<paneVars, opener, closing, farVars, painted, missed, dropped>>

Cleanup ==
    /\ connected' = FALSE /\ session_id' = NoShell /\ registered' = FALSE /\ painted' = {}

\* What is cleaned up is what is there by now.
Disconnected(c) ==
    /\ c \in closers /\ c.back
    /\ Cleanup
    /\ closers' = closers \ {c}
    /\ UNCHANGED <<termOn, opener, closing, farVars, missed, dropped>>

\* Its workers end with the widget.  The session of an answer they still
\* waited for stays open.
TerminalUnmount ==
    /\ termOn /\ termOn' = FALSE
    /\ closing' = IF connected THEN closing \cup {session_id} ELSE closing
    /\ dropped' = dropped \cup ({opener.of} \ {NoShell})
    /\ opener' = Resting /\ closers' = {}
    /\ Cleanup
    /\ UNCHANGED <<farVars, missed>>

-----------------------------------------------------------------------------
(* The daemon.                                                              *)

Opens ==
    /\ opener.phase = "asks" /\ \A i \in 1..Len(frames) : frames[i].kind \notin {"opened", "refused"}
    /\ \/ /\ opened < MaxOpens
          /\ opened' = opened + 1 /\ alive' = alive \cup {opened + 1} /\ Comes("opened", opened + 1)
       \/ Comes("refused", NoShell) /\ UNCHANGED <<opened, alive>>
    /\ UNCHANGED <<paneVars, workVars, painted, missed, dropped>>

Prints(s) ==
    /\ s \in alive /\ Comes("output", s)
    /\ UNCHANGED <<paneVars, workVars, alive, opened, painted, missed, dropped>>

Exits(s) ==
    /\ s \in alive /\ Comes("exited", s)
    /\ alive' = alive \ {s}
    /\ UNCHANGED <<paneVars, workVars, opened, painted, missed, dropped>>

\* A close that fails leaves the session.
Closes(s) ==
    /\ s \in alive \cap closing
    /\ \/ alive' = alive \ {s} /\ UNCHANGED dropped
       \/ dropped' = dropped \cup {s} /\ UNCHANGED alive
    /\ closing' = closing \ {s}
    /\ UNCHANGED <<paneVars, opener, closers, opened, frames, painted, missed>>

CloserBack(c) ==
    /\ c \in closers /\ ~c.back
    /\ \/ alive' = alive \ {c.of} /\ UNCHANGED dropped
       \/ dropped' = dropped \cup {c.of} /\ UNCHANGED alive
    /\ closers' = (closers \ {c}) \cup {[c EXCEPT !.back = TRUE]}
    /\ UNCHANGED <<paneVars, opener, closing, opened, frames, painted, missed>>

-----------------------------------------------------------------------------
(* What the stream brings.                                                  *)

Head1 == Head(frames)
Takes(kind) == frames # <<>> /\ Head1.kind = kind /\ frames' = Tail(frames)

Answered ==
    /\ \/ Takes("opened") \/ Takes("refused")
    /\ IF opener.phase = "asks"
       THEN opener' = [phase |-> Head1.kind, of |-> Head1.of] /\ UNCHANGED dropped
       ELSE opener' = opener /\ dropped' = dropped \cup ({Head1.of} \ {NoShell})
    /\ UNCHANGED <<paneVars, closers, closing, alive, opened, painted, missed>>

\* The buffer has it.  The display is told through call_from_thread, which is
\* not for the thread of the display: it raises, and the display stays.
OnTerminalOutput ==
    /\ Takes("output")
    /\ painted' = IF registered /\ Head1.of = session_id THEN painted \cup {Head1.of} ELSE painted
    /\ UNCHANGED <<paneVars, workVars, alive, opened, missed, dropped>>

\* For the same reason the cleanup is not run: the session remains, unconnected.
OnTerminalExited ==
    /\ Takes("exited")
    /\ connected' = (connected /\ ~(registered /\ Head1.of = session_id))
    /\ missed' = missed \cup ({opener.of} \cap {Head1.of})
    /\ UNCHANGED <<termOn, session_id, registered, workVars, alive, opened, painted, dropped>>

TerminalNext ==
    \/ DoConnect \/ Connected \/ ConnectFailed \/ Disconnect \/ TerminalUnmount \/ Opens
    \/ \E c \in Closer : Disconnected(c) \/ CloserBack(c)
    \/ \E s \in Shell : Prints(s) \/ Exits(s) \/ Closes(s)
    \/ Answered \/ OnTerminalOutput \/ OnTerminalExited

TerminalSpec == TerminalInit /\ [][TerminalNext]_terminalVars

-----------------------------------------------------------------------------
(* Properties.                                                             *)

ExitComes(s) == \E i \in 1..Len(frames) : frames[i] = [kind |-> "exited", of |-> s]

\* A terminal that shows itself connected has a session, or hears of its end,
\* or is closing it: but for a session that ended before the worker that opened
\* it went on.
PaneIsTrue ==
    connected => \/ session_id \in alive \cup missed \cup dropped \/ ExitComes(session_id)
                 \/ \E c \in closers : c.of = session_id

\* The daemon keeps no session that neither the widget nor a task of its knows,
\* unless a request was cut off: a second connection does not lose the first, and
\* the close of a session does not take the next one's place.
NoSessionLeft ==
    \A s \in alive : \/ s \in dropped \cup closing \/ s \in {session_id, opener.of}
                     \/ \E i \in 1..Len(frames) : frames[i] = [kind |-> "opened", of |-> s]
                     \/ \E c \in closers : c.of = s
===============================================================================
