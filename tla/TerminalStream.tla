----------------------------- MODULE TerminalStream -----------------------------
(***************************************************************************)
(* The data of terminal sessions (terminal/service.py, terminal/client.py):   *)
(* what a process writes goes from its PTY through the read loop and the link   *)
(* to the client, what the user types goes the other way, and the exit code     *)
(* ends both.  Reads run on the executor's threads, typed input is handled on   *)
(* Reticulum's; both use the number of a file that the loop may close.          *)
(***************************************************************************)
EXTENDS Naturals, Sequences, SequencesExt

CONSTANTS Stream,     \* sessions, of two clients
          File,       \* file numbers
          MaxWritten, \* a bound: chunks a process writes
          MaxTyped,   \* a bound: inputs a user types
          Window      \* what a channel takes before it is not ready

ASSUME StreamsAssumption ==
    /\ MaxWritten \in Nat /\ MaxTyped \in Nat /\ Window \in Nat \ {0}
    /\ {"unused", "exit"} \cap Stream = {}

Unused == "unused"
Lost == "lost"   \* -1, the code of a link that has closed
Ended == "code"  \* the code of the process

VARIABLES
    session,  \* "new", "open" or "gone" from the table
    pty,      \* session.master_fd
    ptyOf,    \* the session whose PTY is behind a number
    channel,  \* the session has one; else raw packets, which may get lost
    process,  \* "runs" or "exited"
    written,  \* how many chunks it has written
    buffer,   \* of the PTY, not yet read
    read,     \* the read loop: "none", "asked" of the executor, or the chunk to send
    outward,  \* on the link to the client
    output,   \* what the client has shown
    exited,   \* the client's exit_code
    linkUp,
    typed,    \* how many inputs the user has typed
    inward,   \* on the link to the server
    handled,  \* the input Reticulum's thread is about to write
    input,    \* what the process has been given
    stale     \* a file was closed while a read or a handler was about to use it

flowVars == <<session, pty, ptyOf, channel, process, written, buffer, read, outward, output, exited, linkUp,
              typed, inward, handled, input, stale>>

Chunk == Stream \X (1..MaxWritten)
Typed == Stream \X (1..MaxTyped)
Exit == {<<"exit", Ended>>, <<"exit", Lost>>}
NoInput == <<>>

\* Of a read loop.
NotReading == <<"none">>
Asked == <<"asked">>
Over == <<"over">>

FlowTypeOK ==
    /\ session \in [Stream -> {"new", "open", "gone"}] /\ pty \in [Stream -> File \cup {Unused}]
    /\ ptyOf \in [File -> Stream \cup {Unused}] /\ channel \in [Stream -> BOOLEAN]
    /\ process \in [Stream -> {"runs", "exited"}] /\ written \in [Stream -> 0..MaxWritten]
    /\ \A s \in Stream :
          /\ buffer[s] \in Seq(Chunk) /\ read[s] \in {NotReading, Asked, Over} \cup {<<"data", c>> : c \in Chunk}
          /\ outward[s] \in Seq(Chunk \cup Exit) /\ output[s] \in Seq(Chunk)
          /\ inward[s] \in Seq(Typed) /\ input[s] \in Seq(Typed)
    /\ exited \in [Stream -> {"none", Ended, Lost}] /\ linkUp \in [Stream -> BOOLEAN]
    /\ typed \in [Stream -> 0..MaxTyped] /\ handled \in {NoInput} \cup {<<k>> : k \in Typed} /\ stale \in BOOLEAN

FlowInit ==
    /\ session = [s \in Stream |-> "new"] /\ pty = [s \in Stream |-> Unused] /\ ptyOf = [f \in File |-> Unused]
    /\ channel \in [Stream -> BOOLEAN] /\ process = [s \in Stream |-> "runs"] /\ written = [s \in Stream |-> 0]
    /\ buffer = [s \in Stream |-> <<>>] /\ read = [s \in Stream |-> NotReading]
    /\ outward = [s \in Stream |-> <<>>] /\ output = [s \in Stream |-> <<>>]
    /\ exited = [s \in Stream |-> "none"] /\ linkUp = [s \in Stream |-> FALSE] /\ typed = [s \in Stream |-> 0]
    /\ inward = [s \in Stream |-> <<>>] /\ handled = NoInput /\ input = [s \in Stream |-> <<>>] /\ stale = FALSE

Put(f, s, x) == [f EXCEPT ![s] = Append(@, x)]
Drop(f, s) == [f EXCEPT ![s] = Tail(@)]
Is(f, s, x) == [f EXCEPT ![s] = x]

\* openpty takes a free number; the link is associated, both sides know the version.
OpenPty(s) ==
    /\ session[s] = "new" /\ \E f \in File : ptyOf[f] = Unused /\ pty' = Is(pty, s, f) /\ ptyOf' = Is(ptyOf, f, s)
    /\ session' = Is(session, s, "open") /\ linkUp' = Is(linkUp, s, TRUE)
    /\ UNCHANGED <<channel, process, written, buffer, read, outward, output, exited, typed, inward, handled, input, stale>>

ProcessWrites(s) ==
    /\ session[s] = "open" /\ process[s] = "runs" /\ written[s] < MaxWritten
    /\ written' = [written EXCEPT ![s] = @ + 1] /\ buffer' = Put(buffer, s, <<s, written'[s]>>)
    /\ UNCHANGED <<session, pty, ptyOf, channel, process, read, outward, output, exited, linkUp, typed, inward, handled, input, stale>>

ProcessExits(s) ==
    /\ session[s] = "open" /\ process[s] = "runs" /\ process' = Is(process, s, "exited")
    /\ UNCHANGED <<session, pty, ptyOf, channel, written, buffer, read, outward, output, exited, linkUp, typed, inward, handled, input, stale>>

-----------------------------------------------------------------------------
(* The read loop.                                                          *)

ReadLoopAsks(s) ==
    /\ session[s] = "open" /\ linkUp[s] /\ read[s] = NotReading /\ read' = Is(read, s, Asked)
    /\ UNCHANGED <<session, pty, ptyOf, channel, process, written, buffer, outward, output, exited, linkUp, typed, inward, handled, input, stale>>

\* os.read on a thread of the executor, of whatever the number stands for: nothing
\* there, the end, or a chunk, which is lost when the loop's task has been cancelled.
OsRead(s) ==
    /\ read[s] = Asked
    /\ LET p == ptyOf[pty[s]] IN
       IF p # Unused /\ buffer[p] # <<>>
       THEN /\ buffer' = Drop(buffer, p)
            /\ read' = Is(read, s, IF session[s] = "open" THEN <<"data", Head(buffer[p])>> ELSE Over)
       ELSE /\ read' = Is(read, s, IF session[s] = "open" /\ process[s] = "runs" THEN NotReading ELSE Over)
            /\ UNCHANGED buffer
    /\ UNCHANGED <<session, pty, ptyOf, channel, process, written, outward, output, exited, linkUp, typed, inward, handled, input, stale>>

Ready(s) == channel[s] => Len(outward[s]) < Window

\* Waits for the channel to be ready; the loop ends with the link.
SendChunk(s) ==
    /\ session[s] = "open" /\ read[s][1] = "data"
    /\ IF linkUp[s] THEN Ready(s) /\ outward' = Put(outward, s, read[s][2]) /\ read' = Is(read, s, NotReading)
                    ELSE read' = Is(read, s, Over) /\ UNCHANGED outward
    /\ UNCHANGED <<session, pty, ptyOf, channel, process, written, buffer, output, exited, linkUp, typed, inward, handled, input, stale>>

\* Mutant of CloseSession: the code goes out before what has been read.
CloseSessionFirst(s) ==
    /\ session[s] = "open" /\ session' = Is(session, s, "gone")
    /\ outward' = Is(outward, s, <<<<"exit", IF process[s] = "exited" THEN Ended ELSE Lost>>>> \o outward[s])
    /\ linkUp' = Is(linkUp, s, FALSE) /\ ptyOf' = Is(ptyOf, pty[s], Unused) /\ read' = Is(read, s, Over)
    /\ stale' = (stale \/ read[s] = Asked \/ (handled # NoInput /\ handled[1][1] = s))
    /\ UNCHANGED <<pty, channel, process, written, buffer, output, exited, typed, inward, handled, input>>

\* _close_session: when the process has exited, the link has closed, the session is
\* idle or told to close.  The read is cancelled, the code sent, on the channel only
\* if that is ready, and the link torn down: what is still on a channel may not arrive.
CloseSession(s) ==
    /\ session[s] = "open" /\ session' = Is(session, s, "gone")
    /\ outward' = IF ~linkUp[s] THEN outward
                  ELSE Put(outward, s, <<"exit", IF process[s] = "exited" THEN Ended ELSE Lost>>)
    /\ linkUp' = Is(linkUp, s, FALSE)
    /\ ptyOf' = Is(ptyOf, pty[s], Unused)
    /\ read' = IF read[s] = Asked THEN read ELSE Is(read, s, Over)
    /\ stale' = (stale \/ read[s] = Asked \/ (handled # NoInput /\ handled[1][1] = s))
    /\ UNCHANGED <<pty, channel, process, written, buffer, output, exited, typed, inward, handled, input>>

-----------------------------------------------------------------------------
(* The link and the client.                                                *)

\* A packet that is no channel's may be lost; all that is on the way when the link
\* is torn down may.
PacketLost(s) ==
    /\ outward[s] # <<>> /\ (~channel[s] \/ ~linkUp[s])
    /\ outward' = IF channel[s] THEN Is(outward, s, <<>>) ELSE Drop(outward, s)
    /\ UNCHANGED <<session, pty, ptyOf, channel, process, written, buffer, read, output, exited, linkUp, typed, inward, handled, input, stale>>

ClientReceives(s) ==
    /\ outward[s] # <<>> /\ outward' = Drop(outward, s)
    /\ IF Head(outward[s]) \in Exit
       THEN exited' = Is(exited, s, Head(outward[s])[2]) /\ UNCHANGED output
       ELSE output' = Put(output, s, Head(outward[s])) /\ UNCHANGED exited
    /\ UNCHANGED <<session, pty, ptyOf, channel, process, written, buffer, read, linkUp, typed, inward, handled, input, stale>>

ClientLinkClosed(s) ==
    /\ session[s] # "new" /\ ~linkUp[s] /\ outward[s] = <<>> /\ exited[s] = "none"
    /\ exited' = Is(exited, s, Lost)
    /\ UNCHANGED <<session, pty, ptyOf, channel, process, written, buffer, read, outward, output, linkUp, typed, inward, handled, input, stale>>

\* The client goes, or the link is stale.
LinkCloses(s) ==
    /\ linkUp[s] /\ linkUp' = Is(linkUp, s, FALSE)
    /\ UNCHANGED <<session, pty, ptyOf, channel, process, written, buffer, read, outward, output, exited, typed, inward, handled, input, stale>>

\* send_input gives up when the channel is not ready, the loop of stdin waits.
SendInput(s) ==
    /\ linkUp[s] /\ exited[s] = "none" /\ typed[s] < MaxTyped /\ typed' = [typed EXCEPT ![s] = @ + 1]
    /\ inward' \in {Put(inward, s, <<s, typed'[s]>>)} \cup (IF channel[s] /\ Len(inward[s]) < Window THEN {} ELSE {inward})
    /\ UNCHANGED <<session, pty, ptyOf, channel, process, written, buffer, read, outward, output, exited, linkUp, handled, input, stale>>

HandlerTakes(s) ==
    /\ inward[s] # <<>> /\ handled = NoInput /\ linkUp[s] /\ inward' = Drop(inward, s) /\ handled' = <<Head(inward[s])>>
    /\ UNCHANGED <<session, pty, ptyOf, channel, process, written, buffer, read, outward, output, exited, linkUp, typed, input, stale>>

\* os.write, once: to whatever the number stands for, or an error; a PTY that is
\* full takes nothing, and nothing is written again.
HandlerWrites ==
    /\ handled # NoInput /\ handled' = NoInput
    /\ LET p == ptyOf[pty[handled[1][1]]] IN
       input' \in {input} \cup (IF p = Unused THEN {} ELSE {Put(input, p, handled[1])})
    /\ UNCHANGED <<session, pty, ptyOf, channel, process, written, buffer, read, outward, output, exited, linkUp, typed, inward, stale>>

FlowNext ==
    \/ HandlerWrites
    \/ \E s \in Stream :
          \/ OpenPty(s) \/ ProcessWrites(s) \/ ProcessExits(s) \/ ReadLoopAsks(s) \/ OsRead(s) \/ SendChunk(s)
          \/ CloseSession(s) \/ PacketLost(s) \/ ClientReceives(s) \/ ClientLinkClosed(s) \/ LinkCloses(s)
          \/ SendInput(s) \/ HandlerTakes(s)

FlowSpec == FlowInit /\ [][FlowNext]_flowVars

-----------------------------------------------------------------------------
(* Properties.                                                             *)

All(s, n) == [i \in 1..n |-> <<s, i>>]

\* In order: a later element never stands before an earlier one, and none twice.
Rising(q) == \A i, j \in 1..Len(q) : i < j => q[i][2] < q[j][2]

\* A client shows its own process's output, in order and, on a channel, from the
\* start without a gap; a gap, or another's, takes a read that was under way when
\* its session closed and another one opened.
OutputIsOwn ==
    \A s \in Stream :
        /\ Rising(output[s]) /\ \A i \in 1..Len(output[s]) : output[s][i][1] = s
        /\ channel[s] /\ ~stale => IsPrefix(output[s], All(s, written[s]))

\* A process is given what its own user typed, in order, unless the handler was under
\* way when the session closed.
InputIsOwn ==
    ~stale => \A s \in Stream : Rising(input[s]) /\ \A i \in 1..Len(input[s]) : input[s][i][1] = s

\* The code of the process reaches the client only from a process that has exited,
\* after all the output that arrives; otherwise it is that of a lost link.
ExitIsLast ==
    \A s \in Stream :
        /\ exited[s] = Ended => process[s] = "exited" /\ session[s] = "gone"
        /\ exited[s] = Ended => \A i \in 1..Len(outward[s]) : outward[s][i] \notin Chunk
=================================================================================
