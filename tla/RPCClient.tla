------------------------------ MODULE RPCClient ------------------------------
(***************************************************************************)
(* Remote calls (rpc/client.py) as the command line makes them (cli.py):   *)
(* call() runs on the asyncio loop, while responses are handled on the     *)
(* LXMF delivery thread, where dispatch_to_styrene finds no running loop   *)
(* and takes asyncio.run().  Both touch pending_requests and the futures   *)
(* without a lock.                                                         *)
(*                                                                         *)
(* A request id is 16 random bytes, so a call is its own request id.  The  *)
(* remote node is outside: it may answer a request it got, more than once, *)
(* late, or with an error.                                                 *)
(*                                                                         *)
(* The threads switch at calls only, so the lookup after the membership    *)
(* test, and the del after it, are one step each; done() and set_result()  *)
(* are two calls, and two steps.                                           *)
(***************************************************************************)
EXTENDS Naturals

CONSTANTS
    Calls,        \* calls, one request id each
    MaxAnswers,   \* bound: answers delivered for one call
    NoCall

ASSUME CallAssumption == MaxAnswers \in Nat /\ NoCall \notin Calls

Ended == {"result", "timeout", "transport", "invalid", "cancelled"}

Settled == {"set", "failed", "cancelled"}

VARIABLES
    caller,    \* "new", "waiting" in wait_for, or how the call ended
    future,    \* "none", "open", or settled
    pending,   \* keys of pending_requests
    sent,      \* calls whose request the router has taken
    answers,   \* answers delivered so far, by call
    asleep,    \* the loop waits in select()
    loopAt,    \* loop: "idle", "timer" or "remove"
    loopCall,  \* call whose timeout the loop is handling
    lxmfAt,    \* delivery thread: "idle", "settle", "resolve" or "remove"
    lxmfCall,  \* call whose answer it is handling
    answer     \* that answer: "answer", or "error" (ERROR or not decodable)

loopVars == <<loopAt, loopCall>>
lxmfVars == <<lxmfAt, lxmfCall, answer>>
vars == <<caller, future, pending, sent, answers, asleep, loopVars, lxmfVars>>

TypeOK ==
    /\ caller \in [Calls -> {"new", "waiting"} \union Ended]
    /\ future \in [Calls -> {"none", "open"} \union Settled]
    /\ pending \subseteq Calls
    /\ sent \subseteq Calls
    /\ answers \in [Calls -> 0..MaxAnswers]
    /\ asleep \in BOOLEAN
    /\ loopAt \in {"idle", "timer", "remove"}
    /\ loopCall \in Calls \union {NoCall}
    /\ lxmfAt \in {"idle", "settle", "resolve", "remove"}
    /\ lxmfCall \in Calls \union {NoCall}
    /\ answer \in {"answer", "error"}

Init ==
    /\ caller = [c \in Calls |-> "new"]
    /\ future = [c \in Calls |-> "none"]
    /\ pending = {}
    /\ sent = {}
    /\ answers = [c \in Calls |-> 0]
    /\ asleep = FALSE
    /\ loopAt = "idle"
    /\ loopCall = NoCall
    /\ lxmfAt = "idle"
    /\ lxmfCall = NoCall
    /\ answer = "answer"

End(c, outcome) == caller' = [caller EXCEPT ![c] = outcome]

-----------------------------------------------------------------------------
(* The event loop.                                                         *)

\* call(): register, send and start to wait, without an await in between.
Call(c) ==
    /\ loopAt = "idle"
    /\ caller[c] = "new"
    /\ pending' = pending \union {c}
    /\ future' = [future EXCEPT ![c] = "open"]
    /\ sent' = sent \union {c}
    /\ asleep' = FALSE
    /\ End(c, "waiting")
    /\ UNCHANGED <<answers, loopVars, lxmfVars>>

\* send_typed_message raises before the router has the message (identity not
\* known): RPCTransportError, the entry is removed.
CallUnsent(c) ==
    /\ loopAt = "idle"
    /\ caller[c] = "new"
    /\ asleep' = FALSE
    /\ End(c, "transport")
    /\ UNCHANGED <<future, pending, sent, answers, loopVars, lxmfVars>>

\* ... or after it, when the outbound message cannot be recorded.
CallUnrecorded(c) ==
    /\ loopAt = "idle"
    /\ caller[c] = "new"
    /\ sent' = sent \union {c}
    /\ asleep' = FALSE
    /\ End(c, "transport")
    /\ UNCHANGED <<future, pending, answers, loopVars, lxmfVars>>

\* Mutants of Return: the state of the future is not looked at, or returned.
ReturnUnchecked(c) ==
    /\ ~asleep
    /\ loopAt = "idle"
    /\ caller[c] = "waiting"
    /\ future[c] \in {"set", "failed"}
    /\ End(c, "result")
    /\ UNCHANGED <<future, pending, sent, answers, asleep, loopVars, lxmfVars>>

ReturnRaw(c) ==
    /\ ~asleep
    /\ loopAt = "idle"
    /\ caller[c] = "waiting"
    /\ future[c] \in {"set", "failed"}
    /\ End(c, future[c])
    /\ UNCHANGED <<future, pending, sent, answers, asleep, loopVars, lxmfVars>>

\* The waiting task resumes with what its future holds.
Return(c) ==
    /\ ~asleep
    /\ loopAt = "idle"
    /\ caller[c] = "waiting"
    /\ future[c] \in {"set", "failed"}
    /\ End(c, IF future[c] = "set" THEN "result" ELSE "invalid")
    /\ UNCHANGED <<future, pending, sent, answers, asleep, loopVars, lxmfVars>>

\* Nothing is ready: the loop sleeps until its next timer.
Sleep ==
    /\ loopAt = "idle"
    /\ \A c \in Calls : caller[c] = "waiting" => future[c] = "open"
    /\ asleep' = TRUE
    /\ UNCHANGED <<caller, future, pending, sent, answers, loopVars, lxmfVars>>

\* The timer of a call ends the sleep; when the future has been settled
\* meanwhile, its callback is first in the queue.
Timer(c) ==
    /\ loopAt = "idle"
    /\ caller[c] = "waiting"
    /\ asleep \/ future[c] = "open"
    /\ asleep' = FALSE
    /\ IF future[c] = "open"
       THEN loopAt' = "timer" /\ loopCall' = c
       ELSE UNCHANGED loopVars
    /\ UNCHANGED <<caller, future, pending, sent, answers, lxmfVars>>

\* Mutant of TimerRuns: the future is settled with the timeout regardless.
TimerOverwrites ==
    LET c == loopCall IN
    /\ loopAt = "timer"
    /\ loopAt' = "remove"
    /\ future' = [future EXCEPT ![c] = "cancelled"]
    /\ UNCHANGED <<caller, pending, sent, answers, asleep, loopCall, lxmfVars>>

\* wait_for gives up: it cancels the future, unless that has been settled
\* since; then the result or the timeout wins, depending on the version.
TimerRuns ==
    LET c == loopCall IN
    /\ loopAt = "timer"
    /\ \/ /\ loopAt' = "remove"
          /\ future' = [future EXCEPT ![c] = IF @ = "open" THEN "cancelled" ELSE @]
          /\ UNCHANGED caller
       \/ /\ future[c] # "open"
          /\ End(c, IF future[c] = "set" THEN "result" ELSE "invalid")
          /\ loopAt' = "idle"
          /\ UNCHANGED future
    /\ UNCHANGED <<pending, sent, answers, asleep, loopCall, lxmfVars>>

\* Mutants of TimeoutRemoves: the entry stays; the caller is not told.
TimeoutKeeps ==
    /\ loopAt = "remove"
    /\ End(loopCall, "timeout")
    /\ loopAt' = "idle"
    /\ UNCHANGED <<future, pending, sent, answers, asleep, loopCall, lxmfVars>>

TimeoutSilent ==
    /\ loopAt = "remove"
    /\ pending' = pending \ {loopCall}
    /\ loopAt' = "idle"
    /\ UNCHANGED <<caller, future, sent, answers, asleep, loopCall, lxmfVars>>

\* _remove_pending_request after the timeout.
TimeoutRemoves ==
    /\ loopAt = "remove"
    /\ pending' = pending \ {loopCall}
    /\ End(loopCall, "timeout")
    /\ loopAt' = "idle"
    /\ UNCHANGED <<future, sent, answers, asleep, loopCall, lxmfVars>>

\* The caller's task is cancelled; call() has no handler for it.
Cancel(c) ==
    /\ loopAt = "idle"
    /\ caller[c] = "waiting"
    /\ future' = [future EXCEPT ![c] = IF @ = "open" THEN "cancelled" ELSE @]
    /\ End(c, "cancelled")
    /\ asleep' = FALSE
    /\ UNCHANGED <<pending, sent, answers, loopVars, lxmfVars>>

-----------------------------------------------------------------------------
(* The delivery thread: _handle_response.                                  *)

Moves(point) == lxmfAt' = point /\ UNCHANGED <<lxmfCall, answer>>

\* A response arrives; one for an unknown request id is dropped.
Deliver(c, kind) ==
    /\ lxmfAt = "idle"
    /\ c \in sent
    /\ answers[c] < MaxAnswers
    /\ answers' = [answers EXCEPT ![c] = @ + 1]
    /\ lxmfAt' = IF c \in pending THEN "settle" ELSE "idle"
    /\ lxmfCall' = c
    /\ answer' = kind
    /\ UNCHANGED <<caller, future, pending, sent, asleep, loopVars>>

\* "if not pending.future.done()"
TestDone ==
    /\ lxmfAt = "settle"
    /\ Moves(IF future[lxmfCall] = "open" THEN "resolve" ELSE "remove")
    /\ UNCHANGED <<caller, future, pending, sent, answers, asleep, loopVars>>

\* set_result or set_exception, which queue the callback but do not wake the
\* loop.  A future cancelled meanwhile raises InvalidStateError: caught after
\* set_result, not after set_exception.
Resolve ==
    LET c == lxmfCall IN
    /\ lxmfAt = "resolve"
    /\ IF future[c] = "open"
       THEN /\ future' = [future EXCEPT ![c] = IF answer = "answer" THEN "set" ELSE "failed"]
            /\ Moves("remove")
       ELSE /\ UNCHANGED future
            /\ Moves(IF answer = "answer" THEN "remove" ELSE "idle")
    /\ UNCHANGED <<caller, pending, sent, answers, asleep, loopVars>>

\* _remove_pending_request.
RemoveEntry ==
    /\ lxmfAt = "remove"
    /\ pending' = pending \ {lxmfCall}
    /\ Moves("idle")
    /\ UNCHANGED <<caller, future, sent, answers, asleep, loopVars>>

-----------------------------------------------------------------------------
TimeoutStep == TimerRuns \/ TimeoutRemoves

ResponseStep == TestDone \/ Resolve \/ RemoveEntry

Next ==
    \/ \E c \in Calls :
          \/ Call(c) \/ CallUnsent(c) \/ CallUnrecorded(c)
          \/ Return(c) \/ Timer(c) \/ Cancel(c)
          \/ \E kind \in {"answer", "error"} : Deliver(c, kind)
    \/ Sleep
    \/ TimeoutStep
    \/ ResponseStep

Spec == Init /\ [][Next]_vars

\* The loop runs what is ready, both threads go on, and time passes.
Awake == \A c \in Calls : WF_vars(Return(c))
Fairness == Awake /\ WF_vars(TimeoutStep) /\ WF_vars(ResponseStep)
Clock == \A c \in Calls : WF_vars(Timer(c))

FairSpec == Spec /\ Fairness /\ Clock

\* Before the timeouts: the same threads, but no timer needs to fire.
EarlySpec == Spec /\ Fairness

-----------------------------------------------------------------------------
(* Properties.                                                             *)

\* An entry of pending_requests belongs to a caller that waits, or a thread is
\* about to remove it; only a cancelled call leaves one behind.
NoStalePending ==
    \A c \in pending :
        \/ caller[c] \in {"waiting", "cancelled"}
        \/ lxmfAt # "idle" /\ lxmfCall = c

\* What the caller is told agrees with its future, whichever thread settled
\* it and however late a timer, a duplicate or an error came.
OutcomeAgrees ==
    \A c \in Calls :
        /\ caller[c] = "result" => future[c] = "set"
        /\ caller[c] = "invalid" => future[c] = "failed"
        /\ caller[c] = "waiting" /\ future[c] = "cancelled"
              => loopAt # "idle" /\ loopCall = c

\* A settled future never changes, whatever else arrives for its request id.
SettledOnce ==
    [][\A c \in Calls : future[c] \in Settled => future'[c] = future[c]]_vars

\* Every call that waits ends, whether or not the remote node ever answers.
CallEnds == \A c \in Calls : (caller[c] = "waiting") ~> (caller[c] \in Ended)

\* A call whose answer has arrived ends without waiting for its timeout.
AnswerEndsCall ==
    \A c \in Calls :
        (caller[c] = "waiting" /\ future[c] \in {"set", "failed"})
            ~> (caller[c] \in Ended)
=============================================================================
