--------------------------- MODULE PosixExecutor ----------------------------
(***************************************************************************)
(* include/skutils/process_executor.h, ExecuteCommandPosix: fork a shell,  *)
(* poll both pipes until they are closed or the time is over, wait for the *)
(* child. The system calls are steps of their own; the child runs between  *)
(* any two of them.                                                        *)
(***************************************************************************)
EXTENDS ChildProcess

CONSTANTS
    Chunk,      \* sizeof(buffer) - 1
    Timeouts,   \* values of timeoutMs that callers give, in ticks; no timeout if not positive
    Second,     \* how many ticks time(NULL) takes to change
    MaxTime,    \* bound on the clock, beyond any time that is waited for
    MayFail     \* whether pipe(), fork(), poll() and read() may fail

ASSUME TimeAssumption ==
    /\ Chunk \in Nat \ {0}
    /\ Timeouts \subseteq Int
    /\ Second \in Nat \ {0}
    /\ MaxTime \in Nat /\ MaxTime >= Second
    /\ \A t \in Timeouts : t > 0 => MaxTime >= t + Second - 1
ASSUME MayFailAssumption == MayFail \in BOOLEAN

VARIABLES
    pc,         \* where the parent is
    now,        \* the clock
    timeout,    \* timeoutMs
    start,      \* when the call was made
    endTime,    \* endTime of the code, -1 without a timeout
    pollUntil,  \* when poll() gives up, -1 for the 100 ms it waits otherwise
    revents,    \* what the last poll() reported of each stream
    closed,     \* stdoutClosed and stderrClosed
    got,        \* result.output and result.error, without the messages
    result,     \* result.success and result.exitCode, and what was added to
                \*   result.error: "none", "failed" or "timedOut"
    broke,      \* history: poll() failed, and the loop was left for it
    readFailed  \* history: which streams were given up without their end, as reading failed

callVars == <<timeout, start>>
parentVars == <<pc, now, callVars, endTime, pollUntil, revents, closed, got, result, broke, readFailed>>
vars == <<child, exitStatus, pipe, writeOpen, readOpen, written, pc, now, timeout,
          start, endTime, pollUntil, revents, closed, got, result, broke, readFailed>>

NoEvents == [s \in Streams |-> {}]

\* timeoutMs is what a caller gives or its default, -1.
TimeoutsMs == Timeouts \cup {-1}

Init ==
    /\ ChildInit
    /\ pc = "outPipe"
    /\ now \in 0 .. Second - 1
    /\ timeout \in TimeoutsMs
    /\ start = now
    /\ endTime = -1
    /\ pollUntil = -1
    /\ revents = NoEvents
    /\ closed = [s \in Streams |-> FALSE]
    /\ got = [s \in Streams |-> <<>>]
    /\ result = [success |-> FALSE, exitCode |-> 0, message |-> "none"]
    /\ broke = FALSE
    /\ readFailed = [s \in Streams |-> FALSE]

\* time(NULL) * 1000
Time == (now \div Second) * Second

-----------------------------------------------------------------------------
(* Mistakes that the properties below must tell from the code; no action of  *)
(* the specification uses them.                                              *)

\* a hangup closes the stream although there is something left to read
Bug_Hangup ==
    /\ pc = "hangup"
    /\ closed' = [s \in Streams |-> closed[s] \/ "HUP" \in revents[s]]
    /\ pc' = "loop"
    /\ UNCHANGED <<childVars, now, callVars, endTime, pollUntil, revents, got, result, broke, readFailed>>

\* a hangup is not looked at: the stream is closed only when read() says so
Bug_HangupIgnored ==
    /\ pc = "hangup"
    /\ pc' = "loop"
    /\ UNCHANGED <<childVars, now, callVars, endTime, pollUntil, revents, closed, got, result, broke, readFailed>>

\* one stream is read to its end before the other
Bug_ReadInOrder(s) ==
    /\ pc = IF s = "out" THEN "readOut" ELSE "readErr"
    /\ pc' = IF s = "out" THEN "readErr" ELSE "hangup"
    /\ IF ~closed[s] /\ "IN" \in revents[s] /\ (s = "out" \/ closed["out"])
         THEN LET n == Available(s, Chunk)
              IN /\ got' = [got EXCEPT ![s] = @ \o AsCString(SubSeq(pipe[s], 1, n))]
                 /\ pipe' = [pipe EXCEPT ![s] = SubSeq(@, n + 1, Len(@))]
         ELSE UNCHANGED <<got, pipe>>
    /\ UNCHANGED <<child, exitStatus, writeOpen, readOpen, written, now, callVars,
                   endTime, pollUntil, revents, closed, result, broke, readFailed>>

\* the time is looked at only when poll() reports nothing
Bug_CheckTime ==
    /\ pc = "time"
    /\ pc' = "poll"
    /\ pollUntil' = -1
    /\ UNCHANGED <<childVars, now, callVars, endTime, revents, closed, got, result, broke, readFailed>>

-----------------------------------------------------------------------------
(* Setting up *)

\* pipe(stdoutPipe)
OutPipe ==
    /\ pc = "outPipe"
    /\ \/ /\ readOpen' = [readOpen EXCEPT !["out"] = TRUE]
          /\ writeOpen' = [writeOpen EXCEPT !["out"] = TRUE]
          /\ pc' = "errPipe"
          /\ UNCHANGED result
       \/ /\ MayFail
          /\ result' = [result EXCEPT !.message = "failed"]
          /\ pc' = "returned"
          /\ UNCHANGED <<readOpen, writeOpen>>
    /\ UNCHANGED <<child, exitStatus, pipe, written, now, callVars, endTime, pollUntil,
                   revents, closed, got, broke, readFailed>>

\* pipe(stderrPipe); if it fails the first pipe is closed again.
ErrPipe ==
    /\ pc = "errPipe"
    /\ \/ /\ readOpen' = [readOpen EXCEPT !["err"] = TRUE]
          /\ writeOpen' = [writeOpen EXCEPT !["err"] = TRUE]
          /\ pc' = "fork"
          /\ UNCHANGED result
       \/ /\ MayFail
          /\ result' = [result EXCEPT !.message = "failed"]
          /\ pc' = "returned"
          /\ readOpen' = [s \in Streams |-> FALSE]
          /\ writeOpen' = [s \in Streams |-> FALSE]
    /\ UNCHANGED <<child, exitStatus, pipe, written, now, callVars, endTime, pollUntil,
                   revents, closed, got, broke, readFailed>>

\* fork(); the parent closes its copies of the write ends, which from here on
\* are the child's, and computes the end of its time.
Fork ==
    /\ pc = "fork"
    /\ \/ /\ child' = "running"
          /\ result' = [result EXCEPT !.success = TRUE]
          /\ endTime' = IF timeout > 0 THEN Time + timeout ELSE -1
          /\ pc' = "loop"
          /\ UNCHANGED <<readOpen, writeOpen>>
       \/ /\ MayFail
          /\ result' = [result EXCEPT !.message = "failed"]
          /\ pc' = "returned"
          /\ readOpen' = [s \in Streams |-> FALSE]
          /\ writeOpen' = [s \in Streams |-> FALSE]
          /\ UNCHANGED <<child, endTime>>
    /\ UNCHANGED <<exitStatus, pipe, written, now, callVars, pollUntil, revents, closed, got, broke, readFailed>>

-----------------------------------------------------------------------------
(* The loop *)

\* while (!stdoutClosed || !stderrClosed)
LoopTest ==
    /\ pc = "loop"
    /\ pc' = IF \A s \in Streams : closed[s] THEN "close" ELSE "time"
    /\ UNCHANGED <<childVars, now, callVars, endTime, pollUntil, revents, closed, got, result, broke, readFailed>>

\* The time is over, or what is left of it is the timeout of poll().
CheckTime ==
    /\ pc = "time"
    /\ \/ /\ timeout > 0 /\ Time >= endTime
          /\ pc' = "terminate"
          /\ UNCHANGED pollUntil
       \/ /\ timeout > 0 /\ Time < endTime
          /\ pc' = "poll"
          /\ pollUntil' = now + (endTime - Time)
       \/ /\ timeout <= 0
          /\ pc' = "poll"
          /\ pollUntil' = -1
    /\ UNCHANGED <<childVars, now, callVars, endTime, revents, closed, got, result, broke, readFailed>>

\* kill(pid, SIGTERM): a child may end of it, or ignore it.
Terminate ==
    /\ pc = "terminate"
    /\ pc' = "kill"
    /\ \/ child = "running" /\ End(Terminated)
       \/ UNCHANGED childVars
    /\ UNCHANGED <<now, callVars, endTime, pollUntil, revents, closed, got, result, broke, readFailed>>

\* kill(pid, SIGKILL) after a while, and the verdict.
Kill ==
    /\ pc = "kill"
    /\ pc' = "close"
    /\ \/ child = "running" /\ End(Killed)
       \/ child # "running" /\ UNCHANGED childVars
    /\ result' = [result EXCEPT !.message = "timedOut", !.exitCode = -1]
    /\ UNCHANGED <<now, callVars, endTime, pollUntil, revents, closed, got, broke, readFailed>>

\* A pipe is readable if there is something in it, hung up if nobody can write.
Events(s) ==
    (IF pipe[s] # <<>> THEN {"IN"} ELSE {}) \cup (IF writeOpen[s] THEN {} ELSE {"HUP"})

\* poll() returns because of an event, of its timeout, of a signal (EINTR:
\* continue) or of an error (break).
Poll ==
    /\ pc = "poll"
    /\ \/ /\ \E s \in Streams : Events(s) # {}
          /\ revents' = [s \in Streams |-> Events(s)]
          /\ pc' = "readOut"
       \/ /\ \A s \in Streams : Events(s) = {}
          /\ pollUntil = -1 \/ now >= pollUntil
          /\ revents' = NoEvents
          /\ pc' = "readOut"
    /\ UNCHANGED <<childVars, now, callVars, endTime, pollUntil, closed, got, result, broke, readFailed>>

PollFails ==
    /\ pc = "poll"
    /\ MayFail
    /\ \/ pc' = "loop" /\ UNCHANGED broke
       \/ pc' = "close" /\ broke' = TRUE
    /\ UNCHANGED <<childVars, now, callVars, endTime, pollUntil, revents, closed, got, result, readFailed>>

\* read() one buffer from a stream that was reported readable; a stream whose
\* read() fails is closed as it is. (EAGAIN does not come: nobody else reads.)
Read(s) ==
    /\ pc = IF s = "out" THEN "readOut" ELSE "readErr"
    /\ pc' = IF s = "out" THEN "readErr" ELSE "hangup"
    /\ LET readable == ~closed[s] /\ "IN" \in revents[s]
           n == Available(s, Chunk)
       IN \/ /\ readable
             /\ got' = [got EXCEPT ![s] = @ \o AsCString(SubSeq(pipe[s], 1, n))]
             /\ pipe' = [pipe EXCEPT ![s] = SubSeq(@, n + 1, Len(@))]
             /\ UNCHANGED <<closed, readFailed>>
          \/ /\ readable /\ MayFail
             /\ closed' = [closed EXCEPT ![s] = TRUE]
             /\ readFailed' = [readFailed EXCEPT ![s] = TRUE]
             /\ UNCHANGED <<got, pipe>>
          \/ /\ ~readable
             /\ UNCHANGED <<got, pipe, closed, readFailed>>
    /\ UNCHANGED <<child, exitStatus, writeOpen, readOpen, written, now, callVars,
                   endTime, pollUntil, revents, result, broke>>

\* A stream that is hung up with nothing left to read is closed.
Hangup ==
    /\ pc = "hangup"
    /\ closed' = [s \in Streams |->
                    closed[s] \/ ("HUP" \in revents[s] /\ "IN" \notin revents[s])]
    /\ pc' = "loop"
    /\ UNCHANGED <<childVars, now, callVars, endTime, pollUntil, revents, got, result, broke, readFailed>>

-----------------------------------------------------------------------------
(* Ending *)

\* close() the read ends; a child that was timed out is not waited for.
CloseRead ==
    /\ pc = "close"
    /\ readOpen' = [s \in Streams |-> FALSE]
    /\ pc' = IF result.exitCode # -1 THEN "wait" ELSE "returned"
    /\ UNCHANGED <<child, exitStatus, pipe, writeOpen, written, now, callVars, endTime,
                   pollUntil, revents, closed, got, result, broke, readFailed>>

\* waitpid(pid, &status, 0), however long that takes.
WaitPid ==
    /\ pc = "wait"
    /\ child = "zombie"
    /\ child' = "reaped"
    /\ result' = [result EXCEPT !.exitCode = exitStatus]
    /\ pc' = "returned"
    /\ UNCHANGED <<exitStatus, pipe, writeOpen, readOpen, written, now, callVars, endTime,
                   pollUntil, revents, closed, got, broke, readFailed>>

\* The clock is looked at only by a call with a timeout; setting up takes no
\* time here.
Tick ==
    /\ timeout > 0
    /\ now < MaxTime
    /\ pc \notin {"outPipe", "errPipe", "fork", "returned"}
    /\ now' = now + 1
    /\ UNCHANGED <<childVars, pc, callVars, endTime, pollUntil, revents, closed, got, result, broke, readFailed>>

-----------------------------------------------------------------------------
Parent ==
    \/ OutPipe \/ ErrPipe \/ Fork
    \/ LoopTest \/ CheckTime \/ Terminate \/ Kill \/ Poll
    \/ \E s \in Streams : Read(s)
    \/ Hangup \/ CloseRead \/ WaitPid

Next ==
    \/ Parent
    \/ PollFails
    \/ Tick
    \/ ChildNext /\ UNCHANGED parentVars

\* The parent runs, time passes, and signals do not interrupt poll() for ever;
\* of the child nothing is assumed.
Fairness == WF_vars(Parent) /\ SF_vars(Poll) /\ WF_vars(Tick)

Spec == Init /\ [][Next]_vars /\ Fairness

-----------------------------------------------------------------------------
(* Properties *)

\* Every variable has the type its comment gives it.
TypeOK ==
    /\ ChildTypeOK
    /\ pc \in {"outPipe", "errPipe", "fork", "create", "loop", "time", "terminate", "kill",
               "poll", "readOut", "readErr", "hangup", "close", "wait", "returned"}
    /\ now \in 0 .. MaxTime
    /\ start \in 0 .. MaxTime
    /\ timeout \in TimeoutsMs
    /\ endTime \in Int
    /\ pollUntil \in Int
    /\ revents \in [Streams -> SUBSET {"IN", "HUP"}]
    /\ closed \in [Streams -> BOOLEAN]
    /\ got \in [Streams -> Seq(Bytes)]
    /\ result \in [success : BOOLEAN,
                   exitCode : {-1} \cup ExitCodes \cup {Killed, Terminated, BrokenPipe},
                   message : {"none", "failed", "timedOut"}]
    /\ broke \in BOOLEAN
    /\ readFailed \in [Streams -> BOOLEAN]

\* Reading loses nothing and reorders nothing, for output without a Nul: what
\* was captured and what is still in the pipe are what was written.
NothingLost == \A s \in Streams : got[s] \o pipe[s] = written[s]

\* A stream is given up only when it is over: hung up, and read to its end; or because
\* reading it failed, which the result does not tell.
ClosedMeansDrained ==
    \A s \in Streams : closed[s] => readFailed[s] \/ (~writeOpen[s] /\ pipe[s] = <<>>)

\* Output is captured in order, and to the end of every stream whose reads do not fail.
OutputInv == TypeOK /\ NothingLost /\ ClosedMeansDrained
=============================================================================
