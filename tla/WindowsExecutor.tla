-------------------------- MODULE WindowsExecutor ---------------------------
(***************************************************************************)
(* include/skutils/process_executor.h, ExecuteCommandWindows: create the   *)
(* process, read its standard output to the end, then its standard error,  *)
(* and only then wait for it, with the timeout.  The child is that of      *)
(* ChildProcess; ReadFile() blocks, so that the parent looks at one stream *)
(* at a time and at no clock.                                              *)
(***************************************************************************)
EXTENDS ChildProcess

CONSTANTS
    Chunk,      \* bufferSize - 1
    MaxTime,    \* bound on the clock
    MayFail     \* whether CreatePipe(), CreateProcess() and ReadFile() may fail, and
                \*   whether the child may write no bytes at all

VARIABLES
    pc,         \* where the parent is
    now,        \* the clock
    timeout,    \* timeoutMs, -1 for INFINITE
    endTime,    \* when WaitForSingleObject() gives up, -1 if it does not
    got,        \* result.output and result.error, without the messages
    result,     \* as in PosixExecutor
    readFailed  \* history: which streams were left before their ends

winVars == <<pc, now, timeout, endTime, got, result, readFailed>>

\* the process handle, closed or still open, is the state "reaped" or "zombie" of the child
TimedOut == 1   \* the exit code that TerminateProcess() gives

-----------------------------------------------------------------------------
(* Mistakes that the properties must tell from the code.                     *)

\* a short read is taken for the end of the stream
Bug_ReadFile(s) ==
    /\ pc = IF s = "out" THEN "readOut" ELSE "readErr"
    /\ pipe[s] # <<>> \/ ~writeOpen[s]
    /\ LET n == Available(s, Chunk)
       IN /\ got' = [got EXCEPT ![s] = @ \o AsCString(SubSeq(pipe[s], 1, n))]
          /\ pipe' = [pipe EXCEPT ![s] = SubSeq(@, n + 1, Len(@))]
    /\ pc' = IF s = "out" THEN "readErr" ELSE "wait"
    /\ UNCHANGED <<child, exitStatus, writeOpen, readOpen, written, now, timeout, endTime,
                   result, readFailed>>

-----------------------------------------------------------------------------
(* Setting up *)

\* CreatePipe() for the standard output
CreateOutPipe ==
    /\ pc = "outPipe"
    /\ \/ /\ readOpen' = [readOpen EXCEPT !["out"] = TRUE]
          /\ writeOpen' = [writeOpen EXCEPT !["out"] = TRUE]
          /\ pc' = "errPipe"
          /\ UNCHANGED result
       \/ /\ MayFail
          /\ result' = [result EXCEPT !.message = "failed"]
          /\ pc' = "returned"
          /\ UNCHANGED <<readOpen, writeOpen>>
    /\ UNCHANGED <<child, exitStatus, pipe, written, now, timeout, endTime, got, readFailed>>

\* CreatePipe() for the standard error; if it fails the first pipe is closed.
CreateErrPipe ==
    /\ pc = "errPipe"
    /\ \/ /\ readOpen' = [readOpen EXCEPT !["err"] = TRUE]
          /\ writeOpen' = [writeOpen EXCEPT !["err"] = TRUE]
          /\ pc' = "create"
          /\ UNCHANGED result
       \/ /\ MayFail
          /\ result' = [result EXCEPT !.message = "failed"]
          /\ pc' = "returned"
          /\ readOpen' = [s \in Streams |-> FALSE]
          /\ writeOpen' = [s \in Streams |-> FALSE]
    /\ UNCHANGED <<child, exitStatus, pipe, written, now, timeout, endTime, got, readFailed>>

\* CreateProcess(), and the parent's write ends are closed whatever it returns.
CreateProcess ==
    /\ pc = "create"
    /\ \/ /\ child' = "running"
          /\ result' = [result EXCEPT !.success = TRUE]
          /\ pc' = "readOut"
          /\ UNCHANGED <<readOpen, writeOpen>>
       \/ /\ MayFail
          /\ result' = [result EXCEPT !.message = "failed"]
          /\ pc' = "returned"
          /\ readOpen' = [s \in Streams |-> FALSE]
          /\ writeOpen' = [s \in Streams |-> FALSE]
          /\ UNCHANGED child
    /\ UNCHANGED <<exitStatus, pipe, written, now, timeout, endTime, got, readFailed>>

-----------------------------------------------------------------------------
(* Reading: one stream, then the other *)

\* ReadFile() returns what there is, once there is something
ReadFile(s) ==
    /\ pc = IF s = "out" THEN "readOut" ELSE "readErr"
    /\ pipe[s] # <<>>
    /\ LET n == Available(s, Chunk)
       IN /\ got' = [got EXCEPT ![s] = @ \o AsCString(SubSeq(pipe[s], 1, n))]
          /\ pipe' = [pipe EXCEPT ![s] = SubSeq(@, n + 1, Len(@))]
    /\ UNCHANGED <<child, exitStatus, writeOpen, readOpen, written, pc, now, timeout, endTime,
                   result, readFailed>>

\* ReadFile() fails: nobody can write any more, or something else went wrong; or it brings
\* no bytes, since the child wrote none. After the standard error the clock starts.
EndOfStream(s) ==
    /\ pc = IF s = "out" THEN "readOut" ELSE "readErr"
    /\ \/ /\ pipe[s] = <<>> /\ ~writeOpen[s]
          /\ UNCHANGED readFailed
       \/ /\ MayFail
          /\ readFailed' = [readFailed EXCEPT ![s] = TRUE]
    /\ pc' = IF s = "out" THEN "readErr" ELSE "wait"
    /\ endTime' = IF s = "err" /\ timeout >= 0 THEN now + timeout ELSE -1
    /\ UNCHANGED <<childVars, now, timeout, got, result>>

-----------------------------------------------------------------------------
(* Ending *)

\* WaitForSingleObject() and GetExitCodeProcess(); the handles are closed
WaitForChild ==
    /\ pc = "wait"
    /\ child = "zombie"
    /\ child' = "reaped"
    /\ result' = [result EXCEPT !.exitCode = exitStatus]
    /\ readOpen' = [s \in Streams |-> FALSE]
    /\ pc' = "returned"
    /\ UNCHANGED <<exitStatus, pipe, writeOpen, written, now, timeout, endTime, got, readFailed>>

\* WAIT_TIMEOUT: TerminateProcess(), and the handles are closed
WaitTimeout ==
    /\ pc = "wait"
    /\ child = "running"
    /\ timeout >= 0 /\ now >= endTime
    /\ child' = "reaped"
    /\ exitStatus' = TimedOut
    /\ \/ writeOpen' = [s \in Streams |-> FALSE]
       \/ Background /\ UNCHANGED writeOpen
    /\ result' = [result EXCEPT !.message = "timedOut", !.exitCode = -1]
    /\ readOpen' = [s \in Streams |-> FALSE]
    /\ pc' = "returned"
    /\ UNCHANGED <<pipe, written, now, timeout, endTime, got, readFailed>>

\* only the wait has an eye on the clock
WinTick ==
    /\ pc = "wait" /\ timeout >= 0
    /\ now < MaxTime
    /\ now' = now + 1
    /\ UNCHANGED <<childVars, pc, timeout, endTime, got, result, readFailed>>

WinParent ==
    \/ CreateOutPipe \/ CreateErrPipe \/ CreateProcess
    \/ \E s \in Streams : ReadFile(s) \/ EndOfStream(s)
    \/ WaitForChild \/ WaitTimeout

WinNext ==
    \/ WinParent
    \/ WinTick
    \/ ChildNext /\ UNCHANGED winVars
=============================================================================
