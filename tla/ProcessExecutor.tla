-------------------------- MODULE ProcessExecutor ---------------------------
(***************************************************************************)
(* include/skutils/process_executor.h: ExecuteCommand(), which is one of   *)
(* two programs, chosen when it is built.  They promise the same, and keep *)
(* it to different degrees.                                                *)
(***************************************************************************)
EXTENDS PosixExecutor

Windows == INSTANCE WindowsExecutor

VARIABLE platform

allVars == <<vars, platform>>

\* The text TLC lets the child write: no two of its bytes are the same, so that their
\* order is seen.
DistinctBytes == {<<"a", "b">>}

\* timeoutMs == -1 is INFINITE; what is not part of the other program is left alone
ExecuteInit ==
    /\ platform \in {"posix", "windows"}
    /\ Init

ExecuteCommand ==
    /\ UNCHANGED platform
    /\ \/ platform = "posix" /\ Next
       \/ /\ platform = "windows" /\ Windows!WinNext
          /\ UNCHANGED <<start, pollUntil, revents, closed, broke>>

ExecuteFairness ==
    /\ WF_allVars(platform = "posix" /\ Parent /\ UNCHANGED platform)
    /\ SF_allVars(platform = "posix" /\ Poll /\ UNCHANGED platform)
    /\ WF_allVars(platform = "posix" /\ Tick /\ UNCHANGED platform)
    /\ WF_allVars(/\ platform = "windows" /\ Windows!WinParent
                  /\ UNCHANGED <<start, pollUntil, revents, closed, broke, platform>>)
    /\ WF_allVars(/\ platform = "windows" /\ Windows!WinTick
                  /\ UNCHANGED <<start, pollUntil, revents, closed, broke, platform>>)

ExecuteSpec == ExecuteInit /\ [][ExecuteCommand]_allVars /\ ExecuteFairness
-----------------------------------------------------------------------------
(* Properties *)

\* No descriptor of the pipes outlives the call, on any path of either program.
NoDescriptorLeak ==
    pc = "returned" =>
        /\ \A s \in Streams : ~readOpen[s]
        /\ child = "none" => \A s \in Streams : ~writeOpen[s]

\* The exit code is the child's own, 128 + n if a signal ended it, and the
\* child is waited for, unless it was timed out; then it does not run any more, even
\* if it ignores SIGTERM.
ExitCodeOfChild ==
    /\ (pc = "returned" /\ result.success /\ result.message # "timedOut") =>
          /\ child = "reaped"
          /\ result.exitCode = exitStatus
    /\ result.message = "timedOut" => child \in {"zombie", "reaped"}

\* A call is not timed out too early, but for the grain of time(NULL). (On POSIX it may
\* be early: both ends of the interval are rounded down to a second.)
AtMostASecondEarly ==
    result.message = "timedOut" =>
        now - start > timeout - IF platform = "posix" THEN Second ELSE 1

\* Windows reads both streams to their ends before it waits, so that a call that was timed
\* out has all the output too; but for a stream whose reading failed, or on which the child
\* wrote no bytes, which is taken for its end.
AllOutputBeforeWait ==
    (platform = "windows" /\ pc \in {"wait", "returned"} /\ result.success) =>
        \A s \in Streams : readFailed[s] \/ got[s] = written[s]

\* what the caller reads in the result, and what the call leaves behind
ResultInv == NoDescriptorLeak /\ ExitCodeOfChild /\ AtMostASecondEarly /\ AllOutputBeforeWait

\* A child never stays blocked on a full pipe, whichever of its streams it fills and however
\* little it uses the other; on Windows this holds of the standard error only once the
\* standard output is closed or given up. A stream that was given up is not emptied.
NeverBlocksChild ==
    \A s \in Streams :
        (/\ pc # "returned" /\ Len(pipe[s]) = PipeCap
         /\ platform = "posix" \/ s = "out" \/ ~writeOpen["out"] \/ readFailed["out"])
            ~> Len(pipe[s]) < PipeCap \/ ~readOpen[s] \/ readFailed[s]

\* When the child has ended and nobody holds its streams, the call returns.
ReturnsAfterChild ==
    (child = "zombie" /\ \A s \in Streams : ~writeOpen[s]) ~> pc = "returned"

\* With a timeout, a call whose child keeps a stream open returns soon after time(NULL) has
\* reached the end of the time, whatever the child does; only a failing poll(), or failing
\* reads of the streams that are open, make it wait for the child without a limit.  On
\* Windows the time is kept from the end of both streams on.
TimeoutEndsReading ==
    /\ (/\ platform = "posix" /\ timeout > 0
        /\ pc \in {"loop", "time", "poll", "readOut", "readErr", "hangup"}
        /\ Time >= endTime)
           ~> (pc = "returned" \/ broke \/ \A s \in Streams : ~writeOpen[s] \/ readFailed[s])
    /\ (platform = "windows" /\ timeout >= 0 /\ pc = "wait") ~> pc = "returned"
=============================================================================
