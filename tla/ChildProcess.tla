---------------------------- MODULE ChildProcess ----------------------------
(***************************************************************************)
(* The other side of include/skutils/process_executor.h: the process that  *)
(* is started, and the two pipes it writes to. None of it is code of the   *)
(* repository; it is what the executors have to live with. The child may   *)
(* write on either stream in any order, blocks on a full pipe, may close a *)
(* stream early, may leave a stream open in a process of its own that      *)
(* outlives it, and need not ever end.                                     *)
(***************************************************************************)
EXTENDS Integers, Sequences, FiniteSets

CONSTANTS
    Bytes,      \* what is written; Nul is the byte that ends a C string
    Nul,
    Texts,      \* what the child writes on a stream: any beginning of one of these
    PipeCap,    \* how much a pipe holds
    Background  \* whether a process of the child's may keep its streams open

ASSUME BoundsAssumption == Texts \subseteq Seq(Bytes) /\ PipeCap \in Nat \ {0}
ASSUME BackgroundAssumption == Background \in BOOLEAN

Streams == {"out", "err"}
ExitCodes == {0, 1}
Killed == 137           \* 128 + SIGKILL
Terminated == 143       \* 128 + SIGTERM
BrokenPipe == 141       \* 128 + SIGPIPE

VARIABLES
    child,      \* "none", "running", "zombie" (ended, not waited for), "reaped"
    exitStatus, \* how it ended: an exit code, or 128 + the signal
    pipe,       \* what is in each pipe
    writeOpen,  \* whether anybody can still write on each stream
    readOpen,   \* whether the parent can still read it
    written     \* history: all that was written on each stream

childVars == <<child, exitStatus, pipe, writeOpen, readOpen, written>>

ChildInit ==
    /\ child = "none"
    /\ exitStatus = 0
    /\ pipe = [s \in Streams |-> <<>>]
    /\ writeOpen = [s \in Streams |-> FALSE]
    /\ readOpen = [s \in Streams |-> FALSE]
    /\ written = [s \in Streams |-> <<>>]

\* The child ends; its descriptors are closed.
End(code) ==
    /\ child' = "zombie"
    /\ exitStatus' = code
    /\ \/ writeOpen' = [s \in Streams |-> FALSE]
       \/ Background /\ UNCHANGED writeOpen
    /\ UNCHANGED <<pipe, readOpen, written>>

Write(s, b) ==
    /\ child = "running"
    /\ writeOpen[s] /\ readOpen[s]
    /\ \E text \in Texts :
          /\ Len(written[s]) < Len(text)
          /\ Append(written[s], b) = SubSeq(text, 1, Len(written[s]) + 1)
    /\ Len(pipe[s]) < PipeCap
    /\ pipe' = [pipe EXCEPT ![s] = Append(@, b)]
    /\ written' = [written EXCEPT ![s] = Append(@, b)]
    /\ UNCHANGED <<child, exitStatus, writeOpen, readOpen>>

\* A write on a stream that nobody reads any more: SIGPIPE.
WriteBroken(s) ==
    /\ child = "running"
    /\ writeOpen[s] /\ ~readOpen[s]
    /\ End(BrokenPipe)

\* The child, or whoever it left the stream to, closes it.
CloseStream(s) ==
    /\ child # "none"
    /\ writeOpen[s]
    /\ writeOpen' = [writeOpen EXCEPT ![s] = FALSE]
    /\ UNCHANGED <<child, exitStatus, pipe, readOpen, written>>

\* exit(), or _exit(1) when chdir() or execl() failed.
Exit ==
    /\ child = "running"
    /\ \E code \in ExitCodes : End(code)

ChildNext ==
    \/ \E s \in Streams : WriteBroken(s) \/ CloseStream(s) \/ \E b \in Bytes : Write(s, b)
    \/ Exit

ChildTypeOK ==
    /\ child \in {"none", "running", "zombie", "reaped"}
    /\ exitStatus \in ExitCodes \cup {Killed, Terminated, BrokenPipe}
    /\ pipe \in [Streams -> Seq(Bytes)]
    /\ writeOpen \in [Streams -> BOOLEAN]
    /\ readOpen \in [Streams -> BOOLEAN]
    /\ written \in [Streams -> Seq(Bytes)]

\* result.output += buffer: the chunk is terminated and read as a C string, so
\* what follows a Nul in it is lost.
AsCString(chunk) ==
    LET nuls == {i \in 1 .. Len(chunk) : chunk[i] = Nul}
    IN  IF nuls = {} THEN chunk
        ELSE SubSeq(chunk, 1, (CHOOSE i \in nuls : \A j \in nuls : i <= j) - 1)

\* How many bytes one read() of at most `size` bytes takes from the pipe s.
Available(s, size) == IF Len(pipe[s]) < size THEN Len(pipe[s]) ELSE size
=============================================================================
