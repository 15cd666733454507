----------------------------- MODULE MCIoUring -----------------------------
(***************************************************************************)
(* Coroutines of the demonstration (example/coro/demo_coro_io_uring.cpp)   *)
(* as the operations they await: after each, the one that follows if it    *)
(* succeeded and the one that follows if it did not; 0 ends the coroutine, *)
(* by co_return or by an exception.                                        *)
(***************************************************************************)
EXTENDS IoUring

CONSTANTS copy, file   \* two coroutines

AsyncReadFile == <<[kind |-> "read", ok |-> 0, err |-> 0]>>

\* read; write and fsync, whether or not the write succeeded; verify, if it did
AsyncCopyFile ==
  <<[kind |-> "read",  ok |-> 2, err |-> 0],
    [kind |-> "write", ok |-> 3, err |-> 5],
    [kind |-> "fsync", ok |-> 4, err |-> 4],
    [kind |-> "read",  ok |-> 0, err |-> 0],
    [kind |-> "fsync", ok |-> 0, err |-> 0]>>

DemoTasks == {copy, file}
DemoProgram == [c \in DemoTasks |-> IF c = copy THEN AsyncCopyFile ELSE AsyncReadFile]
=============================================================================
