----------------------------- MODULE SyncAwait ------------------------------
(***************************************************************************)
(* include/skutils/coroutine/sync_await.h over the Task<> coroutines of    *)
(* task.h: a thread that is no coroutine waits for a chain of tasks, each  *)
(* of which awaits the next; each may suspend for an event that another    *)
(* thread delivers.                                                        *)
(*                                                                         *)
(* Coroutine 0 is the waiter lambda of sync_await, 1 the task it was given *)
(* and Depth the innermost one. The chain runs on one stack at a time, the *)
(* main thread's or that of the thread which delivers the event.           *)
(* SyncEvent's mutex is held for the length of set()'s assignment and of   *)
(* wait()'s test of the predicate: each is one step.                       *)
(***************************************************************************)
EXTENDS Integers

CONSTANTS
    Depth,      \* how many tasks are chained
    MayThrow    \* whether the bodies of the tasks may throw

ASSUME DepthAssumption == Depth \in Nat \ {0}
ASSUME MayThrowAssumption == MayThrow \in BOOLEAN

Coros == 0 .. Depth
TaskIds == 1 .. Depth
None == -1

VARIABLES
    main,       \* where sync_await is on the calling thread
    coro,       \* the state of each coroutine
    continuation,   \* promise.continuation_ of each, or None
    promise,    \* what each promise holds: "empty", "value" or "error"
    thread,     \* on whose stack the chain runs: "main", "other" or "none"
    result,     \* whether std::optional<T> result has a value
    ready,      \* event.ready
    setting     \* where the waiter is in event.set(): "no", "store", "notify"

vars == <<main, coro, continuation, promise, thread, result, ready, setting>>

Init ==
    /\ main = "start"
    /\ coro = [k \in Coros |-> "lazy"]
    /\ continuation = [k \in Coros |-> None]
    /\ promise = [k \in Coros |-> "empty"]
    /\ thread = "none"
    /\ result = FALSE
    /\ ready = FALSE
    /\ setting = "no"

-----------------------------------------------------------------------------
(* Mistakes that the properties below must tell from the code; no action of  *)
(* the specification uses them.                                              *)

\* the suspension of a task resumes its awaiter
Bug_Suspend(k) ==
    /\ coro[k] = "running"
    /\ coro' = [coro EXCEPT ![k] = "suspended", ![k - 1] = "running"]
    /\ UNCHANGED <<main, continuation, promise, thread, result, ready, setting>>

\* set() without notify_one()
Bug_SetReady ==
    /\ setting = "store"
    /\ ready' = TRUE
    /\ setting' = "no"
    /\ coro' = [coro EXCEPT ![0] = "ending"]
    /\ UNCHANGED <<main, continuation, promise, thread, result>>

\* wait() without the predicate: any wakeup ends it
Bug_Test ==
    /\ main = "test"
    /\ main' = "return"
    /\ UNCHANGED <<coro, continuation, promise, thread, result, ready, setting>>

-----------------------------------------------------------------------------
(* Task<T> *)

\* co_await in coroutine k: Task::await_suspend stores k as the continuation
\* of the task it awaits and transfers control to it.
Await(k) ==
    /\ coro[k] = "running"
    /\ k < Depth
    /\ coro[k + 1] = "lazy"
    /\ continuation' = [continuation EXCEPT ![k + 1] = k]
    /\ coro' = [coro EXCEPT ![k] = "awaiting", ![k + 1] = "running"]
    /\ UNCHANGED <<main, promise, thread, result, ready, setting>>

\* A task awaits something that is not a Task: control returns to whoever
\* resumed the chain.
Suspend(k) ==
    /\ coro[k] = "running"
    /\ coro' = [coro EXCEPT ![k] = "suspended"]
    /\ thread' = "none"
    /\ UNCHANGED <<main, continuation, promise, result, ready, setting>>

\* Another thread delivers the event and resumes the handle.
Deliver(k) ==
    /\ coro[k] = "suspended"
    /\ coro' = [coro EXCEPT ![k] = "running"]
    /\ thread' = "other"
    /\ UNCHANGED <<main, continuation, promise, result, ready, setting>>

\* A task has awaited the next one, if there is one.
BodyOver(k) ==
    /\ coro[k] = "running"
    /\ IF k = Depth THEN TRUE ELSE coro[k + 1] = "final"

\* co_return: return_value() stores the value in the promise.
ReturnValue(k) ==
    /\ BodyOver(k)
    /\ promise' = [promise EXCEPT ![k] = "value"]
    /\ coro' = [coro EXCEPT ![k] = "ending"]
    /\ UNCHANGED <<main, continuation, thread, result, ready, setting>>

\* The body throws: unhandled_exception() keeps the exception.
UnhandledException(k) ==
    /\ MayThrow
    /\ coro[k] = "running"
    /\ promise' = [promise EXCEPT ![k] = "error"]
    /\ coro' = [coro EXCEPT ![k] = "ending"]
    /\ UNCHANGED <<main, continuation, thread, result, ready, setting>>

\* FinalAwaiter::await_suspend: transfer to the continuation; without one
\* (the waiter has none) return to whoever resumed the chain.
FinalSuspend(k) ==
    /\ coro[k] = "ending"
    /\ IF continuation[k] # None
         THEN /\ coro' = [coro EXCEPT ![k] = "final", ![continuation[k]] = "resumed"]
              /\ UNCHANGED thread
         ELSE /\ coro' = [coro EXCEPT ![k] = "final"]
              /\ thread' = "none"
    /\ UNCHANGED <<main, continuation, promise, result, ready, setting>>

\* Task::await_resume(): promise.result() returns the value or rethrows. A
\* task may catch what it awaited; the waiter does not, and its own
\* unhandled_exception() ends it without event.set(). With a value the waiter
\* goes on: result = ..., event.set().
AwaitResume(k) ==
    /\ coro[k] = "resumed"
    /\ \/ /\ k > 0
          /\ coro' = [coro EXCEPT ![k] = "running"]
          /\ UNCHANGED <<promise, result, setting>>
       \/ /\ promise[k + 1] = "error"
          /\ promise' = [promise EXCEPT ![k] = "error"]
          /\ coro' = [coro EXCEPT ![k] = "ending"]
          /\ UNCHANGED <<result, setting>>
       \/ /\ k = 0
          /\ promise[1] = "value"
          /\ coro' = [coro EXCEPT ![0] = "running"]
          /\ result' = TRUE
          /\ setting' = "store"
          /\ UNCHANGED promise
    /\ UNCHANGED <<main, continuation, thread, ready>>

-----------------------------------------------------------------------------
(* SyncEvent *)

\* set(): ready = true under the mutex.
SetReady ==
    /\ setting = "store"
    /\ ready' = TRUE
    /\ setting' = "notify"
    /\ UNCHANGED <<main, coro, continuation, promise, thread, result>>

\* set(): cv.notify_one(), after the mutex was released; the waiter ends.
SetNotify ==
    /\ setting = "notify"
    /\ setting' = "no"
    /\ main' = IF main = "sleeping" THEN "test" ELSE main
    /\ coro' = [coro EXCEPT ![0] = "ending"]
    /\ UNCHANGED <<continuation, promise, thread, result, ready>>

-----------------------------------------------------------------------------
(* sync_await *)

\* wait_task.handle().resume(): the waiter starts on this thread.
Start ==
    /\ main = "start"
    /\ main' = "inResume"
    /\ coro' = [coro EXCEPT ![0] = "running"]
    /\ thread' = "main"
    /\ UNCHANGED <<continuation, promise, result, ready, setting>>

\* resume() returns once the chain has left this thread's stack.
ResumeReturns ==
    /\ main = "inResume"
    /\ thread # "main"
    /\ main' = "test"
    /\ UNCHANGED <<coro, continuation, promise, thread, result, ready, setting>>

\* cv.wait(lock, [this] { return ready; }): test, and sleep if not ready, in
\* one step with respect to set().
Test ==
    /\ main = "test"
    /\ main' = IF ready THEN "return" ELSE "sleeping"
    /\ UNCHANGED <<coro, continuation, promise, thread, result, ready, setting>>

SpuriousWake ==
    /\ main = "sleeping"
    /\ main' = "test"
    /\ UNCHANGED <<coro, continuation, promise, thread, result, ready, setting>>

\* return std::move(result.value()): wait_task, result and event are locals
\* and are destroyed here, the frames of the whole chain with them.
Return ==
    /\ main = "return"
    /\ main' = "returned"
    /\ UNCHANGED <<coro, continuation, promise, thread, result, ready, setting>>

-----------------------------------------------------------------------------
ChainStep ==
    \/ \E k \in TaskIds : ReturnValue(k) \/ UnhandledException(k)
    \/ \E k \in Coros : Await(k) \/ FinalSuspend(k) \/ AwaitResume(k)
    \/ SetReady \/ SetNotify

MainStep == Start \/ ResumeReturns \/ Test \/ Return

Next ==
    \/ ChainStep
    \/ \E k \in TaskIds : Suspend(k) \/ Deliver(k)
    \/ MainStep
    \/ SpuriousWake

\* Both threads run, and an event that a task waits for is delivered.
Fairness ==
    /\ WF_vars(ChainStep)
    /\ WF_vars(MainStep)
    /\ \A k \in TaskIds : WF_vars(Deliver(k))

Spec == Init /\ [][Next]_vars /\ Fairness

-----------------------------------------------------------------------------
(* Properties *)

\* Every variable has the type its comment gives it.
TypeOK ==
    /\ main \in {"start", "inResume", "test", "sleeping", "return", "returned"}
    /\ coro \in [Coros -> {"lazy", "running", "awaiting", "suspended", "resumed",
                           "ending", "final"}]
    /\ continuation \in [Coros -> Coros \cup {None}]
    /\ promise \in [Coros -> {"empty", "value", "error"}]
    /\ thread \in {"main", "other", "none"}
    /\ result \in BOOLEAN
    /\ ready \in BOOLEAN
    /\ setting \in {"no", "store", "notify"}

\* The chain has one point of control: exactly one of its coroutines is active
\* while a thread runs it and none while no thread does, so symmetric transfer
\* never leaves two frames of the chain running or one of them forgotten.
Active == {k \in Coros : coro[k] \in {"running", "resumed", "ending"}}

OnePoint ==
    /\ thread = "none" <=> Active = {}
    /\ \A j, k \in Active : j = k

\* Whoever awaits is registered with the one it awaits: everything outside the
\* point of control awaits, everything inside it has ended or has not begun.
Chained ==
    \A k \in Coros \ {Depth} :
        coro[k] = "awaiting" =>
            /\ continuation[k + 1] = k
            /\ coro[k + 1] \notin {"lazy", "final"}

\* sync_await returns only a value that the task has produced, and after all
\* the tasks of the chain, those that threw and were caught included, ended.
ReturnsTheResult ==
    main = "returned" =>
        /\ result
        /\ promise[1] = "value"
        /\ \A k \in TaskIds : coro[k] \in {"lazy", "final"}

\* The wakeup is not lost: while main sleeps on a set event the waiter still
\* has its notify_one() to make.
NoLostWakeup == main = "sleeping" /\ ready => setting = "notify"

\* The chain has one point of control, everything outside it is registered to
\* be continued, and the main thread does not sleep on a set event for good.
ControlInv == TypeOK /\ OnePoint /\ Chained /\ NoLostWakeup

\* Control passes along the chain without a fork or a gap, back to a caller
\* that is awake to return the value of a task that has ended.
AwaitInv == ControlInv /\ ReturnsTheResult

\* A task that produced a value is returned to the caller, whichever thread it
\* ended on and however often it suspended.
ValueReturns == promise[1] = "value" ~> main = "returned"

\* sync_await.h:19: "it resumes the task and blocks via a condition variable
\* until the task finishes": once the task has finished, sync_await returns.
FinishedReturns == coro[1] = "final" ~> main = "returned"
=============================================================================
