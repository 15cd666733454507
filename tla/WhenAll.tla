------------------------------ MODULE WhenAll -------------------------------
(***************************************************************************)
(* include/skutils/coroutine/task.h: when_all() over N tasks, and the      *)
(* Task<> coroutines it drives.                                            *)
(*                                                                         *)
(* A coroutine runs on the stack of whoever resumed it. The when_all body  *)
(* resumes one launch_wrapper after the other; a wrapper whose child never *)
(* suspends runs to its end inside that call, and one whose child suspends *)
(* (io_uring, a timer) returns to the body and goes on later, on the       *)
(* thread that completes the child. Each statement between two accesses to *)
(* the shared WhenAllState is a step. Both overloads are covered: the pair *)
(* is N = 2 with the same protocol.                                        *)
(***************************************************************************)
EXTENDS Integers, FiniteSets

CONSTANTS
    N,          \* tasks.size()
    Async       \* the children that may suspend

ASSUME NAssumption == N \in Nat
Children == 1 .. N
ASSUME AsyncAssumption == Async \subseteq Children

VARIABLES
    body,       \* where the when_all coroutine is
    next,       \* the wrapper its launch loop has come to
    wrapper,    \* where each launch_wrapper coroutine is
    host,       \* the thread it runs on: "body", or "own" once its child suspended
    outcome,    \* how each child ended
    results,    \* the indices of *results that have been written
    exception,  \* the child whose exception is stored, 0 for a null pointer
    remaining,  \* std::atomic<size_t> remaining
    continuation,   \* whether the atomic continuation is set
    resumers,   \* detached threads that are to call cont.resume()
    resumed,    \* history: how many such threads were started
    verdict     \* how when_all ended for its caller

vars == <<body, next, wrapper, host, outcome, results, exception, remaining,
          continuation, resumers, resumed, verdict>>

Init ==
    /\ body = "start"
    /\ next = 1
    /\ wrapper = [i \in Children |-> "created"]
    /\ host = [i \in Children |-> "body"]
    /\ outcome = [i \in Children |-> "none"]
    /\ results = {}
    /\ exception = 0
    /\ remaining = 0
    /\ continuation = FALSE
    /\ resumers = 0
    /\ resumed = 0
    /\ verdict = "none"

-----------------------------------------------------------------------------
(* Mistakes that the properties below must tell from the code; no action of  *)
(* the specification uses them.                                              *)

\* the catch block returns before the count
Bug_Complete(i) ==
    /\ wrapper[i] = "child"
    /\ \E r \in {"value", "error"} :
          /\ outcome' = [outcome EXCEPT ![i] = r]
          /\ wrapper' = [wrapper EXCEPT ![i] = IF r = "value" THEN "sub" ELSE "ending"]
          /\ IF r = "value"
               THEN results' = results \cup {i} /\ UNCHANGED exception
               ELSE exception' = i /\ UNCHANGED results
    /\ UNCHANGED <<body, next, host, remaining, continuation, resumers, resumed, verdict>>

\* every wrapper looks at the continuation, not only the last
Bug_FetchSub(i) ==
    /\ wrapper[i] = "sub"
    /\ remaining' = remaining - 1
    /\ wrapper' = [wrapper EXCEPT ![i] = "load"]
    /\ UNCHANGED <<body, next, host, outcome, results, exception, continuation,
                   resumers, resumed, verdict>>

\* await_resume() does not look at the exception
Bug_AwaitResume ==
    /\ body = "result"
    /\ verdict' = "value"
    /\ body' = "cleanup"
    /\ UNCHANGED <<next, wrapper, host, outcome, results, exception, remaining,
                   continuation, resumers, resumed>>

\* the continuation is loaded and not resumed
Bug_Load(i) ==
    /\ wrapper[i] = "load"
    /\ wrapper' = [wrapper EXCEPT ![i] = "ending"]
    /\ UNCHANGED <<body, next, host, outcome, results, exception, remaining,
                   continuation, resumers, resumed, verdict>>

\* every wrapper is resumed on a thread of its own
Bug_Launched ==
    /\ body = "launch"
    /\ next \in Children
    /\ wrapper[next] # "created"
    /\ next' = next + 1
    /\ body' = IF next = N THEN "ready" ELSE "launch"
    /\ UNCHANGED <<wrapper, host, outcome, results, exception, remaining,
                   continuation, resumers, resumed, verdict>>

-----------------------------------------------------------------------------
(* launch_wrapper *)

\* The child that the wrapper awaits suspends for an external event: the stack
\* unwinds to the launch loop.
SuspendChild(i) ==
    /\ wrapper[i] = "child"
    /\ host[i] = "body"
    /\ i \in Async
    /\ host' = [host EXCEPT ![i] = "own"]
    /\ UNCHANGED <<body, next, wrapper, outcome, results, exception, remaining,
                   continuation, resumers, resumed, verdict>>

\* The child ends and FinalAwaiter transfers to the wrapper, which stores the
\* value in its slot, or the exception in the one slot there is for all.
Complete(i) ==
    /\ wrapper[i] = "child"
    /\ \E r \in {"value", "error"} :
          /\ outcome' = [outcome EXCEPT ![i] = r]
          /\ IF r = "value"
               THEN results' = results \cup {i} /\ UNCHANGED exception
               ELSE exception' = i /\ UNCHANGED results
    /\ wrapper' = [wrapper EXCEPT ![i] = "sub"]
    /\ UNCHANGED <<body, next, host, remaining, continuation, resumers, resumed, verdict>>

\* auto prev = remaining.fetch_sub(1); if (prev == 1)
FetchSub(i) ==
    /\ wrapper[i] = "sub"
    /\ remaining' = remaining - 1
    /\ wrapper' = [wrapper EXCEPT ![i] = IF remaining = 1 THEN "load" ELSE "ending"]
    /\ UNCHANGED <<body, next, host, outcome, results, exception, continuation,
                   resumers, resumed, verdict>>

\* if (auto cont = get_continuation(); cont) std::thread(...).detach()
Load(i) ==
    /\ wrapper[i] = "load"
    /\ wrapper' = [wrapper EXCEPT ![i] = "ending"]
    /\ IF continuation
         THEN resumers' = resumers + 1 /\ resumed' = resumed + 1
         ELSE UNCHANGED <<resumers, resumed>>
    /\ UNCHANGED <<body, next, host, outcome, results, exception, remaining,
                   continuation, verdict>>

\* The locals and parameters are destroyed, and the wrapper suspends for good:
\* it has no continuation and returns to its resumer.
FinalSuspend(i) ==
    /\ wrapper[i] = "ending"
    /\ wrapper' = [wrapper EXCEPT ![i] = "final"]
    /\ UNCHANGED <<body, next, host, outcome, results, exception, remaining,
                   continuation, resumers, resumed, verdict>>

\* What follows the suspension point of the child, or all of it. If its frame
\* has been destroyed (see FrameSafe) the steps are those of the stale frame.
WrapperStep(i) ==
    \/ Complete(i)
    \/ FetchSub(i)
    \/ Load(i)
    \/ FinalSuspend(i)

-----------------------------------------------------------------------------
(* when_all *)

\* No task: co_return an empty vector. Otherwise make the state and the
\* wrappers, all of them lazy.
Begin ==
    /\ body = "start"
    /\ IF N = 0
         THEN body' = "done" /\ verdict' = "value" /\ UNCHANGED remaining
         ELSE body' = "launch" /\ remaining' = N /\ UNCHANGED verdict
    /\ UNCHANGED <<next, wrapper, host, outcome, results, exception, continuation,
                   resumers, resumed>>

\* w.handle().resume()
Launch ==
    /\ body = "launch"
    /\ next \in Children
    /\ wrapper[next] = "created"
    /\ wrapper' = [wrapper EXCEPT ![next] = "child"]
    /\ UNCHANGED <<body, next, host, outcome, results, exception, remaining,
                   continuation, resumers, resumed, verdict>>

\* resume() has returned: the wrapper ended inside it, or its child suspended.
Launched ==
    /\ body = "launch"
    /\ next \in Children
    /\ wrapper[next] = "final" \/ host[next] = "own"
    /\ next' = next + 1
    /\ body' = IF next = N THEN "ready" ELSE "launch"
    /\ UNCHANGED <<wrapper, host, outcome, results, exception, remaining,
                   continuation, resumers, resumed, verdict>>

\* await_ready(): remaining == 0
AwaitReady ==
    /\ body = "ready"
    /\ body' = IF remaining = 0 THEN "result" ELSE "suspend"
    /\ UNCHANGED <<next, wrapper, host, outcome, results, exception, remaining,
                   continuation, resumers, resumed, verdict>>

\* await_suspend(): set_continuation(handle), and nothing is tested again.
AwaitSuspend ==
    /\ body = "suspend"
    /\ continuation' = TRUE
    /\ body' = "suspended"
    /\ UNCHANGED <<next, wrapper, host, outcome, results, exception, remaining,
                   resumers, resumed, verdict>>

\* The detached thread: cont.resume()
Resume ==
    /\ resumers > 0
    /\ resumers' = resumers - 1
    /\ body' = "result"
    /\ UNCHANGED <<next, wrapper, host, outcome, results, exception, remaining,
                   continuation, resumed, verdict>>

\* await_resume() rethrows the stored exception, or the results are moved out.
AwaitResume ==
    /\ body = "result"
    /\ verdict' = IF exception # 0 THEN "error" ELSE "value"
    /\ body' = "cleanup"
    /\ UNCHANGED <<next, wrapper, host, outcome, results, exception, remaining,
                   continuation, resumers, resumed>>

\* The vector of wrappers is destroyed, and the frames with it; then
\* FinalAwaiter transfers to whoever awaits when_all.
Cleanup ==
    /\ body = "cleanup"
    /\ body' = "done"
    /\ UNCHANGED <<next, wrapper, host, outcome, results, exception, remaining,
                   continuation, resumers, resumed, verdict>>

BodyStep == Begin \/ Launch \/ Launched \/ AwaitReady \/ AwaitSuspend
            \/ AwaitResume \/ Cleanup

-----------------------------------------------------------------------------
Next ==
    \/ BodyStep
    \/ Resume
    \/ \E i \in Children : SuspendChild(i) \/ WrapperStep(i)

\* The threads run, and a child that waits for an external event gets it.
Fairness ==
    /\ WF_vars(BodyStep)
    /\ WF_vars(Resume)
    /\ \A i \in Children : WF_vars(WrapperStep(i))

Spec == Init /\ [][Next]_vars /\ Fairness

-----------------------------------------------------------------------------
(* Properties *)

\* Every variable has the type its comment gives it; in particular the
\* unsigned counter never goes below zero.
TypeOK ==
    /\ body \in {"start", "launch", "ready", "suspend", "suspended", "result",
                 "cleanup", "done"}
    /\ next \in 1 .. N + 1
    /\ wrapper \in [Children -> {"created", "child", "sub", "load", "ending", "final"}]
    /\ host \in [Children -> {"body", "own"}]
    /\ outcome \in [Children -> {"none", "value", "error"}]
    /\ results \subseteq Children
    /\ exception \in Children \cup {0}
    /\ remaining \in 0 .. N
    /\ continuation \in BOOLEAN
    /\ resumers \in Nat
    /\ resumed \in Nat
    /\ verdict \in {"none", "value", "error"}

\* Wrappers that have not yet been subtracted.
Uncounted == {i \in Children : wrapper[i] \in {"created", "child", "sub"}}

\* remaining counts the wrappers that are still to be subtracted, on every
\* path through the try and the catch.
CountExact == body # "start" => remaining = Cardinality(Uncounted)

\* The coroutine is resumed at most once, and only while it is suspended: two
\* resumptions, or one of a running coroutine, are undefined behaviour.
ResumedOnce ==
    /\ resumed <= 1
    /\ resumers > 0 => body = "suspended" /\ continuation

\* At most one wrapper finds itself the last one.
OneLast == Cardinality({i \in Children : wrapper[i] = "load"}) <= 1

\* when_all reports values only when every child has stored its own.
ValuesComplete == body = "done" /\ verdict = "value" => results = Children

\* The count is exact, at most one wrapper finds it exhausted, and values are
\* reported only when all of them are there.
CountInv == TypeOK /\ CountExact /\ OneLast /\ ValuesComplete

\* If no child suspends, each wrapper is over before the next is launched, and
\* when_all destroys only frames that are.
InlineFrameSafe ==
    (body = "done" /\ \A i \in Children : host[i] = "body") =>
        \A i \in Children : wrapper[i] = "final"

\* However the wrappers end, one of them and no other resumes the coroutine,
\* once, with every result there, and frames of inline wrappers are over when
\* they are destroyed.
WhenAllInv == CountInv /\ ResumedOnce /\ InlineFrameSafe

\* All children first, then one verdict, an error exactly if one of them
\* failed: when_all implements Gather.
Abstract == INSTANCE Gather
ImplementsGather == Abstract!Spec

\* when_all returns if all were done before it asked, or if it had stored its
\* continuation before the last child was subtracted.
CompletesUnlessBetween ==
    (body = "ready" /\ remaining = 0) \/ (continuation /\ remaining > 0)
        ~> body = "done"

\* task.h:313: "Returns a Task that completes when all input tasks have
\* completed."
WhenAllCompletes == (\A i \in Children : outcome[i] # "none") ~> body = "done"

\* task.h:285 and 301: the cleanup of when_all must not destroy the frame of a
\* wrapper that is still on the call stack.
FrameSafe == body = "done" => \A i \in Children : wrapper[i] = "final"
=============================================================================
