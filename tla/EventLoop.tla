----------------------------- MODULE EventLoop ------------------------------
(***************************************************************************)
(* include/skutils/coroutine/event_loop.h: one thread in run(), others     *)
(* that post() and stop(), and tasks that do so from inside the loop.      *)
(*                                                                         *)
(* mtx_ is held for the push, for the assignment in stop() and for the     *)
(* test and swap in run(): each is one step, each notification another.    *)
(* running_ is written by run() and read by its loop without the mutex.    *)
(***************************************************************************)
EXTENDS Integers, Sequences, FiniteSets

CONSTANTS
    Tasks,      \* the callables, each posted at most once
    Posters,    \* threads that call post() and stop()
    MayStop,    \* whether anybody calls stop()
    MaxRuns     \* bound on how often run() is called

ASSUME MayStopAssumption == MayStop \in BOOLEAN
ASSUME MaxRunsAssumption == MaxRuns \in Nat

VARIABLES
    queue,      \* queue_, front first
    running,    \* running_
    loop,       \* the loop thread: "idle" outside run(), else "cond", "wait",
                \*   "sleeping", "drain", "inTask", "returned" once run() ended
    local,      \* the batch swapped out of queue_
    runs,       \* how often run() was called
    ppc,        \* each poster: "idle", or "notify" before its notify_one()
    posted,     \* history: the tasks in the order of their post()
    executed    \* history: the tasks in the order of their execution

loopVars == <<queue, running, loop, local, runs, ppc, posted, executed>>

Elems(s) == {s[i] : i \in 1 .. Len(s)}

LoopInit ==
    /\ queue = <<>>
    /\ running = FALSE
    /\ loop = "idle"
    /\ local = <<>>
    /\ runs = 0
    /\ ppc = [p \in Posters |-> "idle"]
    /\ posted = <<>>
    /\ executed = <<>>

\* cv_.notify_one(): only the loop thread ever waits.
Notify == loop' = IF loop = "sleeping" THEN "wait" ELSE loop

-----------------------------------------------------------------------------
(* Mistakes that the properties below must tell from the code; no action of  *)
(* the specification uses them.                                              *)

\* the batch is copied, and queue_ keeps it
Bug_Wait ==
    /\ loop = "wait"
    /\ IF queue # <<>> \/ ~running
         THEN local' = queue /\ loop' = "drain"
         ELSE loop' = "sleeping" /\ UNCHANGED local
    /\ UNCHANGED <<queue, running, runs, ppc, posted, executed>>

\* a predicate that looks at the queue only
Bug_WaitPredicate ==
    /\ loop = "wait"
    /\ IF queue # <<>>
         THEN local' = queue /\ queue' = <<>> /\ loop' = "drain"
         ELSE loop' = "sleeping" /\ UNCHANGED <<queue, local>>
    /\ UNCHANGED <<running, runs, ppc, posted, executed>>

\* post() notifies before it pushes
Bug_PosterNotify(p) ==
    /\ ppc[p] = "notify"
    /\ ppc' = [ppc EXCEPT ![p] = "idle"]
    /\ UNCHANGED <<queue, running, loop, local, runs, posted, executed>>

-----------------------------------------------------------------------------
(* run() *)

\* running_ = true, whatever it was before
Run ==
    /\ loop = "idle"
    /\ runs < MaxRuns
    /\ running' = TRUE
    /\ runs' = runs + 1
    /\ loop' = "cond"
    /\ UNCHANGED <<queue, local, ppc, posted, executed>>

\* while (running_)
Cond ==
    /\ loop = "cond"
    /\ loop' = IF running THEN "wait" ELSE "returned"
    /\ UNCHANGED <<queue, running, local, runs, ppc, posted, executed>>

\* cv_.wait(lock, ...), then std::swap(local, queue_) under the same lock
Wait ==
    /\ loop = "wait"
    /\ IF queue # <<>> \/ ~running
         THEN local' = queue /\ queue' = <<>> /\ loop' = "drain"
         ELSE loop' = "sleeping" /\ UNCHANGED <<queue, local>>
    /\ UNCHANGED <<running, runs, ppc, posted, executed>>

LoopSpuriousWake ==
    /\ loop = "sleeping"
    /\ loop' = "wait"
    /\ UNCHANGED <<queue, running, local, runs, ppc, posted, executed>>

\* while (!local.empty()) task()
NextTask ==
    /\ loop = "drain"
    /\ loop' = IF local = <<>> THEN "cond" ELSE "inTask"
    /\ UNCHANGED <<queue, running, local, runs, ppc, posted, executed>>

\* The task returns: local.pop()
TaskEnds ==
    /\ loop = "inTask"
    /\ executed' = Append(executed, Head(local))
    /\ local' = Tail(local)
    /\ loop' = "drain"
    /\ UNCHANGED <<queue, running, runs, ppc, posted>>

\* The thread that called run() is back, and may call it again.
Leave ==
    /\ loop = "returned"
    /\ loop' = "idle"
    /\ UNCHANGED <<queue, running, local, runs, ppc, posted, executed>>

-----------------------------------------------------------------------------
(* post() and stop() *)

Push(t) ==
    /\ t \notin Elems(posted)
    /\ queue' = Append(queue, t)
    /\ posted' = Append(posted, t)

Post(p, t) ==
    /\ ppc[p] = "idle"
    /\ Push(t)
    /\ ppc' = [ppc EXCEPT ![p] = "notify"]
    /\ UNCHANGED <<running, loop, local, runs, executed>>

Stop(p) ==
    /\ MayStop
    /\ ppc[p] = "idle"
    /\ running' = FALSE
    /\ ppc' = [ppc EXCEPT ![p] = "notify"]
    /\ UNCHANGED <<queue, loop, local, runs, posted, executed>>

\* cv_.notify_one() of either
PosterNotify(p) ==
    /\ ppc[p] = "notify"
    /\ ppc' = [ppc EXCEPT ![p] = "idle"]
    /\ Notify
    /\ UNCHANGED <<queue, running, local, runs, posted, executed>>

\* A task that posts: its notification finds nobody asleep.
PostFromTask(t) ==
    /\ loop = "inTask"
    /\ Push(t)
    /\ UNCHANGED <<running, loop, local, runs, ppc, executed>>

StopFromTask ==
    /\ MayStop
    /\ loop = "inTask"
    /\ running' = FALSE
    /\ UNCHANGED <<queue, loop, local, runs, ppc, posted, executed>>

-----------------------------------------------------------------------------
LoopStep == Cond \/ Wait \/ NextTask \/ TaskEnds

LoopNext ==
    \/ Run \/ LoopStep \/ LoopSpuriousWake \/ Leave
    \/ \E p \in Posters : PosterNotify(p) \/ Stop(p)
    \/ \E p \in Posters, t \in Tasks : Post(p, t)
    \/ \E t \in Tasks : PostFromTask(t)
    \/ StopFromTask

\* The loop thread runs once it is in run(), tasks return, and a call of
\* post() or stop() that has begun ends.
LoopFairness ==
    /\ WF_loopVars(LoopStep)
    /\ \A p \in Posters : WF_loopVars(PosterNotify(p))

LoopSpec == LoopInit /\ [][LoopNext]_loopVars /\ LoopFairness

-----------------------------------------------------------------------------
(* Properties *)

\* Every variable has the type its comment gives it.
LoopTypeOK ==
    /\ queue \in Seq(Tasks)
    /\ running \in BOOLEAN
    /\ loop \in {"idle", "cond", "wait", "sleeping", "drain", "inTask", "returned"}
    /\ local \in Seq(Tasks)
    /\ runs \in 0 .. MaxRuns
    /\ ppc \in [Posters -> {"idle", "notify"}]
    /\ posted \in Seq(Tasks)
    /\ executed \in Seq(Tasks)

\* Tasks are executed in the order in which they were posted, each once, none
\* skipped, over any number of swaps and runs: what was executed, what is left
\* of the batch and what is queued are together what was posted.
InOrder == executed \o local \o queue = posted

\* stop() does not cut a batch: run() returns only with its batch executed.
BatchCompleted == loop \in {"idle", "cond", "wait", "sleeping", "returned"} => local = <<>>

\* Tasks run in the order of their posting, in batches that are never cut.
OrderInv == LoopTypeOK /\ InOrder /\ BatchCompleted

\* The wakeup of a post() or a stop() is not lost: a loop that sleeps although
\* it has something to do is about to be notified.
NoPostMissed ==
    (loop = "sleeping" /\ (queue # <<>> \/ ~running)) =>
        \E p \in Posters : ppc[p] = "notify"

\* run() returns only after a stop(): not, as the comments of event_loop.h say, when there is
\* no more work (an idle loop sleeps), and also with tasks in the queue, which wait for the
\* next run().
EndsByStop == loop = "returned" => ~running

\* Tasks run in the order of their posting whatever posts come between a swap
\* and the end of its batch, the loop never sleeps through one of them, and it
\* ends only when it is stopped.
LoopInv == OrderInv /\ NoPostMissed /\ EndsByStop

\* A stop() that finds the loop inside run(), past its first assignment, ends
\* it, even from inside a task and with tasks still queued.
StopEndsRun ==
    (loop \notin {"idle", "returned"} /\ ~running) ~> loop = "returned"

\* A task posted to a running loop is executed, unless the loop is stopped.
PostedRuns ==
    \A t \in Tasks :
        (t \in Elems(queue) /\ running) ~> (t \in Elems(executed) \/ ~running)
=============================================================================
