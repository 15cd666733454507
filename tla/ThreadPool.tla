----------------------------- MODULE ThreadPool -----------------------------
(***************************************************************************)
(* include/skutils/threadpool.h: a fixed set of worker threads that share  *)
(* a WorkQueue.                                                            *)
(*                                                                         *)
(* The class has two mutexes. WorkQueue has one of its own, held for the   *)
(* length of one call: push, pop and empty are each one atomic step here.  *)
(* ThreadPool::mtx_ is held by a worker from its test of the queue to its  *)
(* pop, but submit() and shutdown() never take it; that is where the       *)
(* interesting interleavings are, so it is a variable, and every statement *)
(* of doWork() is a step.                                                  *)
(***************************************************************************)
EXTENDS Integers, Sequences, FiniteSets

CONSTANTS
    Workers,    \* workers_; may be empty: corePoolSize may be 0
    Clients,    \* threads that call submit() and future::get()
    Tasks,      \* the callables; each is submitted at most once
    NoTask,     \* std::nullopt
    Free        \* the owner of an unlocked mutex

ASSUME NoTaskAssumption == NoTask \notin Tasks
ASSUME FreeAssumption == Free \notin Workers
ASSUME WorkersAssumption == IsFiniteSet(Workers)

VARIABLES
    isRunning,  \* std::atomic<bool> isRunning_
    workQueue,  \* workQueue_.q_, front first
    mtx,        \* who holds mtx_
    pc,         \* where each worker is in doWork()
    taskOpt,    \* each worker's local taskOpt
    cpc,        \* where each client is in submit(): "idle", "notify"; "left"
                \*   once it will submit nothing more
    waitFor,    \* the task whose future the client is in get() for
    future,     \* the shared state of each task's future
    owner,      \* where ~ThreadPool() is: "alive", "notify", "join", "destroyed"
    late        \* history: tasks each worker took after isRunning_ was cleared

poolVars   == <<isRunning, workQueue, mtx>>
workerVars == <<pc, taskOpt, late>>
clientVars == <<cpc, waitFor>>
vars == <<isRunning, workQueue, mtx, pc, taskOpt, cpc, waitFor, future, owner, late>>

\* Members of a sequence.
Elems(s) == {s[i] : i \in 1 .. Len(s)}

\* Threads blocked inside cv_.wait(lock).
Sleeping == {w \in Workers : pc[w] = "waiting"}

\* The threads created by the constructor have not been scheduled yet.
Init ==
    /\ isRunning = TRUE
    /\ workQueue = <<>>
    /\ mtx = Free
    /\ pc = [w \in Workers |-> "loop"]
    /\ taskOpt = [w \in Workers |-> NoTask]
    /\ cpc = [c \in Clients |-> "idle"]
    /\ waitFor = [c \in Clients |-> NoTask]
    /\ future = [t \in Tasks |-> "none"]
    /\ owner = "alive"
    /\ late = [w \in Workers |-> 0]

-----------------------------------------------------------------------------
(* Mistakes that the properties below must tell from the code; no action of  *)
(* the specification uses them.                                              *)

\* while (true)
Bug_CheckRunning(w) ==
    /\ pc[w] = "loop"
    /\ pc' = [pc EXCEPT ![w] = "lock"]
    /\ UNCHANGED <<poolVars, taskOpt, late, clientVars, future, owner>>

\* the queue is tested without mtx_
Bug_Lock(w) ==
    /\ pc[w] = "lock"
    /\ pc' = [pc EXCEPT ![w] = "check"]
    /\ UNCHANGED <<poolVars, taskOpt, late, clientVars, future, owner>>

\* cv_.wait(lock) without the test of the queue before it
Bug_CheckEmpty(w) ==
    /\ pc[w] = "check"
    /\ pc' = [pc EXCEPT ![w] = "wait"]
    /\ UNCHANGED <<poolVars, taskOpt, late, clientVars, future, owner>>

\* pop() copies the front and forgets q_.pop()
Bug_PopKeeps(w) ==
    /\ pc[w] = "pop"
    /\ pc' = [pc EXCEPT ![w] = "unlock"]
    /\ taskOpt' = [taskOpt EXCEPT ![w] =
                     IF workQueue = <<>> THEN NoTask ELSE Head(workQueue)]
    /\ UNCHANGED <<isRunning, workQueue, mtx, late, clientVars, future, owner>>

\* the queue is drained without looking at isRunning_ again
Bug_RunDrains(w) ==
    /\ pc[w] = "run"
    /\ \E result \in {"value", "error"} :
          future' = [future EXCEPT ![taskOpt[w]] = result]
    /\ taskOpt' = [taskOpt EXCEPT ![w] = NoTask]
    /\ pc' = [pc EXCEPT ![w] = "lock"]
    /\ UNCHANGED <<poolVars, late, clientVars, owner>>

\* the callable is pushed after it was moved from
Bug_PushMoved(c, t) ==
    /\ cpc[c] = "idle"
    /\ waitFor[c] = NoTask
    /\ future[t] = "none"
    /\ workQueue' = Append(workQueue, NoTask)
    /\ future' = [future EXCEPT ![t] = "pending"]
    /\ cpc' = [cpc EXCEPT ![c] = "notify"]
    /\ UNCHANGED <<isRunning, mtx, workerVars, waitFor, owner>>

\* a stack instead of a queue
Bug_PushFront(c, t) ==
    /\ cpc[c] = "idle"
    /\ waitFor[c] = NoTask
    /\ future[t] = "none"
    /\ workQueue' = <<t>> \o workQueue
    /\ future' = [future EXCEPT ![t] = "pending"]
    /\ cpc' = [cpc EXCEPT ![c] = "notify"]
    /\ UNCHANGED <<isRunning, mtx, workerVars, waitFor, owner>>

\* detach() instead of join()
Bug_Detach ==
    /\ owner = "join"
    /\ owner' = "destroyed"
    /\ workQueue' = <<>>
    /\ future' = [t \in Tasks |->
                    IF t \in Elems(workQueue) THEN "broken" ELSE future[t]]
    /\ UNCHANGED <<isRunning, mtx, workerVars, clientVars>>

-----------------------------------------------------------------------------
(* doWork() *)

\* while (isRunning_)
CheckRunning(w) ==
    /\ pc[w] = "loop"
    /\ pc' = [pc EXCEPT ![w] = IF isRunning THEN "lock" ELSE "exited"]
    /\ UNCHANGED <<poolVars, taskOpt, late, clientVars, future, owner>>

\* std::unique_lock<std::mutex> lock(mtx_)
Lock(w) ==
    /\ pc[w] = "lock"
    /\ mtx = Free
    /\ mtx' = w
    /\ pc' = [pc EXCEPT ![w] = "check"]
    /\ UNCHANGED <<isRunning, workQueue, taskOpt, late, clientVars, future, owner>>

\* if (workQueue_.empty())
CheckEmpty(w) ==
    /\ pc[w] = "check"
    /\ pc' = [pc EXCEPT ![w] = IF workQueue = <<>> THEN "wait" ELSE "pop"]
    /\ UNCHANGED <<poolVars, taskOpt, late, clientVars, future, owner>>

\* cv_.wait(lock), without a predicate: unlocks and sleeps in one step.
Wait(w) ==
    /\ pc[w] = "wait"
    /\ mtx' = Free
    /\ pc' = [pc EXCEPT ![w] = "waiting"]
    /\ UNCHANGED <<isRunning, workQueue, taskOpt, late, clientVars, future, owner>>

\* A condition variable may wake a thread that nobody notified.
SpuriousWake(w) ==
    /\ pc[w] = "waiting"
    /\ pc' = [pc EXCEPT ![w] = "relock"]
    /\ UNCHANGED <<poolVars, taskOpt, late, clientVars, future, owner>>

\* The woken thread takes mtx_ again before wait() returns.
Relock(w) ==
    /\ pc[w] = "relock"
    /\ mtx = Free
    /\ mtx' = w
    /\ pc' = [pc EXCEPT ![w] = "pop"]
    /\ UNCHANGED <<isRunning, workQueue, taskOpt, late, clientVars, future, owner>>

\* auto taskOpt = workQueue_.pop(): nullopt when there is nothing to take.
Pop(w) ==
    /\ pc[w] = "pop"
    /\ pc' = [pc EXCEPT ![w] = "unlock"]
    /\ \/ /\ workQueue = <<>>
          /\ UNCHANGED <<workQueue, taskOpt, late>>
       \/ /\ workQueue # <<>>
          /\ taskOpt' = [taskOpt EXCEPT ![w] = Head(workQueue)]
          /\ workQueue' = Tail(workQueue)
          /\ late' = IF isRunning THEN late ELSE [late EXCEPT ![w] = @ + 1]
    /\ UNCHANGED <<isRunning, mtx, clientVars, future, owner>>

\* lock.unlock(); if (taskOpt.has_value())
Unlock(w) ==
    /\ pc[w] = "unlock"
    /\ mtx' = Free
    /\ pc' = [pc EXCEPT ![w] = IF taskOpt[w] = NoTask THEN "loop" ELSE "run"]
    /\ UNCHANGED <<isRunning, workQueue, taskOpt, late, clientVars, future, owner>>

\* std::invoke(taskOpt.value()): the packaged_task stores what the callable
\* returned or threw in its future, and taskOpt goes out of scope.
Run(w) ==
    /\ pc[w] = "run"
    /\ \E result \in {"value", "error"} :
          future' = [future EXCEPT ![taskOpt[w]] = result]
    /\ taskOpt' = [taskOpt EXCEPT ![w] = NoTask]
    /\ pc' = [pc EXCEPT ![w] = "loop"]
    /\ UNCHANGED <<poolVars, late, clientVars, owner>>

\* What a scheduled worker does; it wakes by itself only spuriously.
WorkerStep(w) ==
    \/ CheckRunning(w)
    \/ Lock(w)
    \/ CheckEmpty(w)
    \/ Wait(w)
    \/ Relock(w)
    \/ Pop(w)
    \/ Unlock(w)
    \/ Run(w)

-----------------------------------------------------------------------------
(* submit() and the futures it returns *)

\* workQueue_.push(...): takes the queue's own mutex and not mtx_.
Push(c, t) ==
    /\ cpc[c] = "idle"
    /\ waitFor[c] = NoTask
    /\ future[t] = "none"
    /\ workQueue' = Append(workQueue, t)
    /\ future' = [future EXCEPT ![t] = "pending"]
    /\ cpc' = [cpc EXCEPT ![c] = "notify"]
    /\ UNCHANGED <<isRunning, mtx, workerVars, waitFor, owner>>

\* cv_.notify_one(): wakes one of the sleeping workers, or nobody.
NotifyOne(c) ==
    /\ cpc[c] = "notify"
    /\ cpc' = [cpc EXCEPT ![c] = "idle"]
    /\ \/ /\ Sleeping = {}
          /\ UNCHANGED pc
       \/ \E w \in Sleeping : pc' = [pc EXCEPT ![w] = "relock"]
    /\ UNCHANGED <<poolVars, taskOpt, late, waitFor, future, owner>>

\* The client has submitted its last task.
Leave(c) ==
    /\ cpc[c] = "idle"
    /\ waitFor[c] = NoTask
    /\ cpc' = [cpc EXCEPT ![c] = "left"]
    /\ UNCHANGED <<poolVars, workerVars, waitFor, future, owner>>

\* future::get() on a task that was submitted; it may outlive the pool.
BeginGet(c, t) ==
    /\ cpc[c] \in {"idle", "left"}
    /\ waitFor[c] = NoTask
    /\ future[t] = "pending"
    /\ \A d \in Clients : waitFor[d] # t
    /\ waitFor' = [waitFor EXCEPT ![c] = t]
    /\ UNCHANGED <<poolVars, workerVars, cpc, future, owner>>

EndGet(c) ==
    /\ waitFor[c] # NoTask
    /\ future[waitFor[c]] # "pending"
    /\ waitFor' = [waitFor EXCEPT ![c] = NoTask]
    /\ UNCHANGED <<poolVars, workerVars, cpc, future, owner>>

-----------------------------------------------------------------------------
(* ~ThreadPool(): shutdown(), then the members are destroyed *)

\* isRunning_.store(false). The pool may be destroyed only when nobody will
\* call submit() any more; a client may still be in get().
StoreStop ==
    /\ owner = "alive"
    /\ \A c \in Clients : cpc[c] = "left"
    /\ isRunning' = FALSE
    /\ owner' = "notify"
    /\ UNCHANGED <<workQueue, mtx, workerVars, clientVars, future>>

\* cv_.notify_all(), without mtx_.
NotifyAll ==
    /\ owner = "notify"
    /\ pc' = [w \in Workers |-> IF w \in Sleeping THEN "relock" ELSE pc[w]]
    /\ owner' = "join"
    /\ UNCHANGED <<poolVars, taskOpt, late, clientVars, future>>

\* Every worker.join() has returned. The queue is destroyed with the tasks it
\* still holds: their promises are broken.
Join ==
    /\ owner = "join"
    /\ \A w \in Workers : pc[w] = "exited"
    /\ owner' = "destroyed"
    /\ workQueue' = <<>>
    /\ future' = [t \in Tasks |->
                    IF t \in Elems(workQueue) THEN "broken" ELSE future[t]]
    /\ UNCHANGED <<isRunning, mtx, workerVars, clientVars>>

-----------------------------------------------------------------------------
Next ==
    \/ \E w \in Workers : WorkerStep(w) \/ SpuriousWake(w)
    \/ \E c \in Clients : NotifyOne(c) \/ Leave(c) \/ EndGet(c)
    \/ \E c \in Clients, t \in Tasks : Push(c, t) \/ BeginGet(c, t)
    \/ StoreStop \/ NotifyAll \/ Join

\* Every thread that can run is scheduled and every task ends. Nothing says
\* that a sleeping thread wakes by itself, that a client submits, leaves or
\* gets, or that the pool is ever destroyed; once begun, a call goes on.
Fairness ==
    /\ \A w \in Workers : WF_vars(WorkerStep(w))
    /\ \A c \in Clients : WF_vars(NotifyOne(c)) /\ WF_vars(EndGet(c))
    /\ WF_vars(NotifyAll)
    /\ WF_vars(Join)

Spec == Init /\ [][Next]_vars /\ Fairness

-----------------------------------------------------------------------------
(* Properties *)

\* Every variable has the type its comment gives it.
TypeOK ==
    /\ isRunning \in BOOLEAN
    /\ workQueue \in Seq(Tasks)
    /\ mtx \in Workers \cup {Free}
    /\ pc \in [Workers -> {"loop", "lock", "check", "wait", "waiting", "relock",
                           "pop", "unlock", "run", "exited"}]
    /\ taskOpt \in [Workers -> Tasks \cup {NoTask}]
    /\ cpc \in [Clients -> {"idle", "notify", "left"}]
    /\ waitFor \in [Clients -> Tasks \cup {NoTask}]
    /\ future \in [Tasks -> {"none", "pending", "value", "error", "broken"}]
    /\ owner \in {"alive", "notify", "join", "destroyed"}
    /\ late \in [Workers -> Nat]

\* No task is lost and none is run twice: a task whose future is pending is
\* in the queue or in the hands of a worker, in one place only, and a task
\* whose future is not pending is nowhere.
Conservation ==
    /\ \A i, j \in 1 .. Len(workQueue) : workQueue[i] = workQueue[j] => i = j
    /\ \A v, w \in Workers :
          taskOpt[v] = taskOpt[w] /\ taskOpt[v] # NoTask => v = w
    /\ \A w \in Workers : taskOpt[w] \notin Elems(workQueue)
    /\ \A t \in Tasks :
          future[t] = "pending" <=> \/ t \in Elems(workQueue)
                                    \/ \E w \in Workers : taskOpt[w] = t

\* When ~ThreadPool() has returned no worker is inside doWork() any more, no
\* task is in flight and no future is left pending: whoever is blocked in
\* get() is released, if only by a broken promise.
DestroyedMeansResolved ==
    owner = "destroyed" =>
        /\ \A w \in Workers : pc[w] = "exited" /\ taskOpt[w] = NoTask
        /\ \A t \in Tasks : future[t] # "pending"

\* Once isRunning_ is cleared a worker takes at most one more task, however
\* many are queued: the loop condition is tested between any two pops.
LateTasks == \A w \in Workers : late[w] <= 1

\* Nobody sleeps through work: while the queue of a running pool of at least
\* two workers holds a task, a worker is awake and has yet to look at the
\* queue, or a client still has a notify_one() to make.
SomeoneAwake ==
    (/\ isRunning
     /\ workQueue # <<>>
     /\ \E v, w \in Workers : v # w) =>
        \/ \E w \in Workers : pc[w] \notin {"wait", "waiting"}
        \/ \E c \in Clients : cpc[c] = "notify"

\* FIFO start, at most |Workers| at a time, discarded only by the destructor:
\* the pool is a TaskPool.
InHand == {taskOpt[w] : w \in Workers} \ {NoTask}

Phase == CASE owner = "alive" -> "open"
           [] owner = "destroyed" -> "closed"
           [] OTHER -> "closing"

Abstract == INSTANCE TaskPool WITH
    Width <- Cardinality(Workers),
    accepted <- workQueue,
    running <- InHand,
    outcome <- future,
    phase <- Phase

ImplementsTaskPool == Abstract!Spec

\* A pool of two workers or more loses no wakeup for good (SomeoneAwake is the
\* safety half of the reason): notify_one() may find nobody asleep while one
\* worker, its test of the queue behind it, is about to sleep, but mtx_ makes
\* it the only one, and any other worker still has to look at the queue.
QueueDrains ==
    \A t \in Tasks :
        t \in Elems(workQueue) ~> (t \notin Elems(workQueue) \/ ~isRunning)

\* Shutdown ends whenever, at the time of join, no worker sleeps or is on its
\* way from the test of isRunning_ to cv_.wait().
ShutdownPastCheck ==
    (/\ owner = "join"
     /\ \A w \in Workers : pc[w] \notin {"lock", "check", "wait", "waiting"})
        ~> owner = "destroyed"

\* test_gtest_threadpool.cpp, ConstructionAndDestruction: the destructor of a
\* pool returns.
DestructorReturns == owner = "notify" ~> owner = "destroyed"
=============================================================================
