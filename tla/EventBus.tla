------------------------------ MODULE EventBus ------------------------------
(***************************************************************************)
(* include/skutils/event_manager.h: the threads of the EventBus. Four      *)
(* workers take events from a TaskQueue; a timer thread holds back the     *)
(* delayed ones until their time; Stop() ends them all.                    *)
(*                                                                         *)
(* TaskQueue::mtx guards queue and stopped, and is released only by the    *)
(* end of the call or by cv.wait: each critical section is a step, the     *)
(* notification after it another. The same holds of timerMutex_ between    *)
(* the timer thread and PublishDelayed(); Stop() does not take it.         *)
(* What Publish() then does with the handlers is the module Subscriptions. *)
(***************************************************************************)
EXTENDS Integers, Sequences, FiniteSets

CONSTANTS
    Workers,    \* workers_ (four in the code)
    Publishers, \* threads that call PublishAsync() and PublishDelayed()
    Events,     \* each is published at most once
    Delays,     \* the values of delayMs, in ticks
    NoEvent,    \* std::nullopt
    MaxTime     \* bound on the clock

ASSUME WorkersAssumption == Workers # {}
ASSUME DelaysAssumption == Delays \subseteq Nat
ASSUME MaxTimeAssumption == MaxTime \in Nat
ASSUME NoEventAssumption == NoEvent \notin Events

VARIABLES
    queue,      \* workerQueue_.queue, front first
    stopped,    \* workerQueue_.stopped
    wpc,        \* each worker: "pop", "sleeping", "running", "exited"
    wtask,      \* the event a worker is publishing
    timerQueue, \* the events in timerQueue_
    due,        \* the timePoint of each delayed event
    tpc,        \* the timer thread: "test", "decide", "waiting", "waitUntil",
                \*   "publish", "notify", "exited"
    ttask,      \* the event it took from timerQueue_
    until,      \* the time point of its wait_until()
    now,        \* std::chrono::steady_clock
    ppc,        \* each publisher: "idle", or "notify" inside Push()
    status,     \* history: where each event is
    stop_,      \* std::atomic<bool> stop_
    main        \* Stop(): "up", "stopping", "qnotify", "join", "tnotify",
                \*   "tjoin", "destroyed"

queueVars == <<queue, stopped>>
timerVars == <<timerQueue, due, tpc, ttask, until>>
vars == <<queue, stopped, wpc, wtask, timerQueue, due, tpc, ttask, until, now,
          ppc, status, stop_, main>>

Elems(s) == {s[i] : i \in 1 .. Len(s)}
Sleeping == {w \in Workers : wpc[w] = "sleeping"}

Init ==
    /\ queue = <<>>
    /\ stopped = FALSE
    /\ wpc = [w \in Workers |-> "pop"]
    /\ wtask = [w \in Workers |-> NoEvent]
    /\ timerQueue = {}
    /\ due = [e \in Events |-> 0]
    /\ tpc = "test"
    /\ ttask = NoEvent
    /\ until = 0
    /\ now = 0
    /\ ppc = [p \in Publishers |-> "idle"]
    /\ status = [e \in Events |-> "none"]
    /\ stop_ = FALSE
    /\ main = "up"

-----------------------------------------------------------------------------
(* TaskQueue *)

\* A mistake, which no action uses: Push() without the test of stopped.
Bug_Push(e) ==
    /\ queue' = Append(queue, e)
    /\ status' = [status EXCEPT ![e] = "queued"]

\* The critical section of Push(): a stopped queue drops the task.
Push(e) ==
    IF stopped
      THEN /\ status' = [status EXCEPT ![e] = "dropped"]
           /\ UNCHANGED queue
      ELSE /\ queue' = Append(queue, e)
           /\ status' = [status EXCEPT ![e] = "queued"]

\* cv.notify_one(): wakes one of the sleeping workers, or nobody.
NotifyOne ==
    \/ Sleeping = {} /\ UNCHANGED wpc
    \/ \E w \in Sleeping : wpc' = [wpc EXCEPT ![w] = "pop"]

\* The earliest of the delayed events, any of them when several are.
Tops == {e \in timerQueue : \A f \in timerQueue : due[e] <= due[f]}

-----------------------------------------------------------------------------
(* Mistakes that the properties below must tell from the code; no action of  *)
(* the specification uses them.                                              *)

\* Pop() leaves as soon as the queue is stopped
Bug_Pop(w) ==
    /\ wpc[w] = "pop"
    /\ IF stopped
         THEN /\ wpc' = [wpc EXCEPT ![w] = "exited"]
              /\ UNCHANGED <<queue, wtask, status>>
         ELSE IF queue = <<>>
         THEN /\ wpc' = [wpc EXCEPT ![w] = "sleeping"]
              /\ UNCHANGED <<queue, wtask, status>>
         ELSE /\ wpc' = [wpc EXCEPT ![w] = "running"]
              /\ wtask' = [wtask EXCEPT ![w] = Head(queue)]
              /\ queue' = Tail(queue)
              /\ status' = [status EXCEPT ![Head(queue)] = "running"]
    /\ UNCHANGED <<stopped, timerVars, now, ppc, stop_, main>>

\* the timer thread takes the top whatever its time
Bug_Decide ==
    /\ tpc = "decide"
    /\ \/ /\ timerQueue = {}
          /\ tpc' = "waiting"
          /\ UNCHANGED <<timerQueue, ttask, status>>
       \/ \E e \in Tops :
             /\ timerQueue' = timerQueue \ {e}
             /\ ttask' = e
             /\ status' = [status EXCEPT ![e] = "fired"]
             /\ tpc' = "publish"
    /\ UNCHANGED <<queueVars, wpc, wtask, due, until, now, ppc, stop_, main>>

\* PublishDelayed() without notify_one()
Bug_PublishDelayed(p, e, d) ==
    /\ ppc[p] = "idle"
    /\ main # "destroyed"
    /\ status[e] = "none"
    /\ now + d <= MaxTime
    /\ timerQueue' = timerQueue \cup {e}
    /\ due' = [due EXCEPT ![e] = now + d]
    /\ status' = [status EXCEPT ![e] = "timer"]
    /\ UNCHANGED <<queueVars, wpc, wtask, tpc, ttask, until, now, ppc, stop_, main>>

\* notify_one() in TaskQueue::Stop()
Bug_QueueNotifyAll ==
    /\ main = "qnotify"
    /\ main' = "join"
    /\ NotifyOne
    /\ UNCHANGED <<queueVars, wtask, timerVars, now, ppc, status, stop_>>

\* stop_ is looked at only while there is a timer: while (!stop_ || empty())
Bug_TimerTest ==
    /\ tpc = "test"
    /\ tpc' = IF stop_ /\ timerQueue # {} THEN "exited" ELSE "decide"
    /\ UNCHANGED <<queueVars, wpc, wtask, timerQueue, due, ttask, until, now, ppc,
                   status, stop_, main>>

-----------------------------------------------------------------------------
(* The workers *)

\* TaskQueue::Pop(): waits until there is a task or the queue is stopped, and
\* ends the worker only when it is stopped and empty.
Pop(w) ==
    /\ wpc[w] = "pop"
    /\ IF queue # <<>>
         THEN /\ wpc' = [wpc EXCEPT ![w] = "running"]
              /\ wtask' = [wtask EXCEPT ![w] = Head(queue)]
              /\ queue' = Tail(queue)
              /\ status' = [status EXCEPT ![Head(queue)] = "running"]
         ELSE /\ wpc' = [wpc EXCEPT ![w] = IF stopped THEN "exited" ELSE "sleeping"]
              /\ UNCHANGED <<queue, wtask, status>>
    /\ UNCHANGED <<stopped, timerVars, now, ppc, stop_, main>>

WorkerSpuriousWake(w) ==
    /\ wpc[w] = "sleeping"
    /\ wpc' = [wpc EXCEPT ![w] = "pop"]
    /\ UNCHANGED <<queueVars, wtask, timerVars, now, ppc, status, stop_, main>>

\* (*task)(): this->Publish(event) calls every handler.
Publish(w) ==
    /\ wpc[w] = "running"
    /\ status' = [status EXCEPT ![wtask[w]] = "delivered"]
    /\ wtask' = [wtask EXCEPT ![w] = NoEvent]
    /\ wpc' = [wpc EXCEPT ![w] = "pop"]
    /\ UNCHANGED <<queueVars, timerVars, now, ppc, stop_, main>>

-----------------------------------------------------------------------------
(* The publishers *)

\* PublishAsync(): the critical section of Push().
PublishAsync(p, e) ==
    /\ ppc[p] = "idle"
    /\ main # "destroyed"
    /\ status[e] = "none"
    /\ Push(e)
    /\ ppc' = [ppc EXCEPT ![p] = IF stopped THEN "idle" ELSE "notify"]
    /\ UNCHANGED <<stopped, wpc, wtask, timerVars, now, stop_, main>>

PublisherNotify(p) ==
    /\ ppc[p] = "notify"
    /\ ppc' = [ppc EXCEPT ![p] = "idle"]
    /\ NotifyOne
    /\ UNCHANGED <<queueVars, wtask, timerVars, now, status, stop_, main>>

\* PublishDelayed(): push and notify_one() under timerMutex_.
PublishDelayed(p, e, d) ==
    /\ ppc[p] = "idle"
    /\ main # "destroyed"
    /\ status[e] = "none"
    /\ now + d <= MaxTime
    /\ timerQueue' = timerQueue \cup {e}
    /\ due' = [due EXCEPT ![e] = now + d]
    /\ status' = [status EXCEPT ![e] = "timer"]
    /\ tpc' = IF tpc \in {"waiting", "waitUntil"} THEN "test" ELSE tpc
    /\ UNCHANGED <<queueVars, wpc, wtask, ttask, until, now, ppc, stop_, main>>

-----------------------------------------------------------------------------
(* The timer thread *)

\* while (!stop_)
TimerTest ==
    /\ tpc = "test"
    /\ tpc' = IF stop_ THEN "exited" ELSE "decide"
    /\ UNCHANGED <<queueVars, wpc, wtask, timerQueue, due, ttask, until, now, ppc,
                   status, stop_, main>>

\* With timerMutex_ held: wait for a notification if there is no timer, take
\* the top if its time has come, wait until then otherwise.
Decide ==
    /\ tpc = "decide"
    /\ \/ /\ timerQueue = {}
          /\ tpc' = "waiting"
          /\ UNCHANGED <<timerQueue, ttask, until, status>>
       \/ \E e \in Tops :
             /\ now >= due[e]
             /\ timerQueue' = timerQueue \ {e}
             /\ ttask' = e
             /\ status' = [status EXCEPT ![e] = "fired"]
             /\ tpc' = "publish"
             /\ UNCHANGED until
       \/ \E e \in Tops :
             /\ now < due[e]
             /\ until' = due[e]
             /\ tpc' = "waitUntil"
             /\ UNCHANGED <<timerQueue, ttask, status>>
    /\ UNCHANGED <<queueVars, wpc, wtask, due, now, ppc, stop_, main>>

\* wait_until() times out.
TimerTimeout ==
    /\ tpc = "waitUntil"
    /\ now >= until
    /\ tpc' = "test"
    /\ UNCHANGED <<queueVars, wpc, wtask, timerQueue, due, ttask, until, now, ppc,
                   status, stop_, main>>

TimerSpuriousWake ==
    /\ tpc \in {"waiting", "waitUntil"}
    /\ tpc' = "test"
    /\ UNCHANGED <<queueVars, wpc, wtask, timerQueue, due, ttask, until, now, ppc,
                   status, stop_, main>>

\* task(): PublishAsync() from the timer thread.
TimerPublish ==
    /\ tpc = "publish"
    /\ Push(ttask)
    /\ ttask' = NoEvent
    /\ tpc' = IF stopped THEN "test" ELSE "notify"
    /\ UNCHANGED <<stopped, wpc, wtask, timerQueue, due, until, now, ppc, stop_, main>>

TimerNotify ==
    /\ tpc = "notify"
    /\ tpc' = "test"
    /\ NotifyOne
    /\ UNCHANGED <<queueVars, wtask, timerQueue, due, ttask, until, now, ppc, status,
                   stop_, main>>

Tick ==
    /\ now < MaxTime
    /\ now' = now + 1
    /\ UNCHANGED <<queueVars, wpc, wtask, timerVars, ppc, status, stop_, main>>

-----------------------------------------------------------------------------
(* Stop(), called by the destructor *)

\* stop_.exchange(true)
Exchange ==
    /\ main = "up"
    /\ stop_' = TRUE
    /\ main' = "stopping"
    /\ UNCHANGED <<queueVars, wpc, wtask, timerVars, now, ppc, status>>

\* TaskQueue::Stop(): stopped = true under its mutex.
QueueStop ==
    /\ main = "stopping"
    /\ stopped' = TRUE
    /\ main' = "qnotify"
    /\ UNCHANGED <<queue, wpc, wtask, timerVars, now, ppc, status, stop_>>

\* TaskQueue::Stop(): cv.notify_all()
QueueNotifyAll ==
    /\ main = "qnotify"
    /\ wpc' = [w \in Workers |-> IF w \in Sleeping THEN "pop" ELSE wpc[w]]
    /\ main' = "join"
    /\ UNCHANGED <<queueVars, wtask, timerVars, now, ppc, status, stop_>>

JoinWorkers ==
    /\ main = "join"
    /\ \A w \in Workers : wpc[w] = "exited"
    /\ main' = "tnotify"
    /\ UNCHANGED <<queueVars, wpc, wtask, timerVars, now, ppc, status, stop_>>

\* timerCv_.notify_all(), without timerMutex_.
TimerNotifyAll ==
    /\ main = "tnotify"
    /\ tpc' = IF tpc \in {"waiting", "waitUntil"} THEN "test" ELSE tpc
    /\ main' = "tjoin"
    /\ UNCHANGED <<queueVars, wpc, wtask, timerQueue, due, ttask, until, now, ppc,
                   status, stop_>>

\* timerThread_.join(); the members are destroyed, the timers left over too.
\* Nobody may be inside a member function then.
JoinTimer ==
    /\ main = "tjoin"
    /\ tpc = "exited"
    /\ \A p \in Publishers : ppc[p] = "idle"
    /\ main' = "destroyed"
    /\ timerQueue' = {}
    /\ status' = [e \in Events |-> IF e \in timerQueue THEN "dropped" ELSE status[e]]
    /\ UNCHANGED <<queueVars, wpc, wtask, due, tpc, ttask, until, now, ppc, stop_>>

-----------------------------------------------------------------------------
WorkerStep(w) == Pop(w) \/ Publish(w)
TimerStep == TimerTest \/ Decide \/ TimerTimeout \/ TimerPublish \/ TimerNotify
StopStep == QueueStop \/ QueueNotifyAll \/ JoinWorkers \/ TimerNotifyAll \/ JoinTimer

Next ==
    \/ \E w \in Workers : WorkerStep(w) \/ WorkerSpuriousWake(w)
    \/ \E p \in Publishers : PublisherNotify(p)
    \/ \E p \in Publishers, e \in Events :
          \/ PublishAsync(p, e)
          \/ \E d \in Delays : PublishDelayed(p, e, d)
    \/ TimerStep \/ TimerSpuriousWake \/ Tick
    \/ Exchange \/ StopStep

\* The threads run, time passes, handlers return, and a Stop() or Push() once
\* begun goes on. Nobody has to publish or to stop.
Fairness ==
    /\ \A w \in Workers : WF_vars(WorkerStep(w))
    /\ \A p \in Publishers : WF_vars(PublisherNotify(p))
    /\ WF_vars(TimerStep)
    /\ WF_vars(Tick)
    /\ WF_vars(StopStep)

Spec == Init /\ [][Next]_vars /\ Fairness

-----------------------------------------------------------------------------
(* Properties *)

\* Every variable has the type its comment gives it.
TypeOK ==
    /\ queue \in Seq(Events)
    /\ stopped \in BOOLEAN
    /\ wpc \in [Workers -> {"pop", "sleeping", "running", "exited"}]
    /\ wtask \in [Workers -> Events \cup {NoEvent}]
    /\ timerQueue \subseteq Events
    /\ due \in [Events -> 0 .. MaxTime]
    /\ tpc \in {"test", "decide", "waiting", "waitUntil", "publish", "notify", "exited"}
    /\ ttask \in Events \cup {NoEvent}
    /\ until \in 0 .. MaxTime
    /\ now \in 0 .. MaxTime
    /\ ppc \in [Publishers -> {"idle", "notify"}]
    /\ status \in [Events -> {"none", "timer", "fired", "queued", "running",
                              "delivered", "dropped"}]
    /\ stop_ \in BOOLEAN
    /\ main \in {"up", "stopping", "qnotify", "join", "tnotify", "tjoin", "destroyed"}

\* An event is in one place at a time, so that its handlers run at most once:
\* among the timers, in the hands of the timer thread, in the queue once, or
\* in the hands of one worker.
OnePlace ==
    /\ \A i, j \in 1 .. Len(queue) : queue[i] = queue[j] => i = j
    /\ \A v, w \in Workers : wtask[v] = wtask[w] /\ wtask[v] # NoEvent => v = w
    /\ \A e \in Events :
          /\ status[e] = "timer" <=> e \in timerQueue
          /\ status[e] = "fired" <=> ttask = e
          /\ status[e] = "queued" <=> e \in Elems(queue)
          /\ status[e] = "running" <=> \E w \in Workers : wtask[w] = e

\* A worker leaves only a queue that is stopped and empty, and which stays
\* empty: nothing that was accepted is left behind by Stop().
DrainedBeforeExit ==
    (\E w \in Workers : wpc[w] = "exited") => stopped /\ queue = <<>>

\* The TaskQueue loses no wakeup: if all the workers that are left sleep over
\* a task, a notify_one() is still to come, and if any sleeps in a stopped
\* queue, so is the notify_all().
NoLostWakeup ==
    /\ (/\ queue # <<>>
        /\ \A w \in Workers : wpc[w] = "sleeping") =>
           \/ \E p \in Publishers : ppc[p] = "notify"
           \/ tpc = "notify"
           \/ main = "qnotify"
    /\ stopped /\ Sleeping # {} => main = "qnotify"

\* Each event is in one place, and wherever it waits in the queue somebody is
\* awake or about to be woken for it.
PlaceInv == TypeOK /\ OnePlace /\ NoLostWakeup

\* A delayed event reaches the queue only after its delay.
NeverEarly ==
    \A e \in Events :
        status[e] \in {"fired", "queued", "running", "delivered"} => now >= due[e]

\* What the bus has accepted is kept in one place until it is published, never
\* before its delay, and neither Stop() nor a lost wakeup leaves it there.
BusInv == PlaceInv /\ DrainedBeforeExit /\ NeverEarly

\* What PublishAsync() accepted is published, even if Stop() comes first.
AcceptedIsDelivered ==
    \A e \in Events : status[e] = "queued" ~> status[e] = "delivered"

\* A delayed event is published unless the bus is stopped, even if the timer
\* thread was waiting for a later one when it came.
DelayedFires ==
    \A e \in Events : status[e] = "timer" ~> (status[e] = "delivered" \/ stop_)

\* Stop() ends if, when it comes to join the timer thread, that thread is not
\* in the plain wait() or about to enter it: notify_all() is not made under
\* timerMutex_, and a thread between its test of stop_ and wait() misses it.
\* A thread in wait_until() is only late: it delays Stop() to the next timer.
StopReturnsPastWait ==
    (/\ main = "tjoin"
     /\ tpc # "waiting"
     /\ ~(tpc = "decide" /\ timerQueue = {}))
        ~> main = "destroyed"
=============================================================================
