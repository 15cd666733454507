------------------------------ MODULE IoUring ------------------------------
(***************************************************************************)
(* IoUringContext and its awaiters (coroutine/io_uring_async.h).           *)
(*                                                                         *)
(* Coroutines suspend on reads, writes and fsyncs.  await_suspend() takes  *)
(* an entry of the submission queue, fills it, gives it a callback and     *)
(* submits.  A polling thread (or the caller of poll_completions()) takes  *)
(* completions and calls back, which resumes the coroutine on its own      *)
(* thread, where it goes on to its next operation.  So the thread that     *)
(* launches coroutines and the polling thread both submit, without a lock. *)
(*                                                                         *)
(* The rings belong to liburing and the kernel: a ring of Entries slots    *)
(* that keep their content, a tail that get_sqe() moves, a head that       *)
(* submission moves, completions in any order.                             *)
(***************************************************************************)
EXTENDS Integers, Sequences, SequencesExt, FiniteSets

CONSTANTS
  Tasks,        \* the coroutines
  Program,      \* [Tasks -> what each awaits]: a sequence of records
                \* [kind, ok, err], the positions that follow (0: the end)
  Entries,      \* slots of the submission queue
  MaxFailures,  \* bound: submissions that the kernel does not take whole
  MaxStarts     \* bound: calls of start(), and of stop()

ASSUME EntriesAssumption == Entries \in Nat \ {0}
ASSUME BoundsAssumption == MaxFailures \in Nat /\ MaxStarts \in Nat
ASSUME ProgramAssumption ==
  /\ Program \in [Tasks -> Seq([kind : {"read", "write", "fsync"}, ok : Nat, err : Nat])]
  /\ \A t \in Tasks : Program[t] # <<>>
  /\ \A t \in Tasks : \A p \in DOMAIN Program[t] :
       {Program[t][p].ok, Program[t][p].err} \subseteq {0} \cup (p + 1 .. Len(Program[t]))

VARIABLES
  sqes, sqHead, sqTail,  \* the submission queue
  inflight,              \* what the kernel has taken and not completed
  cq,                    \* the completion queue
  running,               \* running_
  looping,               \* running_ of the event loop: a thread of the caller is in its run()
  pc,                    \* where each thread is
  call,                  \* the call the main thread is in
  task,                  \* the coroutine a thread executes, or Nop
  next,                  \* the position of the entry that get_sqe() returned; 0 outside
  callbacks,             \* the callbacks that exist (new, delete)
  pos,                   \* the operation each coroutine is at; 0: over
  clears,                \* whether io_uring_prep_nop() clears user_data
  failures, starts, stops, \* counters for the bounds
  raced, stale, twice, serial \* history, see below

sq == <<sqes, sqHead, sqTail>>
coroutines == <<pos, callbacks>>
bounds == <<clears, failures, starts, stops>>
past == <<raced, stale, twice, serial>>
vars == <<sq, inflight, cq, running, looping, pc, call, task, next, coroutines, bounds, past>>

Threads == {"main", "poll"}
Null == <<>>                                       \* no user_data
Ops == UNION {{<<c, p>> : p \in DOMAIN Program[c]} : c \in Tasks}
Nop == "nop"
Fresh == -1

ASSUME NopAssumption == Nop \notin Tasks

Submitting == {"prepare", "submit"}        \* between get_sqe() and the end of submit()
Current(t) == <<task[t], pos[task[t]]>>
Slot(n) == n % Entries
Active(c) == pos[c] \notin {Fresh, 0}

Init ==
  /\ sqes = [s \in 0 .. Entries - 1 |-> [req |-> Null, data |-> Null]]
  /\ sqHead = 0 /\ sqTail = 0
  /\ inflight = <<>> /\ cq = <<>>
  /\ running = FALSE /\ looping = FALSE
  /\ pc = [t \in Threads |-> IF t = "main" THEN "idle" ELSE "none"]
  /\ call = "none"
  /\ task = [t \in Threads |-> Nop]
  /\ next = [t \in Threads |-> 0]
  /\ callbacks = {}
  /\ pos = [c \in Tasks |-> Fresh]
  /\ clears \in BOOLEAN
  /\ failures = 0 /\ starts = 0 /\ stops = 0
  /\ raced = FALSE /\ stale = FALSE /\ twice = FALSE /\ serial = TRUE
----------------------------------------------------------------------------
(***************************************************************************)
(* Submission                                                              *)
(***************************************************************************)

\* a thread goes on where it was when it resumed a coroutine that has now suspended or
\* ended, or, with its NOP submitted, in stop()
Return(t) ==
  /\ pc' = [pc EXCEPT ![t] = IF t = "poll" THEN "seen" ELSE
                               CASE call = "launch" -> "idle"
                                 [] call = "poll" -> "seen"
                                 [] call = "stop" -> "join"]
  /\ call' = IF t = "main" /\ call = "launch" THEN "none" ELSE call
  /\ task' = [task EXCEPT ![t] = Nop]

\* coroutine c, resumed on thread t with a result, goes on to its next operation
GoOn(t, c, res) ==
  LET step == Program[c][pos[c]]
      to == IF res = "ok" THEN step.ok ELSE step.err
  IN  /\ pos' = [pos EXCEPT ![c] = to]
      /\ IF to = 0 THEN Return(t)
         ELSE /\ pc' = [pc EXCEPT ![t] = "get"]
              /\ task' = [task EXCEPT ![t] = c]
              /\ UNCHANGED call

Room == sqTail - sqHead < Entries

\* io_uring_get_sqe() moves the tail.  If the other thread is in the queue as well, between
\* its own get_sqe() and the end of its submit(), this is a data race: either may get
\* the other's slot, or submit it before it is filled.  The model notes it and stops there.
GetSqe(t) ==
  /\ pc[t] = "get"
  /\ Room
  /\ next' = [next EXCEPT ![t] = sqTail]
  /\ sqTail' = sqTail + 1
  /\ pc' = [pc EXCEPT ![t] = "prepare"]
  /\ raced' = (raced \/ \E u \in Threads \ {t} : pc[u] \in Submitting)
  /\ UNCHANGED <<sqes, sqHead, inflight, cq, running, looping, call, task, coroutines, bounds,
                 stale, twice, serial>>

\* the queue is full: the awaiter resumes its coroutine from within await_suspend()
QueueFull(t) ==
  /\ pc[t] = "get" /\ task[t] # Nop
  /\ ~Room
  /\ GoOn(t, task[t], "EAGAIN")
  /\ UNCHANGED <<sq, inflight, cq, running, looping, next, callbacks, bounds, past>>

\* a mistake: io_uring_sqe_set_data() is forgotten
Bug_Prepare(t) ==
  /\ pc[t] = "prepare" /\ task[t] # Nop
  /\ sqes' = [sqes EXCEPT ![Slot(next[t])] = [req |-> Current(t), data |-> Null]]
  /\ callbacks' = callbacks \cup {Current(t)}
  /\ pc' = [pc EXCEPT ![t] = "submit"]
  /\ UNCHANGED <<sqHead, sqTail, inflight, cq, running, looping, call, task, next, pos, bounds, past>>

\* io_uring_prep_read(), _write(), _fsync() and io_uring_sqe_set_data()
Prepare(t) ==
  /\ pc[t] = "prepare" /\ task[t] # Nop
  /\ sqes' = [sqes EXCEPT ![Slot(next[t])] = [req |-> Current(t), data |-> Current(t)]]
  /\ callbacks' = callbacks \cup {Current(t)}
  /\ pc' = [pc EXCEPT ![t] = "submit"]
  /\ UNCHANGED <<sqHead, sqTail, inflight, cq, running, looping, call, task, next, pos, bounds, past>>

\* io_uring_prep_nop() in stop(), which sets no data: if the slot keeps that of an earlier
\* operation, its callback is going to be called again, deleted.  The model notes it and stops
PrepareNop ==
  LET slot == Slot(next["main"])
      data == IF clears THEN Null ELSE sqes[slot].data
  IN  /\ pc["main"] = "prepare" /\ task["main"] = Nop
      /\ sqes' = [sqes EXCEPT ![slot] = [req |-> Null, data |-> data]]
      /\ stale' = (stale \/ data # Null)
      /\ pc' = [pc EXCEPT !["main"] = "submit"]
      /\ UNCHANGED <<sqHead, sqTail, inflight, cq, running, looping, call, task, next, coroutines,
                     bounds, raced, twice, serial>>

\* io_uring_submit() gives the kernel all entries up to the tail, or fewer; the
\* code does not look at what it returns
Submit(t) ==
  /\ pc[t] = "submit"
  /\ \E n \in sqHead .. sqTail :
       /\ n < sqTail => failures < MaxFailures
       /\ failures' = IF n < sqTail THEN failures + 1 ELSE failures
       /\ inflight' = inflight \o [i \in 1 .. n - sqHead |-> sqes[Slot(sqHead + i - 1)]]
       /\ sqHead' = n
  /\ next' = [next EXCEPT ![t] = 0]
  /\ Return(t)
  /\ UNCHANGED <<sqes, sqTail, cq, running, looping, coroutines, clears, starts,
                 stops, past>>
----------------------------------------------------------------------------
(***************************************************************************)
(* Completion                                                              *)
(***************************************************************************)

\* the kernel completes any request it has
Complete ==
  \E i \in DOMAIN inflight, res \in {"ok", "err"} :
    LET e == inflight[i] IN
    /\ e.req = Null => res = "ok"
    /\ inflight' = RemoveAt(inflight, i)
    /\ cq' = Append(cq, [data |-> e.data, res |-> res])
    /\ UNCHANGED <<sq, running, looping, pc, call, task, next, coroutines, bounds, past>>

\* the completion that a thread is handling, from its peek to io_uring_cqe_seen(): called, but
\* still in the queue
Called == IF \/ pc["poll"] \in {"get", "prepare", "submit", "seen"}
             \/ call = "poll" /\ pc["main"] # "wait"
          THEN {1} ELSE {}

\* the callback of the first completion resumes its coroutine on this thread
CallBack(t) ==
  LET d == Head(cq).data IN
  /\ pc[t] = "wait" /\ cq # <<>> /\ d # Null /\ Called = {}
  /\ GoOn(t, d[1], Head(cq).res)
  /\ UNCHANGED <<sq, inflight, cq, running, looping, next, callbacks, bounds, past>>

\* no callback: the NOP of stop()
NoCallback(t) ==
  /\ pc[t] = "wait" /\ cq # <<>> /\ Head(cq).data = Null /\ Called = {}
  /\ pc' = [pc EXCEPT ![t] = "seen"]
  /\ UNCHANGED <<sq, inflight, cq, running, looping, call, task, next, coroutines, bounds,
                 past>>

\* A thread gets the completion that the other is handling: its callback is called, and
\* deleted, by both, and the one behind it is lost.  The model notes it and stops there.
TakenTwice(t) ==
  /\ pc[t] = "wait" /\ cq # <<>> /\ Called # {}
  /\ twice' = TRUE
  /\ UNCHANGED <<sq, inflight, cq, running, looping, pc, call, task, next, coroutines, bounds,
                 raced, stale, serial>>

\* a mistake: io_uring_cqe_seen() is forgotten
Bug_Seen(t) ==
  /\ pc[t] = "seen"
  /\ callbacks' = callbacks \ {Head(cq).data}
  /\ pc' = [pc EXCEPT ![t] = IF t = "poll" THEN "loop" ELSE "wait"]
  /\ UNCHANGED <<sq, inflight, cq, running, looping, call, task, next, pos, bounds,
                 past>>

\* delete callback; io_uring_cqe_seen()
Seen(t) ==
  /\ pc[t] = "seen"
  /\ callbacks' = callbacks \ {Head(cq).data}
  /\ cq' = Tail(cq)
  /\ pc' = [pc EXCEPT ![t] = IF t = "poll" THEN "loop" ELSE "wait"]
  /\ UNCHANGED <<sq, inflight, running, looping, call, task, next, pos, bounds,
                 past>>

\* the polling thread: while (running_)
Loop ==
  /\ pc["poll"] = "loop"
  /\ pc' = [pc EXCEPT !["poll"] = IF running THEN "wait" ELSE "ended"]
  /\ UNCHANGED <<sq, inflight, cq, running, looping, call, task, next, coroutines, bounds,
                 past>>

\* io_uring_wait_cqe() is interrupted: continue
WaitFails ==
  /\ pc["poll"] = "wait" /\ cq = <<>>
  /\ pc' = [pc EXCEPT !["poll"] = "loop"]
  /\ UNCHANGED <<sq, inflight, cq, running, looping, call, task, next, coroutines, bounds,
                 past>>
----------------------------------------------------------------------------
(***************************************************************************)
(* The thread that owns the context                                        *)
(***************************************************************************)

Start ==
  /\ pc["main"] = "idle" /\ pc["poll"] = "none" /\ starts < MaxStarts
  /\ running' = TRUE
  /\ starts' = starts + 1
  /\ pc' = [pc EXCEPT !["poll"] = "loop"]
  /\ UNCHANGED <<sq, inflight, cq, looping, call, task, next, coroutines, clears, failures,
                 stops, past>>

\* a coroutine runs to its first operation
Launch(c) ==
  /\ pc["main"] = "idle" /\ pos[c] = Fresh
  /\ pos' = [pos EXCEPT ![c] = 1]
  /\ task' = [task EXCEPT !["main"] = c]
  /\ call' = "launch"
  /\ pc' = [pc EXCEPT !["main"] = "get"]
  /\ serial' = (serial /\ ~\E d \in Tasks : Active(d))
  /\ UNCHANGED <<sq, inflight, cq, running, looping, next, callbacks, bounds,
                 raced, stale, twice>>

\* poll_completions(), which the owner may call whether or not the polling thread runs
PollCompletions ==
  /\ pc["main"] = "idle" /\ cq # <<>>
  /\ call' = "poll"
  /\ pc' = [pc EXCEPT !["main"] = "wait"]
  /\ UNCHANGED <<sq, inflight, cq, running, looping, task, next, coroutines, bounds, past>>

\* no more completions
Peeked ==
  /\ pc["main"] = "wait" /\ cq = <<>>
  /\ pc' = [pc EXCEPT !["main"] = "idle"]
  /\ call' = "none"
  /\ UNCHANGED <<sq, inflight, cq, running, looping, task, next, coroutines, bounds,
                 past>>

\* a mistake: running_ is cleared after the join
Bug_Stop ==
  /\ pc["main"] = "idle" /\ stops < MaxStarts
  /\ stops' = stops + 1
  /\ call' = "stop"
  /\ pc' = [pc EXCEPT !["main"] = "get"]
  /\ serial' = (serial /\ ~\E c \in Tasks : Active(c))
  /\ UNCHANGED <<sq, inflight, cq, running, looping, task, next, coroutines, clears, failures,
                 starts, raced, stale, twice>>

\* stop(): running_ = false
Stop ==
  /\ pc["main"] = "idle" /\ stops < MaxStarts
  /\ stops' = stops + 1
  /\ running' = FALSE
  /\ call' = "stop"
  /\ pc' = [pc EXCEPT !["main"] = "get"]
  /\ serial' = (serial /\ ~\E c \in Tasks : Active(c))
  /\ UNCHANGED <<sq, inflight, cq, looping, task, next, coroutines, clears, failures,
                 starts, raced, stale, twice>>

\* stop() gets no entry for its NOP and joins without it
NoNop ==
  /\ pc["main"] = "get" /\ task["main"] = Nop
  /\ ~Room
  /\ pc' = [pc EXCEPT !["main"] = "join"]
  /\ UNCHANGED <<sq, inflight, cq, running, looping, call, task, next, coroutines, bounds,
                 past>>

\* event_loop().run() on another thread of the caller.  Only the end of stop() has to do with
\* it, so that it is enough to let it begin when stop() has come to the join.
RunLoop ==
  /\ pc["main"] = "join" /\ ~looping
  /\ looping' = TRUE
  /\ UNCHANGED <<sq, inflight, cq, running, pc, call, task, next, coroutines, bounds, past>>

\* if (thread_.joinable()) thread_.join(); loop_.stop()
Join ==
  /\ pc["main"] = "join" /\ pc["poll"] \in {"none", "ended"}
  /\ pc' = [main |-> "idle", poll |-> "none"]
  /\ call' = "none"
  /\ looping' = FALSE
  /\ UNCHANGED <<sq, inflight, cq, running, task, next, coroutines, bounds,
                 past>>

\* the steps of the queues and of the threads that use them
Work ==
  \/ \E t \in Threads :
       \/ GetSqe(t) \/ QueueFull(t) \/ Prepare(t) \/ Submit(t)
       \/ CallBack(t) \/ NoCallback(t) \/ Seen(t)
  \/ PrepareNop \/ NoNop \/ Join
  \/ Complete
  \/ Loop \/ WaitFails
  \/ Start \/ Stop \/ PollCompletions \/ Peeked
  \/ \E c \in Tasks : Launch(c)

Step == Work \/ RunLoop \/ \E t \in Threads : TakenTwice(t)

\* no two threads were in the submission queue or took completions at once, and no NOP took
\* over user_data
Sane == ~raced /\ ~stale /\ ~twice

Next == Sane /\ Step

\* a thread inside a call, or inside the polling loop, goes on
ThreadStep(t) ==
  \/ GetSqe(t) \/ QueueFull(t) \/ Prepare(t) \/ Submit(t)
  \/ CallBack(t) \/ NoCallback(t) \/ TakenTwice(t) \/ Seen(t)
MainStep == ThreadStep("main") \/ PrepareNop \/ NoNop \/ Join \/ Peeked
PollStep == ThreadStep("poll") \/ Loop

\* the threads run, and the kernel completes what it has taken
Fairness ==
  /\ WF_vars(Sane /\ MainStep)
  /\ WF_vars(Sane /\ PollStep)
  /\ WF_vars(Sane /\ Complete)

Spec == Init /\ [][Next]_vars /\ Fairness
----------------------------------------------------------------------------
(***************************************************************************)
(* Properties                                                              *)
(***************************************************************************)

\* the entries between head and tail that their threads have filled
Filled == {n \in sqHead .. sqTail - 1 :
            ~\E t \in Threads : pc[t] = "prepare" /\ next[t] = n}

\* where an operation is: to be submitted, in the kernel, completed
Places(o) ==
  {<<"sq", n>> : n \in {n \in Filled : sqes[Slot(n)].data = o}}
    \cup {<<"kernel", i>> : i \in {i \in DOMAIN inflight : inflight[i].data = o}}
    \cup {<<"cq", i>> : i \in {i \in DOMAIN cq \ Called : cq[i].data = o}}

\* the coroutine has handed over its operation and not been resumed
Suspended(o) ==
  /\ pos[o[1]] = o[2]
  /\ ~\E t \in Threads : task[t] = o[1] /\ pc[t] \in {"get", "prepare"}

TypeOK ==
  /\ sqes \in [0 .. Entries - 1 -> [req : Ops \cup {Null}, data : Ops \cup {Null}]]
  /\ sqHead \in Nat /\ sqTail \in Nat
  /\ inflight \in Seq([req : Ops \cup {Null}, data : Ops \cup {Null}])
  /\ cq \in Seq([data : Ops \cup {Null}, res : {"ok", "err"}])
  /\ running \in BOOLEAN /\ looping \in BOOLEAN /\ clears \in BOOLEAN
  /\ callbacks \subseteq Ops
  /\ DOMAIN pos = Tasks /\ \A c \in Tasks : pos[c] \in {Fresh, 0} \cup DOMAIN Program[c]

\* A coroutine that waits has its operation in one place; one that does not has none
\* left anywhere that could resume it again.
OnePlace ==
  Sane => \A o \in Ops : Cardinality(Places(o)) = IF Suspended(o) THEN 1 ELSE 0

\* A callback exists from the preparation to the end of its call, and no longer.
CallbacksAlive ==
  Sane => callbacks = {o \in Ops : Suspended(o)} \cup ({cq[i].data : i \in Called} \ {Null})

\* The ring never holds more than its entries.
Bounded == sqTail - sqHead \in 0 .. Entries

\* One coroutine at a time, and stop() when it is over: then the queue is never used by two
\* threads at once, although both use it.  The same holds of a context without a thread.
SerialUseIsSafe == (serial \/ starts = 0) => ~raced

\* Two threads take completions at once only if poll_completions() is called beside the
\* polling thread, which its comment does not rule out.
OneConsumer == twice => call = "poll" /\ pc["poll"] # "none"

\* The NOP of stop() can inherit user_data only once the ring has gone round.
StaleNeedsWraparound == stale => ~clears /\ sqTail > Entries

\* what IoUringContext owes its coroutines, read together
UringInv ==
  /\ TypeOK /\ OnePlace /\ CallbacksAlive /\ Bounded
  /\ SerialUseIsSafe /\ OneConsumer /\ StaleNeedsWraparound

\* While the polling thread runs, a coroutine that waits is resumed, unless its entry is
\* still in a queue that the kernel did not take: on the thread that takes its completion, at
\* once, not by a post to the event loop, which nobody need run.
WaitingIsResumed ==
  \A o \in Ops : Suspended(o) ~> (~Suspended(o) \/ ~running \/ sqHead # sqTail \/ ~Sane)

\* stop() ends the polling thread whatever it waits for, unless the kernel refused the NOP
\* and everything else that could wake it; then the event loop is stopped as well.
StopReturns ==
  (pc["main"] = "join" /\ sqHead = sqTail) ~> ((pc["main"] # "join" /\ ~looping) \/ ~Sane)
=============================================================================
