----------------------------- MODULE TaskChain ------------------------------
(***************************************************************************)
(* example/coro/demo_coro_task_chain.cpp and demo_coro_callback_hell.cpp:  *)
(* callbacks of detached threads, awaited one after the other or gathered  *)
(* by when_all.  A demo is a sequence of stages, and a stage the calls     *)
(* that are launched together: a call that is awaited suspends and is      *)
(* resumed by its thread, a call of fetch_data() sleeps where it is        *)
(* started, inside when_all.  Time is counted in tens of milliseconds; a   *)
(* thread may be scheduled late.  Task and when_all are those of the       *)
(* modules SyncAwait and WhenAll, without a resumption between             *)
(* await_ready() and await_suspend(), which here are far from any timer.   *)
(***************************************************************************)
EXTENDS Integers, Sequences

CONSTANT MaxLate  \* bound on how late the threads are in one demo, all together

ASSUME ChainAssumption == MaxLate \in Nat

VARIABLES
    demo,      \* the demo that runs
    stageNo,   \* its stage, Len(Stages[demo]) + 1 when it is over
    launched,  \* how many calls of the stage were launched
    timers,    \* the calls that a detached thread has yet to call back, and when
    results,   \* what each stage returned: the calls whose results are there
    raised,    \* whether await_resume() threw, which ends the demo
    now,       \* steady_clock
    late       \* how late threads have been

chainVars == <<demo, stageNo, launched, timers, results, raised, now, late>>

\* db_query(), cache_get() and http_fetch()
RequestDelay == [cache |-> 3, db |-> 8, invalid |-> 8, http |-> 12]

Delay(c) ==
    CASE c \in DOMAIN RequestDelay -> RequestDelay[c]
      [] c = "read" -> 10 [] c = "read_b" -> 10 [] c = "parse" -> 5
      [] c = "fetch" -> 15 [] c = "write" -> 8
      [] c = "A" -> 10 [] c = "B" -> 15 [] c = "C" -> 8 [] c = "name" -> 5 [] c = "age" -> 10

\* fetch_data(), which does not suspend
Sleeps == {"A", "B", "C", "name", "age"}

Chains == [pipeline |-> << <<"read">>, <<"parse">>, <<"fetch">>, <<"write">> >>,
           vector   |-> << <<"A", "B", "C">> >>,
           pair     |-> << <<"name", "age">> >>,
           parallel |-> << <<"read", "read_b">>, <<"parse">> >>]

\* handle_request_callback(), which nests what handle_request_coroutine() awaits in turn
Nested == << <<"cache">>, <<"db">>, <<"http">> >>
Requests == [callback |-> Nested, coroutine |-> Nested, with_error |-> << <<"invalid">> >>]

Stages == [d \in DOMAIN Chains \cup DOMAIN Requests |->
             IF d \in DOMAIN Chains THEN Chains[d] ELSE Requests[d]]

Calls == Stages[demo][stageNo]

ChainInit ==
    /\ demo \in DOMAIN Stages
    /\ stageNo = 1
    /\ launched = 0
    /\ timers = {}
    /\ results = [s \in DOMAIN Stages[demo] |-> {}]
    /\ raised = FALSE
    /\ now = 0
    /\ late = 0

Running == stageNo <= Len(Stages[demo]) /\ ~raised

\* await_suspend() starts a thread with the callback, and control goes on to the next child.
LaunchAsync ==
    /\ Running
    /\ launched < Len(Calls)
    /\ Calls[launched + 1] \notin Sleeps
    /\ launched' = launched + 1
    /\ timers' = timers \cup {<<Calls[launched + 1], now + Delay(Calls[launched + 1])>>}
    /\ UNCHANGED <<demo, stageNo, results, raised, now, late>>

\* A mistake that the property below must tell from the code: fetch_data() suspends.
Bug_LaunchSleep ==
    /\ Running
    /\ launched < Len(Calls)
    /\ Calls[launched + 1] \in Sleeps
    /\ launched' = launched + 1
    /\ timers' = timers \cup {<<Calls[launched + 1], now + Delay(Calls[launched + 1])>>}
    /\ UNCHANGED <<demo, stageNo, results, raised, now, late>>

\* The child sleeps, and only then the next one is started.
LaunchSleep ==
    /\ Running
    /\ launched < Len(Calls)
    /\ Calls[launched + 1] \in Sleeps
    /\ now' = now + Delay(Calls[launched + 1])
    /\ results' = [results EXCEPT ![stageNo] = @ \cup {Calls[launched + 1]}]
    /\ IF launched + 1 = Len(Calls)
         THEN stageNo' = stageNo + 1 /\ launched' = 0
         ELSE launched' = launched + 1 /\ UNCHANGED stageNo
    /\ UNCHANGED <<demo, timers, raised, late>>

Later(a, b) == IF a < b THEN b ELSE a

\* A thread calls back: the result is stored and the handle resumed, unless siblings are
\* waited for.  An error of the data base is rethrown by await_resume().
CallBackOf(t, l) ==
    /\ Running
    /\ launched = Len(Calls)
    /\ t \in timers
    /\ late + l <= MaxLate
    /\ \A u \in timers : t[2] <= u[2]
    /\ timers' = timers \ {t}
    /\ now' = Later(now, t[2] + l)
    /\ late' = late + l
    /\ raised' = (t[1] = "invalid")
    /\ results' = [results EXCEPT ![stageNo] = IF raised' THEN @ ELSE @ \cup {t[1]}]
    /\ IF timers' = {} /\ ~raised'
         THEN stageNo' = stageNo + 1 /\ launched' = 0
         ELSE UNCHANGED <<stageNo, launched>>
    /\ UNCHANGED demo

ChainNext ==
    \/ LaunchAsync
    \/ LaunchSleep
    \/ \E t \in timers, l \in 0 .. MaxLate : CallBackOf(t, l)

ChainSpec == ChainInit /\ [][ChainNext]_chainVars

-----------------------------------------------------------------------------
(* Properties *)

Elements(s) == {s[k] : k \in DOMAIN s}

ChainTypeOK ==
    /\ stageNo \in 1 .. Len(Stages[demo]) + 1
    /\ Running => launched \in 0 .. Len(Calls)
    /\ late \in 0 .. MaxLate

\* A stage starts when the stages before it have all of their results, and none is started
\* after an exception.
StagesInOrder ==
    /\ \A s \in DOMAIN Stages[demo] : s < stageNo => results[s] = Elements(Stages[demo][s])
    /\ \A s \in DOMAIN Stages[demo] : s > stageNo => results[s] = {}
    /\ raised => stageNo = 1 /\ timers = {}

\* The reads of a when_all overlap; those that fetch_data() only simulates do not: the vector
\* demo takes the sum of its delays, where its comment promises the longest.
TimeTaken ==
    stageNo > Len(Stages[demo]) =>
      CASE demo = "vector" -> now = Delay("A") + Delay("B") + Delay("C")
        [] demo = "pair" -> now = Delay("name") + Delay("age")
        [] demo = "parallel" -> now \in 15 .. 15 + late
        [] demo = "pipeline" -> now = 38 + late
        [] OTHER -> now = 23 + late

\* Tasks and callbacks run in the order in which they are written, in the time that their
\* timers take, whichever thread resumes them.
ChainCorrect == ChainTypeOK /\ StagesInOrder /\ TimeTaken
=============================================================================
