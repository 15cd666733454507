--------------------------- MODULE EventBusProofs ---------------------------
(***************************************************************************)
(* The event bus keeps each event it accepted in one place until it is     *)
(* published, never before its delay, and loses none of them to a missed   *)
(* wakeup or to Stop(), for any threads, events and delays. BusInv is not  *)
(* inductive: IInv adds which thread has an event in its hands, how far    *)
(* Stop() has come when the queue is stopped, and that an event which was  *)
(* not delayed has no time to wait for.                                    *)
(***************************************************************************)
EXTENDS EventBus, TLAPS

USE WorkersAssumption, DelaysAssumption, MaxTimeAssumption, NoEventAssumption

\* Who has an event in its hands.
HandsInv ==
    /\ \A w \in Workers : wtask[w] # NoEvent <=> wpc[w] = "running"
    /\ ttask # NoEvent <=> tpc = "publish"

\* Stop() stops the queue between its first two steps and its third.
StopInv == stopped <=> main \notin {"up", "stopping"}

\* due is that of PublishDelayed(), and 0 before it.
DueInv == \A e \in Events : status[e] = "none" => due[e] = 0

IInv ==
    /\ TypeOK
    /\ HandsInv
    /\ StopInv
    /\ DueInv
    /\ OnePlace
    /\ NoLostWakeup
    /\ DrainedBeforeExit
    /\ NeverEarly

-----------------------------------------------------------------------------
NoDup(s) == \A i, j \in 1 .. Len(s) : s[i] = s[j] => i = j

(* A queue without duplicates gives up its front and nothing else, and takes *)
(* a new event at its back.                                                  *)
LEMMA PopFront ==
    ASSUME NEW s \in Seq(Events), s # <<>>, NoDup(s)
    PROVE  /\ Head(s) \in Events /\ Tail(s) \in Seq(Events)
           /\ NoDup(Tail(s))
           /\ Elems(Tail(s)) = Elems(s) \ {Head(s)}
           /\ Head(s) \in Elems(s)
<1>1. /\ Len(s) \in Nat \ {0} /\ Head(s) = s[1] /\ s[1] \in Events
      /\ Tail(s) \in Seq(Events) /\ Len(Tail(s)) = Len(s) - 1
      /\ \A i \in 1 .. Len(Tail(s)) : Tail(s)[i] = s[i + 1]
  OBVIOUS
<1>2. \A i \in 1 .. Len(s) : i # 1 => i - 1 \in 1 .. Len(Tail(s)) /\ Tail(s)[i - 1] = s[i]
  BY <1>1
<1>3. \A i \in 1 .. Len(Tail(s)) : i + 1 \in 1 .. Len(s) /\ i + 1 # 1
  BY <1>1
<1>4. NoDup(Tail(s))
  BY <1>1, <1>3 DEF NoDup
<1>5. Head(s) \in Elems(s) /\ 1 \in 1 .. Len(s)
  BY <1>1 DEF Elems
<1>6. ASSUME NEW e \in Elems(Tail(s)) PROVE e \in Elems(s) \ {Head(s)}
  <2>1. PICK i \in 1 .. Len(Tail(s)) : e = Tail(s)[i]
    BY <1>6 DEF Elems
  <2> QED
    BY <1>1, <1>3, <1>5, <2>1 DEF Elems, NoDup
<1>7. ASSUME NEW e \in Elems(s) \ {Head(s)} PROVE e \in Elems(Tail(s))
  BY <1>1, <1>2, <1>7 DEF Elems
<1> QED
  BY <1>1, <1>4, <1>5, <1>6, <1>7

(* Pushing an event that a queue does not have leaves it without doubles.    *)
LEMMA PushBack ==
    ASSUME NEW s \in Seq(Events), NEW e \in Events, NoDup(s), e \notin Elems(s)
    PROVE  /\ Append(s, e) \in Seq(Events)
           /\ Append(s, e) # <<>>
           /\ NoDup(Append(s, e))
           /\ Elems(Append(s, e)) = Elems(s) \cup {e}
<1> DEFINE t == Append(s, e)
<1>1. /\ t \in Seq(Events) /\ Len(t) = Len(s) + 1 /\ Len(s) \in Nat
      /\ t[Len(s) + 1] = e
      /\ \A i \in 1 .. Len(s) : t[i] = s[i]
  OBVIOUS
<1>2. \A i \in 1 .. Len(t) : i \in 1 .. Len(s) \/ i = Len(s) + 1
  BY <1>1
<1>3. \A i \in 1 .. Len(s) : i \in 1 .. Len(t)
  BY <1>1
<1>4. Len(s) + 1 \in 1 .. Len(t)
  BY <1>1
<1> HIDE DEF t
<1>5. NoDup(t)
  BY <1>1, <1>2 DEF NoDup, Elems
<1>6. Elems(t) = Elems(s) \cup {e}
  BY <1>1, <1>2, <1>3, <1>4 DEF Elems
<1>7. t # <<>>
  BY <1>1, <1>4
<1> QED
  BY <1>1, <1>5, <1>6, <1>7 DEF t

(* An event that nobody has yet is pushed, or dropped by a stopped queue.    *)
LEMMA PushEffect ==
    ASSUME IInv, NEW e \in Events, status[e] \in {"none", "fired"}, Push(e)
    PROVE  /\ queue' \in Seq(Events)
           /\ status' \in [Events -> {"none", "timer", "fired", "queued", "running",
                                     "delivered", "dropped"}]
           /\ NoDup(queue')
           /\ \A f \in Events \ {e} : status'[f] = status[f]
           /\ \A f \in Events \ {e} : (f \in Elems(queue')) = (f \in Elems(queue))
           /\ (e \in Elems(queue')) = ~stopped
           /\ status'[e] = IF stopped THEN "dropped" ELSE "queued"
           /\ stopped => queue' = queue
           /\ ~stopped => queue' # <<>>
<1>1. queue \in Seq(Events) /\ NoDup(queue) /\ e \notin Elems(queue)
  BY DEF IInv, TypeOK, OnePlace, NoDup
<1>2. /\ Append(queue, e) \in Seq(Events) /\ NoDup(Append(queue, e))
      /\ Append(queue, e) # <<>>
      /\ Elems(Append(queue, e)) = Elems(queue) \cup {e}
  BY <1>1, PushBack
<1>3. status \in [Events -> {"none", "timer", "fired", "queued", "running",
                            "delivered", "dropped"}]
  BY DEF IInv, TypeOK
<1>4. CASE stopped
  BY <1>1, <1>3, <1>4 DEF Push
<1>5. CASE ~stopped
  <2>1. queue' = Append(queue, e) /\ status' = [status EXCEPT ![e] = "queued"]
    BY <1>5 DEF Push
  <2>2. /\ queue' \in Seq(Events) /\ NoDup(queue') /\ queue' # <<>>
        /\ Elems(queue') = Elems(queue) \cup {e}
    BY <1>2, <2>1, Zenon
  <2>3. \A f \in Events : status'[f] = IF f = e THEN "queued" ELSE status[f]
    BY <1>3, <2>1
  <2> QED
    BY <1>3, <1>5, <2>1, <2>2, <2>3
<1> QED
  BY <1>4, <1>5

(* A notify_one() changes only wpc, and with somebody asleep it wakes one.   *)
LEMMA NotifyEffect ==
    ASSUME TypeOK, NotifyOne
    PROVE  /\ wpc' \in [Workers -> {"pop", "sleeping", "running", "exited"}]
           /\ \E w \in Workers : wpc'[w] # "sleeping"
           /\ \A w \in Workers : wpc'[w] # wpc[w] => wpc[w] = "sleeping" /\ wpc'[w] = "pop"
<1>1. CASE Sleeping = {} /\ UNCHANGED wpc
  BY <1>1 DEF TypeOK, Sleeping
<1>2. ASSUME NEW w \in Sleeping, wpc' = [wpc EXCEPT ![w] = "pop"]
      PROVE  /\ wpc' \in [Workers -> {"pop", "sleeping", "running", "exited"}]
             /\ \E v \in Workers : wpc'[v] # "sleeping"
             /\ \A v \in Workers : wpc'[v] # wpc[v] => wpc[v] = "sleeping" /\ wpc'[v] = "pop"
  BY <1>2 DEF TypeOK, Sleeping
<1> QED
  BY <1>1, <1>2 DEF NotifyOne

-----------------------------------------------------------------------------
(* The steps of a worker                                                     *)
LEMMA WorkerPreserves ==
    ASSUME IInv, NEW w \in Workers, Pop(w) \/ Publish(w) \/ WorkerSpuriousWake(w)
    PROVE  IInv'
<1> USE DEF queueVars, timerVars
<1>1. CASE Pop(w) /\ queue # <<>>
  <2> DEFINE h == Head(queue)
  <2>1. /\ h \in Events /\ queue' \in Seq(Events) /\ NoDup(queue')
        /\ Elems(queue') = Elems(queue) \ {h} /\ h \in Elems(queue)
    <3>1. queue' = Tail(queue) /\ queue \in Seq(Events) /\ NoDup(queue)
      BY <1>1 DEF Pop, IInv, TypeOK, OnePlace, NoDup
    <3>2. Elems(queue') = Elems(Tail(queue))
      BY <3>1
    <3> QED
      BY <1>1, <3>1, <3>2, PopFront
  <2>2. /\ wpc[w] = "pop" /\ wpc' = [wpc EXCEPT ![w] = "running"]
        /\ wtask' = [wtask EXCEPT ![w] = h]
        /\ status' = [status EXCEPT ![h] = "running"]
        /\ UNCHANGED <<stopped, timerQueue, due, tpc, ttask, until, now, ppc, stop_, main>>
    BY <1>1 DEF Pop
  <2> HIDE DEF h
  <2>3. wtask[w] = NoEvent /\ status[h] = "queued"
    BY <2>1, <2>2 DEF IInv, HandsInv, OnePlace
  <2>4. /\ \A v \in Workers : wpc'[v] = IF v = w THEN "running" ELSE wpc[v]
        /\ \A v \in Workers : wtask'[v] = IF v = w THEN h ELSE wtask[v]
        /\ \A e \in Events : status'[e] = IF e = h THEN "running" ELSE status[e]
    BY <2>1, <2>2 DEF IInv, TypeOK
  <2>5. TypeOK'
    BY <2>1, <2>2 DEF IInv, TypeOK
  <2>6. HandsInv' /\ StopInv' /\ DueInv'
    BY <2>1, <2>2, <2>4 DEF IInv, HandsInv, StopInv, DueInv
  <2>7. OnePlace'
    <3>1. \A u, v \in Workers : wtask'[u] = wtask'[v] /\ wtask'[u] # NoEvent => u = v
      BY <2>3, <2>4, <2>1 DEF IInv, OnePlace
    <3>2. \A e \in Events : status'[e] = "running" <=> \E v \in Workers : wtask'[v] = e
      BY <2>1, <2>3, <2>4 DEF IInv, OnePlace
    <3>3. \A e \in Events : /\ status'[e] = "timer" <=> e \in timerQueue'
                            /\ status'[e] = "fired" <=> ttask' = e
                            /\ status'[e] = "queued" <=> e \in Elems(queue')
      BY <2>1, <2>2, <2>3, <2>4 DEF IInv, OnePlace
    <3> QED
      BY <2>1, <3>1, <3>2, <3>3 DEF OnePlace, NoDup
  <2>8. NoLostWakeup'
    BY <2>2, <2>4 DEF IInv, NoLostWakeup, Sleeping
  <2>9. DrainedBeforeExit'
    BY <1>1, <2>4 DEF IInv, DrainedBeforeExit
  <2>10. NeverEarly'
    BY <2>2, <2>3, <2>4 DEF IInv, NeverEarly
  <2> QED
    BY <2>5, <2>6, <2>7, <2>8, <2>9, <2>10 DEF IInv
<1>2. CASE Pop(w) /\ queue = <<>>
  <2>1. /\ wpc[w] = "pop" /\ wpc' = [wpc EXCEPT ![w] = IF stopped THEN "exited" ELSE "sleeping"]
        /\ UNCHANGED <<queue, stopped, wtask, timerQueue, due, tpc, ttask, until, now, ppc,
                       status, stop_, main>>
    BY <1>2 DEF Pop
  <2>2. OnePlace' /\ NeverEarly' /\ StopInv' /\ DueInv'
    BY <2>1 DEF IInv, OnePlace, NeverEarly, StopInv, DueInv, Elems
  <2>3. TypeOK' /\ HandsInv'
    BY <2>1 DEF IInv, TypeOK, HandsInv
  <2>4. NoLostWakeup' /\ DrainedBeforeExit'
    BY <1>2, <2>1 DEF IInv, TypeOK, NoLostWakeup, DrainedBeforeExit, Sleeping
  <2> QED
    BY <2>2, <2>3, <2>4 DEF IInv
<1>3. CASE Publish(w)
  <2> DEFINE e0 == wtask[w]
  <2>1. /\ wpc[w] = "running" /\ wpc' = [wpc EXCEPT ![w] = "pop"]
        /\ wtask' = [wtask EXCEPT ![w] = NoEvent]
        /\ status' = [status EXCEPT ![e0] = "delivered"]
        /\ UNCHANGED <<queue, stopped, timerQueue, due, tpc, ttask, until, now, ppc, stop_, main>>
    BY <1>3 DEF Publish
  <2>2. e0 \in Events /\ status[e0] = "running"
    BY <2>1 DEF IInv, TypeOK, HandsInv, OnePlace
  <2>3. \A v \in Workers : wtask[v] = e0 => v = w
    BY <2>2 DEF IInv, OnePlace
  <2> HIDE DEF e0
  <2>4. /\ \A v \in Workers : wpc'[v] = IF v = w THEN "pop" ELSE wpc[v]
        /\ \A v \in Workers : wtask'[v] = IF v = w THEN NoEvent ELSE wtask[v]
        /\ \A e \in Events : status'[e] = IF e = e0 THEN "delivered" ELSE status[e]
    BY <2>1, <2>2 DEF IInv, TypeOK
  <2>5. TypeOK'
    BY <2>1, <2>2 DEF IInv, TypeOK
  <2>6. HandsInv' /\ StopInv' /\ DueInv'
    BY <2>1, <2>4 DEF IInv, HandsInv, StopInv, DueInv
  <2>7. OnePlace'
    <3>1. \A u, v \in Workers : wtask'[u] = wtask'[v] /\ wtask'[u] # NoEvent => u = v
      BY <2>4 DEF IInv, OnePlace
    <3>2. \A e \in Events : status'[e] = "running" <=> \E v \in Workers : wtask'[v] = e
      <4> TAKE e \in Events
      <4>1. CASE e = e0
        BY <2>3, <2>4, <4>1
      <4>2. CASE e # e0
        <5>1. \A v \in Workers : wtask'[v] = e <=> wtask[v] = e
          BY <2>4, <4>2 DEF e0
        <5> QED
          BY <2>4, <4>2, <5>1 DEF IInv, OnePlace
      <4> QED
        BY <4>1, <4>2
    <3>3. \A e \in Events : /\ status'[e] = "timer" <=> e \in timerQueue'
                            /\ status'[e] = "fired" <=> ttask' = e
                            /\ status'[e] = "queued" <=> e \in Elems(queue')
      BY <2>1, <2>2, <2>4 DEF IInv, OnePlace, Elems
    <3> QED
      BY <2>1, <3>1, <3>2, <3>3 DEF IInv, OnePlace
  <2>8. NoLostWakeup' /\ DrainedBeforeExit'
    BY <2>1, <2>4 DEF IInv, NoLostWakeup, DrainedBeforeExit, Sleeping
  <2>9. NeverEarly'
    BY <2>1, <2>2, <2>4 DEF IInv, NeverEarly
  <2> QED
    BY <2>5, <2>6, <2>7, <2>8, <2>9 DEF IInv
<1>4. CASE WorkerSpuriousWake(w)
  <2>1. OnePlace' /\ NeverEarly' /\ StopInv' /\ DueInv'
    BY <1>4 DEF WorkerSpuriousWake, IInv, OnePlace, NeverEarly, StopInv, DueInv, Elems
  <2>2. TypeOK' /\ HandsInv'
    BY <1>4 DEF WorkerSpuriousWake, IInv, TypeOK, HandsInv
  <2>3. NoLostWakeup' /\ DrainedBeforeExit'
    BY <1>4 DEF WorkerSpuriousWake, IInv, TypeOK, NoLostWakeup, DrainedBeforeExit, Sleeping
  <2> QED
    BY <2>1, <2>2, <2>3 DEF IInv
<1> QED
  BY <1>1, <1>2, <1>3, <1>4

(* The notify_one() of a publisher or of the timer thread                    *)
LEMMA NotifyPreserves ==
    ASSUME IInv, TimerNotify \/ \E p \in Publishers : PublisherNotify(p)
    PROVE  IInv'
<1> USE DEF queueVars, timerVars
<1>1. NotifyOne
  BY DEF TimerNotify, PublisherNotify
<1>2. /\ wpc' \in [Workers -> {"pop", "sleeping", "running", "exited"}]
      /\ \E w \in Workers : wpc'[w] # "sleeping"
      /\ \A w \in Workers : wpc'[w] # wpc[w] => wpc[w] = "sleeping" /\ wpc'[w] = "pop"
  BY <1>1, NotifyEffect DEF IInv
<1>3. UNCHANGED <<queue, stopped, wtask, timerQueue, due, ttask, until, now, status, stop_, main>>
  BY DEF TimerNotify, PublisherNotify
<1>4. /\ tpc' = tpc \/ (tpc = "notify" /\ tpc' = "test")
      /\ ppc' \in [Publishers -> {"idle", "notify"}]
  BY DEF TimerNotify, PublisherNotify, IInv, TypeOK
<1>5. OnePlace' /\ NeverEarly' /\ StopInv' /\ DueInv'
  BY <1>3 DEF IInv, OnePlace, NeverEarly, StopInv, DueInv, Elems
<1>6. TypeOK' /\ HandsInv'
  BY <1>2, <1>3, <1>4 DEF IInv, TypeOK, HandsInv
<1>7. NoLostWakeup'
  <2>1. Sleeping' \subseteq Sleeping
    BY <1>2 DEF Sleeping
  <2> QED
    BY <1>2, <1>3, <2>1 DEF IInv, NoLostWakeup
<1>8. DrainedBeforeExit'
  BY <1>2, <1>3 DEF IInv, DrainedBeforeExit
<1> QED
  BY <1>5, <1>6, <1>7, <1>8 DEF IInv

(* The two ways of publishing                                                *)
LEMMA PublisherPreserves ==
    ASSUME IInv, NEW p \in Publishers, NEW e \in Events,
           PublishAsync(p, e) \/ \E d \in Delays : PublishDelayed(p, e, d)
    PROVE  IInv'
<1> USE DEF queueVars, timerVars
<1>1. CASE PublishAsync(p, e)
  <2>1. /\ status[e] = "none" /\ Push(e)
        /\ ppc' = [ppc EXCEPT ![p] = IF stopped THEN "idle" ELSE "notify"]
        /\ UNCHANGED <<stopped, wpc, wtask, timerQueue, due, tpc, ttask, until, now, stop_, main>>
    BY <1>1 DEF PublishAsync
  <2>2. /\ queue' \in Seq(Events)
        /\ status' \in [Events -> {"none", "timer", "fired", "queued", "running",
                                  "delivered", "dropped"}]
        /\ NoDup(queue')
        /\ \A f \in Events \ {e} : status'[f] = status[f]
        /\ \A f \in Events \ {e} : (f \in Elems(queue')) = (f \in Elems(queue))
        /\ (e \in Elems(queue')) = ~stopped
        /\ status'[e] = IF stopped THEN "dropped" ELSE "queued"
        /\ stopped => queue' = queue
        /\ ~stopped => queue' # <<>>
    BY <2>1, PushEffect
  <2>3. /\ e \notin timerQueue /\ ttask # e /\ due[e] = 0
        /\ \A w \in Workers : wtask[w] # e
    BY <2>1 DEF IInv, OnePlace, DueInv
  <2>4. TypeOK'
    BY <2>1, <2>2 DEF IInv, TypeOK
  <2>5. HandsInv' /\ StopInv'
    BY <2>1 DEF IInv, HandsInv, StopInv
  <2>6. DueInv'
    BY <2>1, <2>2 DEF IInv, DueInv
  <2>7. OnePlace'
    <3>1. \A f \in Events : /\ status'[f] = "timer" <=> f \in timerQueue'
                            /\ status'[f] = "fired" <=> ttask' = f
                            /\ status'[f] = "queued" <=> f \in Elems(queue')
                            /\ status'[f] = "running" <=> \E w \in Workers : wtask'[w] = f
      BY <2>1, <2>2, <2>3 DEF IInv, OnePlace
    <3> QED
      BY <2>1, <2>2, <3>1 DEF IInv, OnePlace, NoDup
  <2>8. NoLostWakeup'
    <3>1. CASE stopped
      <4>1. \A q \in Publishers : ppc[q] = "notify" => ppc'[q] = "notify"
        BY <1>1, <2>1 DEF PublishAsync, IInv, TypeOK
      <4> QED
        BY <2>1, <2>2, <3>1, <4>1 DEF IInv, NoLostWakeup, Sleeping
    <3>2. CASE ~stopped
      <4>1. ppc'[p] = "notify"
        BY <2>1, <3>2 DEF IInv, TypeOK
      <4> QED
        BY <2>1, <3>2, <4>1 DEF NoLostWakeup
    <3> QED
      BY <3>1, <3>2
  <2>9. DrainedBeforeExit'
    BY <2>1, <2>2 DEF IInv, DrainedBeforeExit
  <2>10. NeverEarly'
    <3>1. now \in Nat
      BY DEF IInv, TypeOK
    <3> QED
      BY <2>1, <2>2, <2>3, <3>1 DEF IInv, NeverEarly
  <2> QED
    BY <2>4, <2>5, <2>6, <2>7, <2>8, <2>9, <2>10 DEF IInv
<1>2. ASSUME NEW d \in Delays, PublishDelayed(p, e, d)
      PROVE  IInv'
  <2>1. /\ status[e] = "none" /\ now + d <= MaxTime
        /\ timerQueue' = timerQueue \cup {e}
        /\ due' = [due EXCEPT ![e] = now + d]
        /\ status' = [status EXCEPT ![e] = "timer"]
        /\ tpc' = IF tpc \in {"waiting", "waitUntil"} THEN "test" ELSE tpc
        /\ UNCHANGED <<queue, stopped, wpc, wtask, ttask, until, now, ppc, stop_, main>>
    BY <1>2 DEF PublishDelayed
  <2>2. now + d \in 0 .. MaxTime
    BY <2>1 DEF IInv, TypeOK
  <2>3. /\ \A f \in Events : status'[f] = IF f = e THEN "timer" ELSE status[f]
        /\ \A f \in Events : due'[f] = IF f = e THEN now + d ELSE due[f]
    BY <2>1 DEF IInv, TypeOK
  <2>4. TypeOK'
    BY <2>1, <2>2 DEF IInv, TypeOK
  <2>5. HandsInv' /\ StopInv'
    BY <2>1 DEF IInv, HandsInv, StopInv
  <2>6. DueInv' /\ NeverEarly'
    BY <2>1, <2>3 DEF IInv, DueInv, NeverEarly
  <2>7. OnePlace'
    <3>1. \A f \in Events : /\ status'[f] = "timer" <=> f \in timerQueue'
                            /\ status'[f] = "fired" <=> ttask' = f
                            /\ status'[f] = "queued" <=> f \in Elems(queue')
                            /\ status'[f] = "running" <=> \E w \in Workers : wtask'[w] = f
      BY <2>1, <2>3 DEF IInv, OnePlace, Elems
    <3> QED
      BY <2>1, <3>1 DEF IInv, OnePlace
  <2>8. NoLostWakeup' /\ DrainedBeforeExit'
    BY <2>1 DEF IInv, NoLostWakeup, DrainedBeforeExit, Sleeping
  <2> QED
    BY <2>4, <2>5, <2>6, <2>7, <2>8 DEF IInv
<1> QED
  BY <1>1, <1>2

(* The timer thread and the clock                                            *)
LEMMA TimerPreserves ==
    ASSUME IInv,
           \/ TimerTest \/ Decide \/ TimerTimeout \/ TimerPublish
           \/ TimerSpuriousWake \/ Tick
    PROVE  IInv'
<1> USE DEF queueVars, timerVars
<1>1. CASE TimerTest \/ TimerTimeout \/ TimerSpuriousWake
  <2>1. /\ UNCHANGED <<queue, stopped, wpc, wtask, timerQueue, due, ttask, until, now, ppc,
                       status, stop_, main>>
        /\ tpc' \in {"test", "decide", "exited"}
        /\ tpc \in {"test", "waiting", "waitUntil"}
    BY <1>1 DEF TimerTest, TimerTimeout, TimerSpuriousWake
  <2>2. OnePlace' /\ NeverEarly' /\ StopInv' /\ DueInv'
    BY <2>1 DEF IInv, OnePlace, NeverEarly, StopInv, DueInv, Elems
  <2>3. TypeOK' /\ HandsInv'
    BY <2>1 DEF IInv, TypeOK, HandsInv
  <2>4. NoLostWakeup' /\ DrainedBeforeExit'
    BY <2>1 DEF IInv, NoLostWakeup, DrainedBeforeExit, Sleeping
  <2> QED
    BY <2>2, <2>3, <2>4 DEF IInv
<1>2. CASE Tick
  <2>1. /\ UNCHANGED <<queue, stopped, wpc, wtask, timerQueue, due, tpc, ttask, until, ppc,
                       status, stop_, main>>
        /\ now' \in 0 .. MaxTime /\ now' = now + 1
    BY <1>2 DEF Tick, IInv, TypeOK
  <2>2. NeverEarly'
    BY <2>1 DEF IInv, TypeOK, NeverEarly
  <2>3. OnePlace' /\ StopInv' /\ DueInv'
    BY <2>1 DEF IInv, OnePlace, StopInv, DueInv, Elems
  <2>4. TypeOK' /\ HandsInv'
    BY <2>1 DEF IInv, TypeOK, HandsInv
  <2>5. NoLostWakeup' /\ DrainedBeforeExit'
    BY <2>1 DEF IInv, NoLostWakeup, DrainedBeforeExit, Sleeping
  <2> QED
    BY <2>2, <2>3, <2>4, <2>5 DEF IInv
<1>3. CASE Decide
  <2>1. /\ tpc = "decide"
        /\ UNCHANGED <<queue, stopped, wpc, wtask, due, now, ppc, stop_, main>>
    BY <1>3 DEF Decide
  <2>2. ASSUME UNCHANGED <<timerQueue, ttask, status>>,
               until' \in 0 .. MaxTime, tpc' \in {"waiting", "waitUntil"}
        PROVE  IInv'
    <3>1. OnePlace' /\ NeverEarly' /\ StopInv' /\ DueInv'
      BY <2>1, <2>2 DEF IInv, OnePlace, NeverEarly, StopInv, DueInv, Elems
    <3>2. TypeOK' /\ HandsInv'
      BY <2>1, <2>2 DEF IInv, TypeOK, HandsInv
    <3>3. NoLostWakeup' /\ DrainedBeforeExit'
      BY <2>1, <2>2 DEF IInv, NoLostWakeup, DrainedBeforeExit, Sleeping
    <3> QED
      BY <3>1, <3>2, <3>3 DEF IInv
  <2>3. ASSUME NEW e \in Tops, now >= due[e], timerQueue' = timerQueue \ {e}, ttask' = e,
               status' = [status EXCEPT ![e] = "fired"], tpc' = "publish", until' = until
        PROVE  IInv'
    <3>1. e \in timerQueue /\ e \in Events /\ status[e] = "timer" /\ ttask = NoEvent
      BY <2>1, <2>3 DEF Tops, IInv, TypeOK, OnePlace, HandsInv
    <3>2. \A f \in Events : status'[f] = IF f = e THEN "fired" ELSE status[f]
      BY <2>3, <3>1 DEF IInv, TypeOK
    <3>3. TypeOK'
      BY <2>1, <2>3, <3>1 DEF IInv, TypeOK
    <3>4. HandsInv' /\ StopInv' /\ DueInv' /\ NeverEarly'
      BY <2>1, <2>3, <3>1, <3>2 DEF IInv, HandsInv, StopInv, DueInv, NeverEarly
    <3>5. OnePlace'
      <4>1. \A f \in Events : /\ status'[f] = "timer" <=> f \in timerQueue'
                              /\ status'[f] = "fired" <=> ttask' = f
                              /\ status'[f] = "queued" <=> f \in Elems(queue')
                              /\ status'[f] = "running" <=> \E w \in Workers : wtask'[w] = f
        BY <2>1, <2>3, <3>1, <3>2 DEF IInv, OnePlace, Elems
      <4> QED
        BY <2>1, <4>1 DEF IInv, OnePlace
    <3>6. NoLostWakeup' /\ DrainedBeforeExit'
      BY <2>1, <2>3 DEF IInv, NoLostWakeup, DrainedBeforeExit, Sleeping
    <3> QED
      BY <3>3, <3>4, <3>5, <3>6 DEF IInv
  <2>4. \A e \in Tops : due[e] \in 0 .. MaxTime
    BY DEF Tops, IInv, TypeOK
  <2>5. until \in 0 .. MaxTime
    BY DEF IInv, TypeOK
  <2> QED
    BY <1>3, <2>2, <2>3, <2>4, <2>5 DEF Decide
<1>4. CASE TimerPublish
  <2> DEFINE e0 == ttask
  <2>1. /\ tpc = "publish" /\ Push(e0) /\ ttask' = NoEvent
        /\ tpc' = IF stopped THEN "test" ELSE "notify"
        /\ UNCHANGED <<stopped, wpc, wtask, timerQueue, due, until, now, ppc, stop_, main>>
    BY <1>4 DEF TimerPublish
  <2>2. e0 \in Events /\ status[e0] = "fired"
    BY <2>1 DEF IInv, TypeOK, HandsInv, OnePlace
  <2>3. \A f \in Events : status[f] = "fired" <=> f = e0
    BY DEF IInv, OnePlace
  <2>4. /\ e0 \notin timerQueue /\ now >= due[e0]
        /\ \A w \in Workers : wtask[w] # e0
    BY <2>2 DEF IInv, OnePlace, NeverEarly
  <2> HIDE DEF e0
  <2>5. /\ queue' \in Seq(Events)
        /\ status' \in [Events -> {"none", "timer", "fired", "queued", "running",
                                  "delivered", "dropped"}]
        /\ NoDup(queue')
        /\ \A f \in Events \ {e0} : status'[f] = status[f]
        /\ \A f \in Events \ {e0} : (f \in Elems(queue')) = (f \in Elems(queue))
        /\ (e0 \in Elems(queue')) = ~stopped
        /\ status'[e0] = IF stopped THEN "dropped" ELSE "queued"
        /\ stopped => queue' = queue
        /\ ~stopped => queue' # <<>>
    BY <2>1, <2>2, PushEffect
  <2>6. TypeOK'
    BY <2>1, <2>5 DEF IInv, TypeOK
  <2>7. HandsInv' /\ StopInv' /\ DueInv'
    BY <2>1, <2>2, <2>5 DEF IInv, HandsInv, StopInv, DueInv
  <2>8. OnePlace'
    <3>1. \A f \in Events : /\ status'[f] = "timer" <=> f \in timerQueue'
                            /\ status'[f] = "fired" <=> ttask' = f
                            /\ status'[f] = "queued" <=> f \in Elems(queue')
                            /\ status'[f] = "running" <=> \E w \in Workers : wtask'[w] = f
      BY <2>1, <2>2, <2>3, <2>4, <2>5 DEF IInv, OnePlace
    <3> QED
      BY <2>1, <2>5, <3>1 DEF IInv, OnePlace, NoDup
  <2>9. NoLostWakeup'
    BY <2>1, <2>5 DEF IInv, NoLostWakeup, Sleeping
  <2>10. DrainedBeforeExit'
    BY <2>1, <2>5 DEF IInv, DrainedBeforeExit
  <2>11. NeverEarly'
    BY <2>1, <2>4, <2>5 DEF IInv, NeverEarly
  <2> QED
    BY <2>6, <2>7, <2>8, <2>9, <2>10, <2>11 DEF IInv
<1> QED
  BY <1>1, <1>2, <1>3, <1>4

(* Stop()                                                                    *)
LEMMA StopPreserves ==
    ASSUME IInv, Exchange \/ StopStep
    PROVE  IInv'
<1> USE DEF queueVars, timerVars
<1>1. CASE Exchange \/ QueueStop \/ JoinWorkers \/ TimerNotifyAll
  <2>1. /\ UNCHANGED <<queue, wpc, wtask, timerQueue, due, ttask, until, now, ppc, status>>
        /\ stopped' \in BOOLEAN /\ stop_' \in BOOLEAN
        /\ tpc' = tpc \/ (tpc \in {"waiting", "waitUntil"} /\ tpc' = "test")
    BY <1>1 DEF Exchange, QueueStop, JoinWorkers, TimerNotifyAll, IInv, TypeOK
  <2>2. /\ main \in {"up", "stopping", "join", "tnotify"}
        /\ main' \in {"stopping", "qnotify", "tnotify", "tjoin"}
        /\ stopped' <=> main' # "stopping"
        /\ stopped' => stopped \/ main' = "qnotify"
        /\ stopped => stopped'
    BY <1>1 DEF Exchange, QueueStop, JoinWorkers, TimerNotifyAll, IInv, StopInv
  <2>3. OnePlace' /\ NeverEarly' /\ DueInv'
    BY <2>1 DEF IInv, OnePlace, NeverEarly, DueInv, Elems
  <2>4. TypeOK' /\ HandsInv' /\ StopInv'
    BY <2>1, <2>2 DEF IInv, TypeOK, HandsInv, StopInv
  <2>5. NoLostWakeup' /\ DrainedBeforeExit'
    BY <2>1, <2>2 DEF IInv, NoLostWakeup, DrainedBeforeExit, Sleeping
  <2> QED
    BY <2>3, <2>4, <2>5 DEF IInv
<1>2. CASE QueueNotifyAll
  <2>1. /\ main = "qnotify" /\ main' = "join"
        /\ UNCHANGED <<queue, stopped, wtask, timerQueue, due, tpc, ttask, until, now, ppc,
                       status, stop_>>
        /\ wpc' = [w \in Workers |-> IF w \in Sleeping THEN "pop" ELSE wpc[w]]
    BY <1>2 DEF QueueNotifyAll
  <2>2. \A w \in Workers : /\ wpc'[w] # "sleeping"
                           /\ wpc'[w] # wpc[w] => wpc[w] = "sleeping" /\ wpc'[w] = "pop"
    BY <2>1 DEF Sleeping
  <2>3. OnePlace' /\ NeverEarly' /\ DueInv'
    BY <2>1 DEF IInv, OnePlace, NeverEarly, DueInv, Elems
  <2>4. TypeOK' /\ HandsInv' /\ StopInv'
    BY <2>1, <2>2 DEF IInv, TypeOK, HandsInv, StopInv
  <2>5. NoLostWakeup' /\ DrainedBeforeExit'
    BY <2>1, <2>2 DEF IInv, NoLostWakeup, DrainedBeforeExit, Sleeping
  <2> QED
    BY <2>3, <2>4, <2>5 DEF IInv
<1>3. CASE JoinTimer
  <2>1. /\ main = "tjoin" /\ main' = "destroyed" /\ timerQueue' = {}
        /\ status' = [e \in Events |-> IF e \in timerQueue THEN "dropped" ELSE status[e]]
        /\ UNCHANGED <<queue, stopped, wpc, wtask, due, tpc, ttask, until, now, ppc, stop_>>
    BY <1>3 DEF JoinTimer
  <2>2. \A e \in Events : status'[e] = IF status[e] = "timer" THEN "dropped" ELSE status[e]
    BY <2>1 DEF IInv, OnePlace
  <2>3. OnePlace'
    <3>1. \A e \in Events : /\ status'[e] = "timer" <=> e \in timerQueue'
                            /\ status'[e] = "fired" <=> ttask' = e
                            /\ status'[e] = "queued" <=> e \in Elems(queue')
                            /\ status'[e] = "running" <=> \E w \in Workers : wtask'[w] = e
      BY <2>1, <2>2 DEF IInv, OnePlace, Elems
    <3> QED
      BY <2>1, <3>1 DEF IInv, OnePlace
  <2>4. NeverEarly' /\ DueInv'
    BY <2>1, <2>2 DEF IInv, NeverEarly, DueInv
  <2>5. TypeOK' /\ HandsInv' /\ StopInv'
    BY <2>1 DEF IInv, TypeOK, HandsInv, StopInv
  <2>6. NoLostWakeup' /\ DrainedBeforeExit'
    BY <2>1 DEF IInv, NoLostWakeup, DrainedBeforeExit, Sleeping
  <2> QED
    BY <2>3, <2>4, <2>5, <2>6 DEF IInv
<1> QED
  BY <1>1, <1>2, <1>3 DEF StopStep

-----------------------------------------------------------------------------
(* A bus that was just made satisfies the invariant.                         *)
LEMMA IInvInit == Init => IInv
<1> SUFFICES ASSUME Init PROVE IInv
  OBVIOUS
<1>1. queue = <<>> /\ <<>> \in Seq(Events) /\ Elems(queue) = {} /\ Len(queue) = 0
  BY DEF Init, Elems
<1>2. 0 \in 0 .. MaxTime
  OBVIOUS
<1>3. TypeOK
  <2>1. /\ \A w \in Workers : wpc[w] = "pop" /\ wtask[w] = NoEvent
        /\ wpc \in [Workers -> {"pop", "sleeping", "running", "exited"}]
        /\ wtask \in [Workers -> Events \cup {NoEvent}]
    BY DEF Init
  <2>2. /\ due \in [Events -> 0 .. MaxTime]
        /\ ppc \in [Publishers -> {"idle", "notify"}]
        /\ status \in [Events -> {"none", "timer", "fired", "queued", "running",
                                 "delivered", "dropped"}]
    BY <1>2 DEF Init
  <2> QED
    BY <1>1, <1>2, <2>1, <2>2 DEF Init, TypeOK
<1>4. HandsInv /\ StopInv /\ DueInv /\ DrainedBeforeExit /\ NeverEarly
  BY DEF Init, HandsInv, StopInv, DueInv, DrainedBeforeExit, NeverEarly
<1>5. OnePlace
  <2>1. \A e \in Events : status[e] = "none" /\ e # NoEvent
    BY DEF Init
  <2> QED
    BY <1>1, <2>1 DEF Init, OnePlace
<1>6. NoLostWakeup
  BY DEF Init, NoLostWakeup, Sleeping
<1> QED
  BY <1>3, <1>4, <1>5, <1>6 DEF IInv

(* The invariant that carries the others. *)
THEOREM Invariance == Spec => []IInv
<1>1. ASSUME IInv, [Next]_vars
      PROVE  IInv'
  <2>1. CASE UNCHANGED vars
    <3>1. OnePlace' /\ NeverEarly' /\ DueInv' /\ StopInv'
      BY <1>1, <2>1 DEF vars, IInv, OnePlace, NeverEarly, DueInv, StopInv, Elems
    <3> QED
      BY <1>1, <2>1, <3>1 DEF vars, IInv, TypeOK, HandsInv, NoLostWakeup,
                              DrainedBeforeExit, Sleeping
  <2> QED
    BY <1>1, <2>1, WorkerPreserves, NotifyPreserves, PublisherPreserves, TimerPreserves,
       StopPreserves
    DEF Next, WorkerStep, TimerStep
<1> QED
  BY <1>1, IInvInit, PTL DEF Spec

(* What the bus has accepted is kept in one place until it is published, not *)
(* before its delay, and neither Stop() nor a lost wakeup leaves it there.   *)
THEOREM BusCorrect == Spec => []BusInv
<1>1. IInv => BusInv
  BY DEF IInv, BusInv, PlaceInv
<1> QED
  BY <1>1, Invariance, PTL
=============================================================================
