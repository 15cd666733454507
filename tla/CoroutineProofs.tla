-------------------------- MODULE CoroutineProofs ---------------------------
(***************************************************************************)
(* The event loop executes tasks in the order of their posting, never      *)
(* sleeps through one and ends only when it is stopped, for every set of   *)
(* tasks and posters and any number of calls of run(). LoopInv lacks one fact to be inductive: while a task *)
(* runs, its batch still holds it (the pop comes after the call).          *)
(*                                                                         *)
(* sync_await() over a chain of any depth: control is in one coroutine of  *)
(* the chain, everything outside it awaits and is registered, everything   *)
(* inside it has ended or has not begun, and the caller returns only the   *)
(* value of a task that has ended. AwaitInv says it of the states in which *)
(* a thread runs the chain; IInv says it of the suspended ones too.        *)
(*                                                                         *)
(* The examples, which are coroutines but for one: what they compute and   *)
(* show, for any lateness, images, threads, messages and points.           *)
(***************************************************************************)
EXTENDS EventLoop, SyncAwait, DrawingPad, SequenceTheorems, FiniteSetTheorems,
        WellFoundedInduction, TLAPS

-----------------------------------------------------------------------------
(* The event loop.                                                           *)

\* local.pop() follows the task: the batch is not empty while a task runs.
BatchHeld == loop = "inTask" => local # <<>>

LoopIInv == LoopInv /\ BatchHeld

-----------------------------------------------------------------------------
(* What an append at one end or a move from the front of one part to the     *)
(* back of the one before does to three sequences taken together.            *)
LEMMA AppendLast ==
    ASSUME NEW S, NEW a \in Seq(S), NEW b \in Seq(S), NEW c \in Seq(S), NEW e \in S
    PROVE  a \o b \o Append(c, e) = Append(a \o b \o c, e)
<1>1. a \o b \in Seq(S) /\ (a \o b) \o c \in Seq(S) /\ <<e>> \in Seq(S)
  BY ConcatProperties
<1>2. Append(c, e) = c \o <<e>> /\ Append((a \o b) \o c, e) = ((a \o b) \o c) \o <<e>>
  BY <1>1, AppendIsConcat
<1>3. ((a \o b) \o c) \o <<e>> = (a \o b) \o (c \o <<e>>)
  BY <1>1, ConcatAssociative
<1> QED
  BY <1>2, <1>3

(* A task that goes from the front of the batch to those executed keeps its  *)
(* place in the whole sequence.                                              *)
LEMMA MoveHead ==
    ASSUME NEW S, NEW a \in Seq(S), NEW b \in Seq(S), NEW c \in Seq(S), b # <<>>
    PROVE  Append(a, Head(b)) \o Tail(b) \o c = a \o b \o c
<1> DEFINE h == <<Head(b)>>
<1>1. Head(b) \in S /\ Tail(b) \in Seq(S) /\ h \in Seq(S)
  BY HeadTailProperties
<1>2. b = h \o Tail(b)
  <2>1. /\ h \o Tail(b) \in Seq(S) /\ Len(h \o Tail(b)) = 1 + Len(Tail(b))
        /\ \A i \in 1 .. 1 + Len(Tail(b)) :
              (h \o Tail(b))[i] = IF i <= 1 THEN h[i] ELSE Tail(b)[i - 1]
    <3>1. Len(h) = 1
      OBVIOUS
    <3> QED
      BY <1>1, <3>1, ConcatProperties
  <2>2. /\ Len(Tail(b)) = Len(b) - 1 /\ Len(b) \in Nat
        /\ \A i \in 1 .. Len(Tail(b)) : Tail(b)[i] = b[i + 1]
    BY HeadTailProperties, LenProperties
  <2>3. h[1] = b[1]
    OBVIOUS
  <2>4. \A i \in 1 .. Len(b) : b[i] = (h \o Tail(b))[i]
    <3> TAKE i \in 1 .. Len(b)
    <3>1. CASE i = 1
      BY <3>1, <2>1, <2>2, <2>3
    <3>2. CASE i # 1
      <4>1. i - 1 \in 1 .. Len(Tail(b)) /\ (i - 1) + 1 = i
        BY <3>2, <2>2
      <4> QED
        BY <4>1, <2>1, <2>2
    <3> QED
      BY <3>1, <3>2
  <2> QED
    BY <2>1, <2>2, <2>4, SeqEqual
<1>3. Append(a, Head(b)) = a \o h
  BY <1>1, AppendIsConcat
<1> HIDE DEF h
<1>4. (a \o h) \o Tail(b) = a \o (h \o Tail(b))
  BY <1>1, ConcatAssociative, SMTT(30)
<1>5. (a \o h) \o Tail(b) = a \o b
  BY <1>2, <1>4, Zenon
<1> QED
  BY <1>3, <1>5, Zenon

-----------------------------------------------------------------------------
(* A loop that has not run yet satisfies the invariant.                      *)
LEMMA LoopIInvInit == LoopInit => LoopIInv
<1> SUFFICES ASSUME LoopInit PROVE LoopIInv
  OBVIOUS
<1>1. <<>> \in Seq(Tasks) /\ <<>> \o <<>> = <<>>
  BY EmptySeq, ConcatEmptySeq
<1>2. InOrder
  BY <1>1, Zenon DEF LoopInit, InOrder
<1>3. LoopTypeOK
  <2>1. /\ queue \in Seq(Tasks) /\ local \in Seq(Tasks)
        /\ posted \in Seq(Tasks) /\ executed \in Seq(Tasks)
    BY <1>1, Zenon DEF LoopInit
  <2>2. runs = 0 /\ running = FALSE /\ loop = "idle" /\ ppc = [p \in Posters |-> "idle"]
    BY DEF LoopInit
  <2>3. 0 \in 0 .. MaxRuns
    BY MaxRunsAssumption
  <2> QED
    BY <2>1, <2>2, <2>3 DEF LoopTypeOK
<1>4. BatchCompleted /\ NoPostMissed /\ EndsByStop /\ BatchHeld
  BY DEF LoopInit, BatchCompleted, NoPostMissed, EndsByStop, BatchHeld
<1> QED
  BY <1>2, <1>3, <1>4 DEF LoopIInv, LoopInv, OrderInv

(* A push, from a poster or from a task, appends to queue_ and to the        *)
(* history, and to nothing else.                                             *)
LEMMA PushKeepsOrder ==
    ASSUME LoopTypeOK, InOrder, NEW t \in Tasks, Push(t), UNCHANGED <<local, executed>>
    PROVE  queue' \in Seq(Tasks) /\ posted' \in Seq(Tasks) /\ InOrder'
<1>1. queue' = Append(queue, t) /\ posted' = Append(posted, t)
  BY DEF Push
<1>2. executed \o local \o Append(queue, t) = Append(executed \o local \o queue, t)
  BY AppendLast, SMTT(30) DEF LoopTypeOK
<1> QED
  BY <1>1, <1>2, AppendProperties DEF LoopTypeOK, InOrder

(* Each step of the loop, of a poster and of a task preserves it.            *)
LEMMA LoopIInvStep ==
    ASSUME LoopIInv, [LoopNext]_loopVars
    PROVE  LoopIInv'
<1> USE DEF LoopIInv, LoopInv, OrderInv, LoopTypeOK, BatchCompleted, NoPostMissed, EndsByStop,
             BatchHeld
<1>1. CASE UNCHANGED loopVars
  BY <1>1 DEF loopVars, InOrder
<1>2. CASE Run
  BY <1>2, MaxRunsAssumption DEF Run, InOrder
<1>3. CASE Cond
  BY <1>3 DEF Cond, InOrder
<1>4. CASE Wait
  <2>1. CASE queue # <<>> \/ ~running
    <3>1. local = <<>> /\ local' = queue /\ queue' = <<>>
      BY <1>4, <2>1 DEF Wait
    <3>2. executed \o queue \o <<>> = executed \o <<>> \o queue
      BY ConcatEmptySeq, ConcatProperties, EmptySeq
    <3>3. InOrder'
      BY <1>4, <3>1, <3>2 DEF Wait, InOrder
    <3> QED
      BY <1>4, <2>1, <3>1, <3>3, EmptySeq DEF Wait
  <2>2. CASE ~(queue # <<>> \/ ~running)
    BY <1>4, <2>2 DEF Wait, InOrder
  <2> QED
    BY <2>1, <2>2
<1>5. CASE NextTask
  BY <1>5 DEF NextTask, InOrder
<1>6. CASE TaskEnds
  <2>1. /\ local # <<>> /\ executed' = Append(executed, Head(local))
        /\ local' = Tail(local) /\ queue' = queue /\ posted' = posted
    BY <1>6 DEF TaskEnds
  <2>2. InOrder'
    <3>1. Append(executed, Head(local)) \o Tail(local) \o queue = executed \o local \o queue
      BY <2>1, MoveHead, SMTT(30)
    <3> QED
      BY <2>1, <3>1, Zenon DEF InOrder
  <2>3. executed' \in Seq(Tasks) /\ local' \in Seq(Tasks)
    BY <2>1, HeadTailProperties, AppendProperties
  <2> QED
    BY <1>6, <2>2, <2>3 DEF TaskEnds
<1>7. CASE LoopSpuriousWake
  BY <1>7 DEF LoopSpuriousWake, InOrder
<1>8. CASE Leave
  BY <1>8 DEF Leave, InOrder
<1>9. ASSUME NEW p \in Posters, PosterNotify(p)
      PROVE  LoopIInv'
  <2>1. loop' # "sleeping"
    BY <1>9 DEF PosterNotify, Notify
  <2> QED
    BY <1>9, <2>1 DEF PosterNotify, Notify, InOrder
<1>10. ASSUME NEW p \in Posters, Stop(p)
       PROVE  LoopIInv'
  BY <1>10 DEF Stop, InOrder
<1>11. ASSUME NEW p \in Posters, NEW t \in Tasks, Post(p, t)
       PROVE  LoopIInv'
  <2>1. queue' \in Seq(Tasks) /\ posted' \in Seq(Tasks) /\ InOrder'
    BY <1>11, PushKeepsOrder DEF Post
  <2> QED
    BY <1>11, <2>1 DEF Post
<1>12. ASSUME NEW t \in Tasks, PostFromTask(t)
       PROVE  LoopIInv'
  <2>1. queue' \in Seq(Tasks) /\ posted' \in Seq(Tasks) /\ InOrder'
    BY <1>12, PushKeepsOrder DEF PostFromTask
  <2> QED
    BY <1>12, <2>1 DEF PostFromTask
<1>13. CASE StopFromTask
  BY <1>13 DEF StopFromTask, InOrder
<1> QED
  BY <1>1, <1>2, <1>3, <1>4, <1>5, <1>6, <1>7, <1>8, <1>9, <1>10, <1>11, <1>12, <1>13
  DEF LoopNext, LoopStep

(* In every reachable state what was executed, what is left of the batch and *)
(* what is queued are together, in order, what was posted, a loop that       *)
(* sleeps with something to do is about to be notified, and run() has        *)
(* returned only of a stop().                                                *)
THEOREM LoopCorrect == LoopSpec => []LoopInv
<1>1. LoopIInv /\ [LoopNext]_loopVars => LoopIInv'
  BY LoopIInvStep
<1>2. LoopIInv => LoopInv
  BY DEF LoopIInv
<1> QED
  BY <1>1, <1>2, LoopIInvInit, PTL DEF LoopSpec

-----------------------------------------------------------------------------
(* sync_await().                                                             *)

USE DepthAssumption, MayThrowAssumption DEF Coros, TaskIds, None

\* Coroutine k is where the chain stands, running or suspended.
At(k) == coro[k] \in {"running", "resumed", "ending", "suspended"}

\* Outside the point of control all await; inside it none has begun, or it
\* has ended. Without such a point the chain has not begun, or it has ended.
ShapeInv ==
    /\ \A j, k \in Coros : At(k) /\ j < k => coro[j] = "awaiting"
    /\ \A j, k \in Coros : At(k) /\ j > k => coro[j] \in {"lazy", "final"}
    /\ (\A k \in Coros : ~At(k)) => \A k \in Coros : coro[k] \in {"lazy", "final"}

\* Every coroutine that began, but the waiter, has its awaiter registered.
RegisteredInv ==
    \A k \in Coros :
        continuation[k] = IF k = 0 \/ coro[k] = "lazy" THEN None ELSE k - 1

\* A thread is on the chain exactly while the point of control is active.
ThreadInv ==
    /\ \A k \in Coros : coro[k] \in {"running", "resumed", "ending"} => thread # "none"
    /\ thread # "none" =>
          \E k \in Coros : coro[k] \in {"running", "resumed", "ending"}

\* A coroutine is resumed by the end of the one it awaits.
ResumedInv == \A k \in Coros : coro[k] = "resumed" => k < Depth /\ coro[k + 1] = "final"

\* From the value of the first task to the return of sync_await().
EventInv ==
    /\ result => promise[1] = "value" /\ coro[1] = "final"
                 /\ coro[0] \in {"running", "ending", "final"}
    /\ setting # "no" => result /\ coro[0] = "running"
    /\ setting = "notify" => ready
    /\ ready => result
    /\ main \in {"return", "returned"} => ready
    /\ main = "start" <=> coro[0] = "lazy"

IInv ==
    /\ TypeOK
    /\ ShapeInv
    /\ RegisteredInv
    /\ ThreadInv
    /\ ResumedInv
    /\ EventInv
    /\ NoLostWakeup

-----------------------------------------------------------------------------
(* Before the chain is started the invariant holds.                          *)
LEMMA IInvInit == Init => IInv
<1> SUFFICES ASSUME Init PROVE IInv
  OBVIOUS
<1>1. \A k \in Coros : coro[k] = "lazy" /\ continuation[k] = -1 /\ promise[k] = "empty"
  BY DEF Init
<1>2. TypeOK
  BY DEF Init, TypeOK
<1>3. ShapeInv /\ RegisteredInv /\ ThreadInv /\ ResumedInv /\ EventInv /\ NoLostWakeup
  BY <1>1 DEF Init, ShapeInv, At, RegisteredInv, ThreadInv, ResumedInv, EventInv,
              NoLostWakeup
<1> QED
  BY <1>2, <1>3 DEF IInv

(* The steps of the calling thread: of the chain they only start it.         *)
LEMMA MainPreserves ==
    ASSUME IInv, MainStep \/ SpuriousWake
    PROVE  IInv'
<1> USE DEF IInv, TypeOK, ShapeInv, At, RegisteredInv, ThreadInv, ResumedInv, EventInv,
            NoLostWakeup
<1>1. CASE Start
  <2>1. coro[0] = "lazy" /\ \A k \in Coros : coro[k] \in {"lazy", "final"}
    BY <1>1 DEF Start
  <2>2. \A k \in Coros : coro'[k] = IF k = 0 THEN "running" ELSE coro[k]
    BY <1>1 DEF Start
  <2> QED
    BY <1>1, <2>1, <2>2 DEF Start
<1>2. CASE ResumeReturns \/ Test \/ Return \/ SpuriousWake
  BY <1>2 DEF ResumeReturns, Test, Return, SpuriousWake
<1> QED
  BY <1>1, <1>2 DEF MainStep

(* The waiter that sets the event and notifies preserves the invariant.      *)
LEMMA EventPreserves ==
    ASSUME IInv, SetReady \/ SetNotify
    PROVE  IInv'
<1> USE DEF IInv, TypeOK, ShapeInv, At, RegisteredInv, ThreadInv, ResumedInv, EventInv,
            NoLostWakeup
<1>1. CASE SetReady
  BY <1>1 DEF SetReady
<1>2. CASE SetNotify
  <2>1. \A k \in Coros : coro'[k] = IF k = 0 THEN "ending" ELSE coro[k]
    BY <1>2 DEF SetNotify
  <2> QED
    BY <1>2, <2>1 DEF SetNotify
<1> QED
  BY <1>1, <1>2

(* A step that leaves the point of control where it is.                      *)
LEMMA InPlacePreserves ==
    ASSUME IInv, NEW k \in TaskIds,
           ReturnValue(k) \/ UnhandledException(k) \/ Suspend(k) \/ Deliver(k)
    PROVE  IInv'
<1> USE DEF IInv, TypeOK, ShapeInv, At, RegisteredInv, ThreadInv, ResumedInv, EventInv,
            NoLostWakeup
<1>1. At(k) /\ coro[0] = "awaiting" /\ ~result /\ setting = "no"
  BY DEF ReturnValue, BodyOver, UnhandledException, Suspend, Deliver
<1>2. CASE ReturnValue(k) \/ UnhandledException(k)
  <2>1. \A j \in Coros : coro'[j] = IF j = k THEN "ending" ELSE coro[j]
    BY <1>2 DEF ReturnValue, UnhandledException
  <2>2. coro[k] = "running" /\ (promise' = [promise EXCEPT ![k] = "value"]
                                 \/ promise' = [promise EXCEPT ![k] = "error"])
    BY <1>2 DEF ReturnValue, BodyOver, UnhandledException
  <2>3. /\ coro' = [coro EXCEPT ![k] = "ending"]
        /\ UNCHANGED <<main, continuation, thread, result, ready, setting>>
    BY <1>2 DEF ReturnValue, UnhandledException
  <2>4. TypeOK' /\ ShapeInv' /\ RegisteredInv'
    BY <2>1, <2>2, <2>3, SMTT(30)
  <2>5. ThreadInv' /\ ResumedInv'
    BY <2>1, <2>2, <2>3
  <2>6. EventInv' /\ NoLostWakeup'
    BY <1>1, <2>1, <2>3
  <2> QED
    BY <2>4, <2>5, <2>6
<1>3. CASE Suspend(k)
  <2>1. \A j \in Coros : coro'[j] = IF j = k THEN "suspended" ELSE coro[j]
    BY <1>3 DEF Suspend
  <2> QED
    BY <1>1, <1>3, <2>1 DEF Suspend
<1>4. CASE Deliver(k)
  <2>1. \A j \in Coros : coro'[j] = IF j = k THEN "running" ELSE coro[j]
    BY <1>4 DEF Deliver
  <2> QED
    BY <1>1, <1>4, <2>1 DEF Deliver
<1> QED
  BY <1>2, <1>3, <1>4

(* A step that moves it one coroutine inwards or outwards, or that resumes   *)
(* an awaiter.                                                               *)
LEMMA TransferPreserves ==
    ASSUME IInv, NEW k \in Coros, Await(k) \/ FinalSuspend(k) \/ AwaitResume(k)
    PROVE  IInv'
<1> USE DEF IInv, TypeOK, ShapeInv, At, RegisteredInv, ThreadInv, ResumedInv, EventInv,
            NoLostWakeup
<1>1. CASE Await(k)
  <2>1. k + 1 \in Coros /\ coro[k] = "running" /\ coro[k + 1] = "lazy"
    BY <1>1 DEF Await
  <2>2. \A j \in Coros : coro'[j] = IF j = k THEN "awaiting"
                                      ELSE IF j = k + 1 THEN "running" ELSE coro[j]
    BY <1>1, <2>1 DEF Await
  <2>3. \A j \in Coros : continuation'[j] = IF j = k + 1 THEN k ELSE continuation[j]
    BY <1>1, <2>1 DEF Await
  <2>4. ~result /\ setting = "no"
    BY <2>1
  <2>5. TypeOK'
    BY <1>1, <2>1 DEF Await
  <2>6. ShapeInv'
    BY <2>1, <2>2, SMTT(30)
  <2>7. RegisteredInv'
    BY <2>1, <2>2, <2>3, SMTT(30)
  <2>8. thread' = thread /\ thread # "none" /\ promise' = promise
    BY <1>1, <2>1 DEF Await
  <2>9. ThreadInv'
    BY <2>1, <2>2, <2>8
  <2>10. ResumedInv'
    <3> SUFFICES ASSUME NEW j \in Coros, coro'[j] = "resumed" PROVE FALSE
      OBVIOUS
    <3>1. coro[j] = "resumed" /\ j # k
      BY <2>2
    <3> QED
      BY <2>1, <3>1
  <2>11. EventInv' /\ NoLostWakeup'
    BY <1>1, <2>1, <2>2, <2>4 DEF Await
  <2> QED
    BY <2>5, <2>6, <2>7, <2>9, <2>10, <2>11
<1>2. CASE FinalSuspend(k) /\ k = 0
  <2>1. continuation[k] = -1
    BY <1>2
  <2>2. \A j \in Coros : coro'[j] = IF j = 0 THEN "final" ELSE coro[j]
    BY <1>2, <2>1 DEF FinalSuspend
  <2> QED
    BY <1>2, <2>1, <2>2, SMTT(30) DEF FinalSuspend
<1>3. CASE FinalSuspend(k) /\ k # 0
  <2>1. continuation[k] = k - 1 /\ k - 1 \in Coros /\ coro[k] = "ending"
    BY <1>3 DEF FinalSuspend
  <2>2. /\ coro' = [coro EXCEPT ![k] = "final", ![k - 1] = "resumed"]
        /\ UNCHANGED <<main, continuation, promise, thread, result, ready, setting>>
    BY <1>3, <2>1 DEF FinalSuspend
  <2>3. \A j \in Coros : coro'[j] = IF j = k THEN "final"
                                      ELSE IF j = k - 1 THEN "resumed" ELSE coro[j]
    BY <2>1, <2>2
  <2>4. coro[0] = "awaiting" /\ ~result /\ setting = "no"
    BY <1>3, <2>1
  <2>5. TypeOK'
    BY <2>1, <2>2
  <2>6. ShapeInv'
    BY <2>1, <2>3, SMTT(30)
  <2>7. RegisteredInv' /\ ResumedInv' /\ ThreadInv'
    BY <2>1, <2>2, <2>3
  <2>8. coro'[0] # "lazy" /\ coro[0] # "lazy"
    BY <1>3, <2>1, <2>3, <2>4
  <2>9. EventInv' /\ NoLostWakeup'
    BY <2>2, <2>4, <2>8
  <2> QED
    BY <2>5, <2>6, <2>7, <2>9
<1>4. CASE AwaitResume(k)
  <2>1. coro[k] = "resumed" /\ k < Depth /\ k + 1 \in Coros /\ coro[k + 1] = "final"
    BY <1>4 DEF AwaitResume
  <2>2. ~result /\ setting = "no" /\ ~ready
    BY <2>1
  <2>3. UNCHANGED <<main, continuation, thread, ready>>
    BY <1>4 DEF AwaitResume
  <2>4. CASE coro' = [coro EXCEPT ![k] = "running"]
    <3>1. \A j \in Coros : coro'[j] = IF j = k THEN "running" ELSE coro[j]
      BY <2>4
    <3>2. \/ k > 0 /\ UNCHANGED <<promise, result, setting>>
          \/ /\ k = 0 /\ promise[1] = "value"
             /\ result' = TRUE /\ setting' = "store" /\ promise' = promise
      BY <1>4, <2>1, <2>4 DEF AwaitResume
    <3>3. TypeOK' /\ ShapeInv' /\ RegisteredInv'
      <4>1. result' \in BOOLEAN /\ setting' \in {"no", "store", "notify"} /\ promise' = promise
        BY <3>2
      <4>2. TypeOK'
        BY <2>3, <2>4, <4>1
      <4>3. ShapeInv' /\ RegisteredInv'
        BY <2>1, <2>3, <3>1, SMTT(30)
      <4> QED
        BY <4>2, <4>3
    <3>4. ThreadInv' /\ ResumedInv'
      BY <2>1, <2>3, <3>1
    <3>5. coro'[0] # "lazy" /\ coro[0] # "lazy"
      BY <2>1, <3>1
    <3>6. EventInv' /\ NoLostWakeup'
      BY <2>1, <2>2, <2>3, <3>1, <3>2, <3>5
    <3> QED
      BY <3>3, <3>4, <3>6
  <2>5. CASE coro' = [coro EXCEPT ![k] = "ending"]
    <3>1. \A j \in Coros : coro'[j] = IF j = k THEN "ending" ELSE coro[j]
      BY <2>5
    <3>2. promise' = [promise EXCEPT ![k] = "error"] /\ UNCHANGED <<result, setting>>
      BY <1>4, <2>1, <2>5 DEF AwaitResume
    <3>3. TypeOK' /\ ShapeInv' /\ RegisteredInv'
      BY <2>1, <2>5, <2>3, <3>1, <3>2
    <3>4. ThreadInv' /\ ResumedInv'
      BY <2>1, <2>3, <3>1
    <3>5. coro'[0] # "lazy" /\ coro[0] # "lazy"
      BY <2>1, <3>1
    <3>6. EventInv' /\ NoLostWakeup'
      BY <2>2, <2>3, <3>1, <3>2, <3>5
    <3> QED
      BY <3>3, <3>4, <3>6
  <2> QED
    BY <1>4, <2>4, <2>5 DEF AwaitResume
<1> QED
  BY <1>1, <1>2, <1>3, <1>4

(* The invariant that carries the others. *)
THEOREM Invariance == Spec => []IInv
<1>1. ASSUME IInv, [Next]_vars
      PROVE  IInv'
  <2>1. CASE UNCHANGED vars
    BY <1>1, <2>1 DEF vars, IInv, TypeOK, ShapeInv, At, RegisteredInv, ThreadInv,
                      ResumedInv, EventInv, NoLostWakeup
  <2> QED
    BY <1>1, <2>1, MainPreserves, EventPreserves, InPlacePreserves, TransferPreserves
    DEF Next, ChainStep
<1> QED
  BY <1>1, IInvInit, PTL DEF Spec

(* Control passes along the chain without a fork or a gap, the main thread   *)
(* does not sleep on a set event for good, and what it returns is the value  *)
(* of a task that has ended.                                                 *)
THEOREM AwaitCorrect == Spec => []AwaitInv
<1>1. ASSUME IInv
      PROVE  AwaitInv
  <2> USE <1>1 DEF IInv
  <2>1. OnePoint
    BY SMTT(30) DEF OnePoint, Active, ThreadInv, ShapeInv, At, TypeOK
  <2>2. Chained
    <3> SUFFICES ASSUME NEW k \in Coros \ {Depth}, coro[k] = "awaiting"
                 PROVE  continuation[k + 1] = k /\ coro[k + 1] \notin {"lazy", "final"}
      BY DEF Chained
    <3>1. k + 1 \in Coros
      OBVIOUS
    <3>2. PICK p \in Coros : At(p)
      BY DEF ShapeInv
    <3>3. k < p
      BY <3>2 DEF ShapeInv, At
    <3>4. coro[k + 1] \notin {"lazy", "final"}
      BY <3>1, <3>2, <3>3 DEF ShapeInv, At
    <3> QED
      BY <3>1, <3>4 DEF RegisteredInv
  <2>3. ReturnsTheResult
    <3> SUFFICES ASSUME main = "returned"
                 PROVE  /\ result
                        /\ promise[1] = "value"
                        /\ \A k \in TaskIds : coro[k] \in {"lazy", "final"}
      BY DEF ReturnsTheResult
    <3>1. result /\ promise[1] = "value" /\ coro[0] \in {"running", "ending", "final"}
      BY DEF EventInv
    <3>2. \A k \in TaskIds : ~At(k)
      BY <3>1 DEF ShapeInv
    <3>3. \A k \in TaskIds : coro[k] \in {"lazy", "final"}
      BY <3>1, <3>2 DEF ShapeInv, At
    <3> QED
      BY <3>1, <3>3
  <2> QED
    BY <2>1, <2>2, <2>3 DEF AwaitInv, ControlInv
<1> QED
  BY <1>1, Invariance, PTL

\* The examples know of no chain of tasks.
HIDE MayThrowAssumption DEF Coros, TaskIds, None
HIDE DepthAssumption

-----------------------------------------------------------------------------
(* Numbers.                                                                  *)

(* A set of numbers that is not empty has a least one.                       *)
LEMMA SmallestNat ==
    ASSUME NEW S \in SUBSET Nat, S # {}
    PROVE  \E i \in S : \A j \in S : i <= j
<1>1. PICK i \in S : \A j \in S : ~ <<j, i>> \in OpToRel(<, Nat)
  BY NatLessThanWellFounded, WFMin, Zenon
<1>2. \A j \in S : <<j, i>> \in OpToRel(<, Nat) <=> j < i
  BY DEF OpToRel
<1>3. \A j \in S : j \in Nat /\ ~(j < i)
  BY <1>1, <1>2, Zenon
<1> QED
  BY <1>3

-----------------------------------------------------------------------------
(* AsioEcho: the bytes between the server and the client.                    *)

EchoTypes ==
  /\ server \in {"start", "accept", "read", "write", "over"}
  /\ client \in {"start", "delay", "connect", "write", "read", "over"}
  /\ port \in {"nobody", "server", "other"}
  /\ connection \in {"none", "backlog", "open", "closed", "reset"}
  /\ toServer \in Nat /\ toClient \in Nat /\ toEcho \in Nat /\ reply \in Nat
  /\ toServer + toEcho + toClient <= Message /\ reply <= Message

\* How far the server can be for a port and a connection, and how far the client.
PortInv ==
  /\ port = "nobody" => server = "start" /\ connection = "none"
  /\ port = "server" => server # "start"
  /\ port = "other" => server \in {"start", "over"} /\ connection = "none"
  /\ connection \in {"none", "backlog"} /\ port = "server" => server = "accept"
  /\ server \in {"start", "accept"} => toEcho = 0 /\ toClient = 0
  /\ server = "read" => toEcho = 0
  /\ server = "write" => toEcho > 0

TalkingInv ==
  /\ client \in {"start", "delay", "connect"} => connection = "none"
  /\ connection = "none" => client \notin {"write", "read"} /\ toServer = 0
  /\ client = "write" =>
       /\ connection \in {"backlog", "open"}
       /\ toServer = 0 /\ toEcho = 0 /\ toClient = 0
  /\ client = "over" => connection \in {"none", "closed", "reset"}
  /\ connection \in {"closed", "reset"} => client = "over" /\ reply > 0
  /\ BytesKept

EchoInv == EchoTypes /\ PortInv /\ TalkingInv /\ ServerOutlivesClient

LEMMA EchoStarts == EchoInit => EchoInv
BY EchoAssumption
   DEF EchoInit, EchoInv, EchoTypes, PortInv, TalkingInv, BytesKept, ServerOutlivesClient

LEMMA EchoServerKeeps ==
  ASSUME EchoInv, TakePort \/ Listen \/ Accept \/ ReadSome \/ WriteEcho
  PROVE  EchoInv'
<1> USE EchoAssumption DEF EchoInv, EchoTypes, PortInv, TalkingInv, BytesKept, ServerOutlivesClient
<1>1. CASE TakePort
  BY <1>1 DEF TakePort
<1>2. CASE Listen
  BY <1>2 DEF Listen
<1>3. CASE Accept
  BY <1>3 DEF Accept, ServerReady
<1>4. CASE ReadSome
  BY <1>4 DEF ReadSome, ServerReady
<1>5. CASE WriteEcho
  BY <1>5 DEF WriteEcho
<1> QED
  BY <1>1, <1>2, <1>3, <1>4, <1>5

LEMMA EchoClientKeeps ==
  ASSUME EchoInv, BeginClient \/ Expire \/ Connect \/ SendMessage \/ ReadReply
  PROVE  EchoInv'
<1> USE EchoAssumption DEF EchoInv, EchoTypes, PortInv, TalkingInv, BytesKept, ServerOutlivesClient
<1>1. CASE BeginClient
  BY <1>1 DEF BeginClient
<1>2. CASE Expire
  BY <1>2 DEF Expire
<1>3. CASE Connect
  BY <1>3 DEF Connect
<1>4. CASE SendMessage
  BY <1>4 DEF SendMessage
<1>5. CASE ReadReply
  BY <1>5 DEF ReadReply
<1> QED
  BY <1>1, <1>2, <1>3, <1>4, <1>5

LEMMA EchoShows == EchoInv => EchoCorrect
<1> SUFFICES ASSUME EchoInv PROVE EchoCorrect
  OBVIOUS
<1> USE DEF EchoInv, EchoTypes, PortInv, TalkingInv
<1>1. EchoTypeOK
  <2>1. /\ toServer \in 0 .. Message /\ toClient \in 0 .. Message
        /\ toEcho \in 0 .. Message /\ reply \in 0 .. Message
    BY EchoAssumption
  <2> QED
    BY <2>1 DEF EchoTypeOK
<1>2. RunReturnsUnlessAlone
  BY EchoAssumption DEF BytesKept, ServerOutlivesClient, RunReturnsUnlessAlone, ServerReady, ClientReady
<1> QED
  BY <1>1, <1>2 DEF EchoCorrect

THEOREM EchoServes == EchoSpec => []EchoCorrect
<1>1. EchoInv /\ [EchoNext]_echoVars => EchoInv'
  <2>1. EchoInv /\ UNCHANGED echoVars => EchoInv'
    BY DEF echoVars, EchoInv, EchoTypes, PortInv, TalkingInv, BytesKept, ServerOutlivesClient
  <2> QED
    BY <2>1, EchoServerKeeps, EchoClientKeeps DEF EchoNext
<1> QED
  BY <1>1, EchoStarts, EchoShows, PTL DEF EchoSpec

-----------------------------------------------------------------------------
(* Images: the shares of the threads, and what the loops have seen.          *)

\* What was found is which of some images can be read, each once.
IsFound(s, K) ==
  /\ s \in Seq(Nat)
  /\ {s[j] : j \in DOMAIN s} = {k \in K : images[k] = "image"}
  /\ \A i, j \in DOMAIN s : i < j => s[i] # s[j]

Ascending(s) == \A i, j \in DOMAIN s : i < j => s[i] < s[j]

LEMMA FoundNext ==
  ASSUME NEW K \in SUBSET Nat, NEW s, IsFound(s, K), NEW n \in Nat \ K
  PROVE  /\ images[n] = "image" => IsFound(Append(s, n), K \cup {n})
         /\ images[n] # "image" => IsFound(s, K \cup {n})
<1> DEFINE longer == Append(s, n)
<1>1. /\ s \in Seq(Nat) /\ DOMAIN s = 1 .. Len(s) /\ Len(s) \in Nat
      /\ {s[j] : j \in DOMAIN s} = {k \in K : images[k] = "image"}
      /\ \A i, j \in DOMAIN s : i < j => s[i] # s[j]
  BY DEF IsFound
<1>2. /\ longer \in Seq(Nat) /\ DOMAIN longer = 1 .. Len(s) + 1
      /\ \A i \in 1 .. Len(s) : longer[i] = s[i]
      /\ longer[Len(s) + 1] = n
  BY <1>1
<1> HIDE DEF longer
<1>3. \A i \in 1 .. Len(s) : s[i] \in K /\ s[i] # n
  BY <1>1
<1>4. {longer[j] : j \in DOMAIN longer} = {s[j] : j \in DOMAIN s} \cup {n}
  BY <1>1, <1>2
<1>5. \A i, j \in DOMAIN longer : i < j => longer[i] # longer[j]
  <2> SUFFICES ASSUME NEW i \in 1 .. Len(s) + 1, NEW j \in 1 .. Len(s) + 1, i < j
               PROVE  longer[i] # longer[j]
    BY <1>2
  <2>1. i \in 1 .. Len(s) /\ (j \in 1 .. Len(s) \/ j = Len(s) + 1)
    BY <1>1
  <2> QED
    BY <1>1, <1>2, <1>3, <2>1
<1>6. images[n] = "image" => IsFound(longer, K \cup {n})
  BY <1>1, <1>2, <1>4, <1>5 DEF IsFound
<1>7. images[n] # "image" => IsFound(s, K \cup {n})
  BY <1>1 DEF IsFound
<1> QED
  BY <1>6, <1>7 DEF longer

\* The next image of a loop.
LEMMA FoundUp ==
  ASSUME NEW m \in Nat, NEW s, IsFound(s, 1 .. m), Ascending(s)
  PROVE  LET longer == s \o (IF images[m + 1] = "image" THEN <<m + 1>> ELSE <<>>)
         IN  IsFound(longer, 1 .. m + 1) /\ Ascending(longer) /\ longer \in Seq(Nat)
<1>1. s \in Seq(Nat) /\ DOMAIN s = 1 .. Len(s) /\ Len(s) \in Nat
  BY DEF IsFound
<1>2. s \o <<m + 1>> = Append(s, m + 1) /\ s \o <<>> = s
  BY <1>1
<1>3. (1 .. m) \cup {m + 1} = 1 .. m + 1 /\ 1 .. m \in SUBSET Nat /\ m + 1 \in Nat \ (1 .. m)
  OBVIOUS
<1>4. CASE images[m + 1] = "image"
  <2> DEFINE longer == Append(s, m + 1)
  <2>1. IsFound(longer, 1 .. m + 1)
    BY <1>3, <1>4, FoundNext
  <2>2. \A i \in 1 .. Len(s) : s[i] \in 1 .. m
    <3>1. \A i \in DOMAIN s : s[i] \in {s[j] : j \in DOMAIN s}
      OBVIOUS
    <3>2. {s[j] : j \in DOMAIN s} = {k \in 1 .. m : images[k] = "image"}
      BY DEF IsFound
    <3> QED
      BY <1>1, <3>1, <3>2
  <2>3. /\ DOMAIN longer = 1 .. Len(s) + 1 /\ longer[Len(s) + 1] = m + 1 /\ longer \in Seq(Nat)
        /\ \A i \in 1 .. Len(s) : longer[i] = s[i]
    BY <1>1
  <2> HIDE DEF longer
  <2>4. Ascending(longer)
    <3> SUFFICES ASSUME NEW i \in 1 .. Len(s) + 1, NEW j \in 1 .. Len(s) + 1, i < j
                 PROVE  longer[i] < longer[j]
      BY <2>3 DEF Ascending
    <3>1. i \in 1 .. Len(s) /\ (j \in 1 .. Len(s) \/ j = Len(s) + 1)
      BY <1>1
    <3>2. CASE j \in 1 .. Len(s)
      BY <1>1, <2>3, <3>1, <3>2 DEF Ascending
    <3>3. CASE j = Len(s) + 1
      BY <2>2, <2>3, <3>1, <3>3
    <3> QED
      BY <3>1, <3>2, <3>3
  <2> QED
    BY <1>2, <1>4, <2>1, <2>3, <2>4 DEF longer
<1>5. CASE images[m + 1] # "image"
  <2>1. IsFound(s, 1 .. m + 1)
    BY <1>3, <1>5, FoundNext
  <2> QED
    BY <1>1, <1>2, <1>5, <2>1
<1> QED
  BY <1>4, <1>5

\* A sequence without repetitions is no longer than there are numbers for it.
LEMMA InjectiveAtMost ==
  ASSUME NEW n \in Nat, NEW s \in Seq(Nat), \A j \in DOMAIN s : s[j] \in 1 .. n,
         \A i, j \in DOMAIN s : i < j => s[i] # s[j]
  PROVE  Len(s) <= n
<1> SUFFICES ASSUME n < Len(s) PROVE FALSE
  OBVIOUS
<1>1. /\ DOMAIN s = 1 .. Len(s) /\ Len(s) \in Nat
      /\ \A j \in 1 .. Len(s) : s[j] \in 1 .. n
      /\ \A i, j \in 1 .. Len(s) : i < j => s[i] # s[j]
  OBVIOUS
<1>2. /\ IsFiniteSet(1 .. n) /\ Cardinality(1 .. n) = n
      /\ IsFiniteSet(1 .. Len(s)) /\ Cardinality(1 .. Len(s)) = Len(s)
  <2>1. \A m \in Nat : IsFiniteSet(1 .. m) /\ Cardinality(1 .. m) = m
    <3>1. ASSUME NEW m \in Nat PROVE IsFiniteSet(1 .. m) /\ Cardinality(1 .. m) = m
      <4>1. 1 \in Int /\ m \in Int /\ (1 > m => m = 0) /\ (~(1 > m) => m - 1 + 1 = m)
        OBVIOUS
      <4>2. /\ IsFiniteSet(1 .. m)
            /\ Cardinality(1 .. m) = IF 1 > m THEN 0 ELSE m - 1 + 1
        BY <4>1, FS_Interval
      <4> QED
        BY <4>1, <4>2
    <3> QED
      BY <3>1
  <2>2. Len(s) \in Nat
    BY <1>1
  <2> QED
    BY <2>1, <2>2, Zenon
<1>3. s \in [1 .. Len(s) -> 1 .. n] /\ Cardinality(1 .. n) < Cardinality(1 .. Len(s))
  BY <1>1, <1>2
<1>4. PICK x \in 1 .. Len(s), y \in 1 .. Len(s) : x # y /\ s[x] = s[y]
  BY <1>2, <1>3, FS_PigeonHole, Zenon
<1>5. x < y \/ y < x
  BY <1>1, <1>4
<1> QED
  BY <1>1, <1>4, <1>5

\* The images that the threads have passed.
Passed == {k \in 1 .. ImageCount : \E t \in Started : First(t) <= k /\ k < atImage[t]}

ImageTypes ==
  /\ version \in {"sequential", "threads", "coroutines"}
  /\ images \in Seq({"image", "empty", "throws"})
  /\ threads \in Nat /\ (version # "threads" => threads = 1)
  /\ imagesOutcome \in {"running", "returned", "terminated", "undefined"}
  /\ threads = 0 => imagesOutcome = "undefined"
  /\ foundImages \in Seq(Nat)

SharesInv ==
  version = "threads" =>
    /\ atImage \in [1 .. threads -> Nat]
    /\ \A t \in (1 .. threads) \ Started : atImage[t] = First(t)
    /\ \A t \in Started : First(t) <= atImage[t] /\ atImage[t] <= End(t) + 1
    /\ holding = {} \/ \E t \in Started : /\ holding = {t} /\ atImage[t] <= End(t)
                                          /\ images[atImage[t]] = "image"
    /\ IsFound(foundImages, Passed)
    /\ \A k \in Passed : images[k] # "throws"

\* How many images the loop, or that over the results, has seen.
Seen == atImage[1] - 1 - Len(tasks)

LoopsInv ==
  version # "threads" =>
    /\ atImage \in [1 .. 1 -> 1 .. ImageCount + 1] /\ holding = {}
    /\ tasks \in Seq(Nat) /\ Seen \in Nat
    /\ \A i \in DOMAIN tasks : tasks[i] = IF images[Seen + i] = "image" THEN Seen + i ELSE 0
    /\ IsFound(foundImages, 1 .. Seen)
    /\ Ascending(foundImages)
    /\ version = "sequential" => tasks = <<>> /\ \A k \in 1 .. Seen : images[k] # "throws"
    /\ version = "coroutines" => /\ imagesOutcome # "terminated"
                                 /\ atImage[1] <= ImageCount => Seen = 0

ReturnInv ==
  imagesOutcome = "returned" =>
    IF version = "threads" THEN 1 .. ImageCount \subseteq Passed ELSE Seen = ImageCount

ImagesInv == ImageTypes /\ SharesInv /\ LoopsInv /\ ReturnInv

\* The shares of the threads.
LEMMA Shares ==
  ASSUME images \in Seq({"image", "empty", "throws"}), threads \in Nat \ {0}
  PROVE  /\ ImageCount \in Nat /\ PerThread \in Nat
         /\ threads * PerThread >= ImageCount
         /\ threads * PerThread <= ImageCount + threads - 1
         /\ Started \subseteq 1 .. threads
         /\ \A t \in 1 .. threads : First(t) \in Nat /\ First(t) >= 1
                                    /\ First(t) <= ImageCount + threads
         /\ \A t \in Started : End(t) \in Nat /\ First(t) <= End(t) /\ End(t) <= ImageCount
         /\ \A t, u \in Started : t < u => End(t) < First(u)
         /\ \A k \in 1 .. ImageCount : \E t \in Started : First(t) <= k /\ k <= End(t)
<1>1. ImageCount \in Nat
  BY DEF ImageCount
<1> DEFINE d == PerThread
           n == ImageCount
<1>2. d \in Nat /\ d * threads <= n + threads - 1 /\ n + threads - 1 < d * threads + threads
  BY <1>1 DEF PerThread
<1>3. /\ threads * d = d * threads /\ d * threads \in Nat /\ n \in Nat
      /\ \A i \in 0 .. threads : i * d \in Nat /\ i * d <= threads * d /\ (i - 1) * d = i * d - d
  <2>1. d * threads \in Nat /\ threads * d = d * threads /\ n \in Nat
    BY <1>1, <1>2
  <2>2. ASSUME NEW i \in 0 .. threads
        PROVE  i * d \in Nat /\ i * d <= threads * d /\ (i - 1) * d = i * d - d
    <3>1. PICK m \in Nat : threads = i + m
      <4>1. threads - i \in Nat /\ threads = i + (threads - i)
        OBVIOUS
      <4> QED
        BY <4>1
    <3>2. threads * d = i * d + m * d /\ i * d \in Nat /\ m * d \in Nat
      BY <1>2, <3>1
    <3> QED
      BY <1>2, <3>2
  <2> QED
    BY <2>1, <2>2
<1> DEFINE m == [i \in 0 .. threads |-> i * d]
<1>4. /\ m \in [0 .. threads -> Nat] /\ n <= m[threads] /\ m[threads] <= n + threads - 1
      /\ m[0] = 0 /\ \A i \in 1 .. threads : m[i - 1] = m[i] - d
      /\ \A i, j \in 0 .. threads : i <= j => m[i] <= m[j]
  <2>1. m \in [0 .. threads -> Nat] /\ n <= m[threads] /\ m[threads] <= n + threads - 1
    BY <1>2, <1>3
  <2>2. m[0] = 0 /\ \A i \in 1 .. threads : m[i - 1] = m[i] - d
    BY <1>2, <1>3
  <2>3. ASSUME NEW i \in 0 .. threads, NEW j \in 0 .. threads, i <= j PROVE m[i] <= m[j]
    <3>1. PICK e \in Nat : j = i + e
      <4>1. j - i \in Nat /\ j = i + (j - i)
        BY <2>3
      <4> QED
        BY <4>1
    <3>2. j * d = i * d + e * d /\ i * d \in Nat /\ e * d \in Nat
      BY <1>2, <3>1
    <3> QED
      BY <3>2
  <2> QED
    BY <2>1, <2>2, <2>3
<1>5. /\ threads * PerThread = m[threads] /\ \A t \in 1 .. threads : First(t) = m[t] - d + 1
      /\ \A t \in 1 .. threads : End(t) = IF m[t] < n THEN m[t] ELSE n
      /\ Started = {t \in 1 .. threads : m[t] - d < n}
  <2>1. ASSUME NEW t \in 1 .. threads
        PROVE  (t - 1) * PerThread = m[t] - d /\ t * PerThread = m[t]
    BY <1>3
  <2>2. threads * PerThread = m[threads]
    BY <1>3
  <2> QED
    BY <2>1, <2>2 DEF First, End, Started, Least
<1>6. ImageCount = n /\ PerThread = d /\ n \in Nat /\ d \in Nat
  BY <1>2, <1>3
<1>11. \A t \in 1 .. threads : m[t] \in Nat
  BY <1>4
<1> HIDE DEF d, n, m
<1>7. ASSUME NEW k \in 1 .. n PROVE \E t \in Started : First(t) <= k /\ k <= End(t)
  <2> DEFINE T == {t \in 1 .. threads : k <= m[t]}
  <2>0. threads \in 1 .. threads /\ k \in Nat /\ k <= n /\ \A i \in 0 .. threads : m[i] \in Nat
    BY <1>4, <1>6
  <2>1. T \in SUBSET Nat /\ T # {}
    <3>1. k <= m[threads]
      BY <1>4, <1>6, <2>0
    <3> QED
      BY <2>0, <3>1
  <2>2. PICK t \in T : \A u \in T : t <= u
    BY <2>1, SmallestNat
  <2>3. m[t - 1] < k
    <3>1. CASE t = 1
      BY <1>4, <3>1
    <3>2. CASE t # 1
      <4>1. t - 1 \in 1 .. threads /\ t - 1 \in 0 .. threads /\ ~(t <= t - 1)
        BY <2>2, <3>2
      <4>2. ~(k <= m[t - 1])
        BY <2>2, <4>1
      <4> QED
        BY <2>0, <4>1, <4>2
    <3> QED
      BY <3>1, <3>2
  <2>4. /\ t \in 1 .. threads /\ k <= m[t] /\ m[t] \in Nat /\ m[t] - d < k
        /\ First(t) = m[t] - d + 1 /\ End(t) = IF m[t] < n THEN m[t] ELSE n
    BY <1>4, <1>5, <1>11, <2>2, <2>3
  <2>5. t \in Started
    BY <1>5, <1>6, <2>0, <2>4
  <2>6. First(t) <= k /\ k <= End(t)
    BY <1>6, <2>0, <2>4
  <2> QED
    BY <2>5, <2>6
<1>8. \A t \in 1 .. threads : First(t) \in Nat /\ First(t) >= 1 /\ First(t) <= n + threads
  <2> SUFFICES ASSUME NEW t \in 1 .. threads
               PROVE  First(t) \in Nat /\ First(t) >= 1 /\ First(t) <= n + threads
    OBVIOUS
  <2>1. t - 1 \in 0 .. threads /\ m[t - 1] = m[t] - d /\ m[t - 1] <= m[threads]
    BY <1>4
  <2>2. First(t) = m[t] - d + 1 /\ m[t - 1] \in Nat /\ m[t] \in Nat /\ m[threads] \in Nat
    BY <1>4, <1>5, <1>11, <2>1
  <2>3. m[threads] <= n + threads - 1 /\ threads \in Nat
    BY <1>4
  <2>4. First(t) = m[t - 1] + 1
    BY <1>6, <2>1, <2>2
  <2> DEFINE x == m[t - 1]
             y == m[threads]
  <2>5. x \in Nat /\ y \in Nat /\ x <= y /\ y <= n + threads - 1
    BY <2>1, <2>2, <2>3
  <2>6. First(t) = x + 1
    BY <2>4
  <2> HIDE DEF x, y, First
  <2> QED
    BY <1>6, <2>3, <2>5, <2>6
<1>9. \A t \in Started : End(t) \in Nat /\ First(t) <= End(t) /\ End(t) <= n
  <2> SUFFICES ASSUME NEW t \in Started
               PROVE  End(t) \in Nat /\ First(t) <= End(t) /\ End(t) <= n
    OBVIOUS
  <2>1. t \in 1 .. threads /\ m[t] - d < n /\ m[t] \in Nat
    BY <1>4, <1>5
  <2>2. d > 0
    <3> SUFFICES ASSUME d = 0 PROVE FALSE
      BY <1>6
    <3>1. n = 0 /\ m[t] < n
      BY <1>2, <1>6, <2>1
    <3> QED
      BY <2>1, <3>1
  <2> QED
    BY <1>5, <1>6, <2>1, <2>2
<1>10. \A t, u \in Started : t < u => End(t) < First(u)
  <2> SUFFICES ASSUME NEW t \in Started, NEW u \in Started, t < u PROVE End(t) < First(u)
    OBVIOUS
  <2>1. t \in 1 .. threads /\ u \in 1 .. threads /\ m[t] <= m[u - 1] /\ m[u - 1] = m[u] - d
    BY <1>4, <1>5
  <2>2. /\ First(u) = m[u] - d + 1 /\ m[u] \in Nat /\ m[t] \in Nat
        /\ End(t) = IF m[t] < n THEN m[t] ELSE n
    BY <1>5, <1>11, <2>1
  <2> QED
    BY <1>6, <2>1, <2>2
<1> QED
  BY <1>4, <1>5, <1>6, <1>7, <1>8, <1>9, <1>10

\* The images and their shares stay.
LEMMA SharesStay ==
  ASSUME UNCHANGED <<images, threads>>
  PROVE  /\ ImageCount' = ImageCount /\ Started' = Started
         /\ \A t : First(t)' = First(t) /\ End(t)' = End(t)
         /\ \A s, K : IsFound(s, K)' = IsFound(s, K)
BY DEF ImageCount, Started, First, End, PerThread, Least, IsFound

\* A thread passes an image.
LEMMA PassesOne ==
  ASSUME ImagesInv, version = "threads", threads # 0, NEW t \in Started, atImage[t] <= End(t),
         atImage' = [atImage EXCEPT ![t] = @ + 1], UNCHANGED <<images, threads>>
  PROVE  /\ atImage[t] \in Nat /\ atImage[t] \in 1 .. ImageCount /\ atImage[t] \notin Passed
         /\ Passed' = Passed \cup {atImage[t]} /\ Passed \in SUBSET Nat
         /\ atImage' \in [1 .. threads -> Nat]
         /\ \A u \in (1 .. threads) \ Started : atImage'[u] = atImage[u]
         /\ \A u \in Started : First(u) <= atImage'[u] /\ atImage'[u] <= End(u) + 1
<1>1. /\ ImageCount \in Nat /\ Started \subseteq 1 .. threads
      /\ \A u \in Started : First(u) \in Nat /\ First(u) >= 1
      /\ \A u \in Started : End(u) \in Nat /\ End(u) <= ImageCount
      /\ \A u, v \in Started : u < v => End(u) < First(v)
  BY Shares DEF ImagesInv, ImageTypes
<1>2. /\ atImage \in [1 .. threads -> Nat]
      /\ \A u \in Started : First(u) <= atImage[u] /\ atImage[u] <= End(u) + 1
  BY DEF ImagesInv, SharesInv
<1>3. /\ atImage'[t] = atImage[t] + 1 /\ \A u \in (1 .. threads) \ {t} : atImage'[u] = atImage[u]
      /\ atImage' \in [1 .. threads -> Nat] /\ t \in 1 .. threads /\ atImage[t] \in Nat
  BY <1>1, <1>2
<1>4. First(t) <= atImage[t] /\ atImage[t] \in 1 .. ImageCount
  BY <1>1, <1>2, <1>3
<1>5. ASSUME NEW u \in Started, First(u) <= atImage[t], atImage[t] < atImage[u] PROVE FALSE
  <2>1. u \in 1 .. threads /\ atImage[u] \in Nat /\ atImage[t] <= End(u) /\ u # t
    BY <1>1, <1>2, <1>3, <1>5
  <2>2. /\ End(u) \in Nat /\ First(u) \in Nat /\ End(t) \in Nat /\ First(t) \in Nat
        /\ u < t => End(u) < First(t)
        /\ t < u => End(t) < First(u)
    BY <1>1
  <2>3. u < t \/ t < u
    BY <1>3, <2>1
  <2> QED
    BY <1>3, <1>4, <1>5, <2>1, <2>2, <2>3
<1>6. atImage[t] \notin Passed /\ Passed \in SUBSET Nat
  BY <1>5 DEF Passed
<1>7. Passed' = {k \in 1 .. ImageCount : \E u \in Started : First(u) <= k /\ k < atImage'[u]}
  BY SharesStay DEF Passed
<1>8. Passed' = Passed \cup {atImage[t]}
  <2>1. ASSUME NEW k \in 1 .. ImageCount, NEW u \in Started
        PROVE  First(u) <= k /\ k < atImage'[u] <=>
                 (First(u) <= k /\ k < atImage[u]) \/ (u = t /\ k = atImage[t])
    <3>1. u # t => atImage'[u] = atImage[u]
      BY <1>1, <1>3
    <3>2. u = t => (First(u) <= k /\ k < atImage'[u] <=>
                     (First(u) <= k /\ k < atImage[u]) \/ k = atImage[t])
      BY <1>1, <1>3, <1>4
    <3> QED
      BY <3>1, <3>2
  <2> QED
    BY <1>4, <1>7, <2>1 DEF Passed
<1>9. \A u \in Started : First(u) <= atImage'[u] /\ atImage'[u] <= End(u) + 1
  <2> SUFFICES ASSUME NEW u \in Started PROVE First(u) <= atImage'[u] /\ atImage'[u] <= End(u) + 1
    OBVIOUS
  <2>1. u # t => atImage'[u] = atImage[u]
    BY <1>1, <1>3
  <2>2. First(t) \in Nat /\ End(t) \in Nat
    BY <1>1
  <2> QED
    BY <1>2, <1>3, <1>4, <2>1, <2>2
<1> QED
  BY <1>3, <1>4, <1>6, <1>8, <1>9

\* processImage() keeps what the threads have found.
LEMMA ReadImageKeeps ==
  ASSUME ImagesInv, imagesOutcome = "running", NEW t \in 1 .. threads, ReadImage(t)
  PROVE  ImagesInv'
<1>1. /\ version = "threads" /\ version' = version /\ t \in Started /\ t \notin holding
      /\ UNCHANGED <<images, threads>> /\ foundImages' = foundImages
      /\ atImage[t] <= End(t) /\ threads # 0
  BY DEF ReadImage, ImagesInv, ImageTypes
<1>2. ImageTypes' /\ LoopsInv' /\ ReturnInv'
  BY <1>1 DEF ReadImage, ImagesInv, ImageTypes, LoopsInv, ReturnInv
<1>3. /\ atImage \in [1 .. threads -> Nat]
      /\ \A u \in (1 .. threads) \ Started : atImage[u] = First(u)
      /\ \A u \in Started : First(u) <= atImage[u] /\ atImage[u] <= End(u) + 1
      /\ holding = {} \/ \E u \in Started : /\ holding = {u} /\ atImage[u] <= End(u)
                                            /\ images[atImage[u]] = "image"
      /\ IsFound(foundImages, Passed)
      /\ \A k \in Passed : images[k] # "throws"
  BY <1>1 DEF ImagesInv, SharesInv
<1>0. Started' = Started /\ \A u : First(u)' = First(u) /\ End(u)' = End(u)
  BY <1>1, SharesStay
<1>4. CASE atImage' = atImage /\ (holding' = holding \/ (holding' = {t} /\ images[atImage[t]] = "image"))
  <2>1. Passed' = Passed
    BY <1>0, <1>1, <1>4 DEF Passed, ImageCount
  <2>2. IsFound(foundImages, Passed)'
    BY <1>1, <1>3, <2>1 DEF IsFound
  <2>3. holding' = {} \/ \E u \in Started : /\ holding' = {u} /\ atImage'[u] <= End(u)
                                            /\ images'[atImage'[u]] = "image"
    BY <1>1, <1>3, <1>4
  <2>6. /\ atImage' \in [1 .. threads' -> Nat]
        /\ \A u \in (1 .. threads') \ Started : atImage'[u] = First(u)
        /\ \A u \in Started : First(u) <= atImage'[u] /\ atImage'[u] <= End(u) + 1
    BY <1>1, <1>3, <1>4
  <2>5. \A k \in Passed' : images'[k] # "throws"
    BY <1>1, <1>3, <2>1
  <2>4. SharesInv'
    BY <1>0, <1>1, <2>2, <2>3, <2>5, <2>6 DEF SharesInv
  <2> QED
    BY <1>2, <2>4 DEF ImagesInv
<1>5. CASE /\ images[atImage[t]] = "empty" /\ holding' = holding
           /\ atImage' = [atImage EXCEPT ![t] = @ + 1]
  <2>1. /\ atImage[t] \in Nat \ Passed /\ Passed' = Passed \cup {atImage[t]} /\ Passed \in SUBSET Nat
        /\ atImage' \in [1 .. threads -> Nat]
        /\ \A u \in (1 .. threads) \ Started : atImage'[u] = atImage[u]
        /\ \A u \in Started : First(u) <= atImage'[u] /\ atImage'[u] <= End(u) + 1
    BY <1>1, <1>5, PassesOne
  <2>2. IsFound(foundImages, Passed')
    BY <1>3, <1>5, <2>1, FoundNext
  <2>3. IsFound(foundImages, Passed)' /\ \A k \in Passed' : images'[k] # "throws"
    BY <1>1, <1>3, <1>5, <2>1, <2>2 DEF IsFound
  <2>4. holding = {} \/ \E u \in Started : /\ holding = {u} /\ atImage'[u] <= End(u)
                                           /\ images[atImage'[u]] = "image"
    <3>1. ASSUME NEW u \in Started, holding = {u} PROVE atImage'[u] = atImage[u]
      BY <1>1, <1>3, <1>5, <3>1
    <3> QED
      BY <1>3, <3>1
  <2>5. SharesInv'
    BY <1>0, <1>1, <1>3, <1>5, <2>1, <2>3, <2>4 DEF SharesInv
  <2> QED
    BY <1>2, <2>5 DEF ImagesInv
<1> QED
  BY <1>4, <1>5 DEF ReadImage

\* So does push_back().
LEMMA PushResultKeeps ==
  ASSUME ImagesInv, imagesOutcome = "running", NEW t \in 1 .. threads, PushResult(t)
  PROVE  ImagesInv'
<1>1. /\ version = "threads" /\ version' = version /\ t \in holding /\ threads # 0
      /\ UNCHANGED <<images, threads>> /\ foundImages' = Append(foundImages, atImage[t])
      /\ holding' = {} /\ atImage' = [atImage EXCEPT ![t] = @ + 1] /\ imagesOutcome' = "running"
  BY DEF PushResult, ImagesInv, ImageTypes, LoopsInv
<1>2. /\ \A u \in (1 .. threads) \ Started : atImage[u] = First(u)
      /\ t \in Started /\ atImage[t] <= End(t) /\ images[atImage[t]] = "image"
      /\ IsFound(foundImages, Passed)
      /\ \A k \in Passed : images[k] # "throws"
  BY <1>1 DEF ImagesInv, SharesInv
<1>3. /\ atImage[t] \in Nat \ Passed /\ Passed' = Passed \cup {atImage[t]} /\ Passed \in SUBSET Nat
      /\ atImage' \in [1 .. threads -> Nat]
      /\ \A u \in (1 .. threads) \ Started : atImage'[u] = atImage[u]
      /\ \A u \in Started : First(u) <= atImage'[u] /\ atImage'[u] <= End(u) + 1
  BY <1>1, <1>2, PassesOne
<1>4. IsFound(foundImages', Passed')
  BY <1>1, <1>2, <1>3, FoundNext
<1>5. IsFound(foundImages, Passed)' /\ \A k \in Passed' : images'[k] # "throws"
  BY <1>1, <1>2, <1>3, <1>4 DEF IsFound
<1>8. Started' = Started /\ \A u : First(u)' = First(u) /\ End(u)' = End(u)
  BY <1>1, SharesStay
<1>6. SharesInv'
  BY <1>1, <1>2, <1>3, <1>5, <1>8 DEF SharesInv
<1>7. ImageTypes' /\ LoopsInv' /\ ReturnInv'
  BY <1>1, <1>5 DEF ImagesInv, ImageTypes, LoopsInv, ReturnInv, IsFound
<1> QED
  BY <1>6, <1>7 DEF ImagesInv

\* When the threads are joined, all images were passed.
LEMMA JoinThreadsKeeps ==
  ASSUME ImagesInv, imagesOutcome = "running", JoinThreads
  PROVE  ImagesInv'
<1>1. /\ version = "threads" /\ threads # 0 /\ imagesOutcome' = "returned" /\ holding' = holding
      /\ UNCHANGED <<version, images, threads, atImage, tasks, foundImages>>
      /\ \A t \in Started : atImage[t] > End(t)
  BY DEF JoinThreads, ImagesInv, ImageTypes
<1>2. Passed' = Passed
  BY <1>1, SharesStay DEF Passed
<1>3. SharesInv' /\ ImageTypes' /\ LoopsInv'
  BY <1>1, <1>2, SharesStay DEF ImagesInv, SharesInv, ImageTypes, LoopsInv, IsFound
<1>4. 1 .. ImageCount \subseteq Passed
  <2> SUFFICES ASSUME NEW k \in 1 .. ImageCount PROVE k \in Passed
    OBVIOUS
  <2>1. PICK t \in Started : First(t) <= k /\ k <= End(t)
    BY <1>1, Shares DEF ImagesInv, ImageTypes
  <2>2. End(t) \in Nat /\ t \in 1 .. threads /\ atImage[t] \in Nat
    BY <1>1, Shares DEF ImagesInv, ImageTypes, SharesInv
  <2>3. k < atImage[t]
    BY <1>1, <2>1, <2>2
  <2> QED
    BY <2>1, <2>3 DEF Passed
<1>5. ReturnInv'
  BY <1>1, <1>2, <1>4, SharesStay DEF ReturnInv
<1> QED
  BY <1>3, <1>5 DEF ImagesInv

\* What is known in the loops.
LEMMA LoopFacts ==
  ASSUME ImagesInv, version # "threads"
  PROVE  /\ version \in {"sequential", "coroutines"} /\ threads = 1
         /\ ImageCount \in Nat /\ atImage \in [1 .. 1 -> 1 .. ImageCount + 1] /\ holding = {}
         /\ atImage[1] \in 1 .. ImageCount + 1
         /\ tasks \in Seq(Nat) /\ Len(tasks) \in Nat /\ DOMAIN tasks = 1 .. Len(tasks)
         /\ Seen \in Nat /\ Seen = atImage[1] - 1 - Len(tasks)
         /\ \A i \in 1 .. Len(tasks) :
               tasks[i] = IF images[Seen + i] = "image" THEN Seen + i ELSE 0
         /\ IsFound(foundImages, 1 .. Seen) /\ Ascending(foundImages) /\ foundImages \in Seq(Nat)
<1>1. ImageCount \in Nat
  BY DEF ImagesInv, ImageTypes, ImageCount
<1>2. version \in {"sequential", "coroutines"} /\ threads = 1 /\ foundImages \in Seq(Nat)
  BY DEF ImagesInv, ImageTypes
<1>3. /\ atImage \in [1 .. 1 -> 1 .. ImageCount + 1] /\ holding = {}
      /\ tasks \in Seq(Nat) /\ Seen \in Nat
      /\ \A i \in DOMAIN tasks : tasks[i] = IF images[Seen + i] = "image" THEN Seen + i ELSE 0
      /\ IsFound(foundImages, 1 .. Seen) /\ Ascending(foundImages)
  BY DEF ImagesInv, LoopsInv
<1>4. Seen = atImage[1] - 1 - Len(tasks)
  BY DEF Seen
<1>5. atImage[1] \in 1 .. ImageCount + 1 /\ Len(tasks) \in Nat /\ DOMAIN tasks = 1 .. Len(tasks)
  BY <1>3
<1> QED
  BY <1>1, <1>2, <1>3, <1>4, <1>5

\* The loop keeps what it has found,
LEMMA LoopImageKeeps ==
  ASSUME ImagesInv, imagesOutcome = "running", LoopImage
  PROVE  ImagesInv'
<1>1. /\ version = "sequential" /\ UNCHANGED <<version, images, threads, holding, tasks>>
      /\ ImageCount' = ImageCount /\ Started' = Started
  BY SharesStay DEF LoopImage
<1>2. /\ tasks = <<>> /\ Len(tasks) = 0 /\ Seen = atImage[1] - 1
      /\ \A k \in 1 .. Seen : images[k] # "throws"
  <2>1. tasks = <<>> /\ \A k \in 1 .. Seen : images[k] # "throws"
    BY <1>1 DEF ImagesInv, LoopsInv
  <2> QED
    BY <1>1, <2>1, LoopFacts
<1>3. /\ ImageCount \in Nat /\ atImage \in [1 .. 1 -> 1 .. ImageCount + 1] /\ holding = {}
      /\ Seen \in Nat /\ IsFound(foundImages, 1 .. Seen) /\ Ascending(foundImages)
      /\ foundImages \in Seq(Nat) /\ atImage[1] \in 1 .. ImageCount + 1
  BY <1>1, LoopFacts
<1>4. CASE UNCHANGED <<atImage, foundImages>>
           /\ (atImage[1] > ImageCount \/ imagesOutcome' = "terminated")
           /\ imagesOutcome' \in {"returned", "terminated"}
  <2>1. Seen' = Seen /\ IsFound(foundImages, 1 .. Seen)'
    BY <1>1, <1>3, <1>4 DEF Seen, IsFound
  <2>2. ImageTypes' /\ SharesInv'
    BY <1>1, <1>4 DEF ImagesInv, ImageTypes, SharesInv
  <2>3. LoopsInv'
    BY <1>1, <1>2, <1>3, <1>4, <2>1 DEF LoopsInv, Ascending
  <2>4. ReturnInv'
    BY <1>1, <1>2, <1>3, <1>4, <2>1 DEF ReturnInv
  <2> QED
    BY <2>2, <2>3, <2>4 DEF ImagesInv
<1>5. CASE /\ atImage[1] <= ImageCount /\ images[atImage[1]] # "throws"
           /\ foundImages' = foundImages \o (IF images[atImage[1]] = "image" THEN <<atImage[1]>> ELSE <<>>)
           /\ atImage' = [atImage EXCEPT ![1] = @ + 1] /\ imagesOutcome' = imagesOutcome
  <2>1. /\ atImage[1] = Seen + 1 /\ atImage' \in [1 .. 1 -> 1 .. ImageCount + 1]
        /\ atImage'[1] = Seen + 2
    <3>1. atImage[1] = Seen + 1 /\ 1 \in 1 .. 1 /\ atImage[1] + 1 \in 1 .. ImageCount + 1
      BY <1>2, <1>3, <1>5
    <3>2. atImage' = [atImage EXCEPT ![1] = atImage[1] + 1]
      BY <1>5
    <3>3. atImage' \in [1 .. 1 -> 1 .. ImageCount + 1] /\ atImage'[1] = atImage[1] + 1
      BY <1>3, <3>1, <3>2
    <3> QED
      BY <1>3, <3>1, <3>3
  <2>2. IsFound(foundImages', 1 .. Seen + 1) /\ Ascending(foundImages') /\ foundImages' \in Seq(Nat)
    <3> DEFINE n == Seen
    <3>1. foundImages' = foundImages \o (IF images[n + 1] = "image" THEN <<n + 1>> ELSE <<>>)
      BY <1>5, <2>1
    <3>2. n \in Nat /\ IsFound(foundImages, 1 .. n) /\ Ascending(foundImages)
      BY <1>3
    <3> HIDE DEF n
    <3>3. /\ IsFound(foundImages', 1 .. n + 1) /\ Ascending(foundImages')
          /\ foundImages' \in Seq(Nat)
      BY <3>1, <3>2, FoundUp
    <3> QED
      BY <3>3 DEF n
  <2>3. Seen' = Seen + 1 /\ tasks' = <<>>
    <3>1. Seen' = atImage'[1] - 1 - Len(tasks') /\ tasks' = <<>> /\ Len(tasks') = 0
      BY <1>1, <1>2 DEF Seen
    <3> QED
      BY <1>3, <2>1, <3>1
  <2>4. IsFound(foundImages, 1 .. Seen)'
    BY <1>1, <2>2, <2>3 DEF IsFound
  <2>5. \A k \in 1 .. Seen' : images'[k] # "throws"
    <3> DEFINE n == Seen
    <3>1. n \in Nat /\ Seen' = n + 1 /\ images' = images /\ images[n + 1] # "throws"
      BY <1>1, <1>3, <1>5, <2>1, <2>3
    <3>2. \A k \in 1 .. n : images[k] # "throws"
      BY <1>2
    <3> HIDE DEF n
    <3> QED
      BY <3>1, <3>2
  <2>6. ImageTypes' /\ SharesInv' /\ ReturnInv'
    BY <1>1, <1>5, <2>2 DEF ImagesInv, ImageTypes, SharesInv, ReturnInv
  <2>7. LoopsInv'
    <3>1. tasks' \in Seq(Nat) /\ DOMAIN tasks' = {} /\ Seen' \in Nat
      BY <1>3, <2>3
    <3> QED
      BY <1>1, <1>3, <2>1, <2>2, <2>3, <2>4, <2>5, <3>1 DEF LoopsInv, Ascending
  <2> QED
    BY <2>6, <2>7 DEF ImagesInv
<1> QED
  BY <1>4, <1>5 DEF LoopImage

\* the coroutines keep what they have found,
LEMMA MakeTaskKeeps ==
  ASSUME ImagesInv, imagesOutcome = "running", MakeTask
  PROVE  ImagesInv'
<1>1. /\ version = "coroutines" /\ UNCHANGED <<version, images, threads, holding, foundImages>>
      /\ ImageCount' = ImageCount /\ Started' = Started /\ atImage[1] <= ImageCount
      /\ atImage' = [atImage EXCEPT ![1] = @ + 1] /\ imagesOutcome' = "running"
      /\ tasks' = Append(tasks, IF images[atImage[1]] = "image" THEN atImage[1] ELSE 0)
  BY SharesStay DEF MakeTask
<1>2. /\ ImageCount \in Nat /\ atImage \in [1 .. 1 -> 1 .. ImageCount + 1] /\ holding = {}
      /\ atImage[1] \in 1 .. ImageCount + 1
      /\ tasks \in Seq(Nat) /\ Len(tasks) \in Nat
      /\ \A i \in 1 .. Len(tasks) : tasks[i] = IF images[Seen + i] = "image" THEN Seen + i ELSE 0
      /\ IsFound(foundImages, 1 .. Seen) /\ Ascending(foundImages)
      /\ Seen = 0 /\ atImage[1] = Len(tasks) + 1
  <2>1. Seen = 0
    BY <1>1 DEF ImagesInv, LoopsInv
  <2> QED
    BY <1>1, <2>1, LoopFacts
<1>3. /\ tasks' \in Seq(Nat) /\ DOMAIN tasks' = 1 .. Len(tasks) + 1 /\ Len(tasks') = Len(tasks) + 1
      /\ \A i \in 1 .. Len(tasks) : tasks'[i] = tasks[i]
      /\ tasks'[Len(tasks) + 1] = IF images[atImage[1]] = "image" THEN atImage[1] ELSE 0
  <2> DEFINE x == IF images[atImage[1]] = "image" THEN atImage[1] ELSE 0
  <2>1. x \in Nat
    BY <1>2
  <2> HIDE DEF x
  <2> QED
    BY <1>1, <1>2, <2>1 DEF x
<1>4. atImage' \in [1 .. 1 -> 1 .. ImageCount + 1] /\ atImage'[1] = Len(tasks) + 2
  BY <1>1, <1>2
<1>5. Seen' = 0
  <2>1. Seen' = atImage'[1] - 1 - Len(tasks')
    BY DEF Seen
  <2> QED
    BY <1>2, <1>3, <1>4, <2>1
<1>6. \A i \in DOMAIN tasks' : tasks'[i] = IF images'[Seen' + i] = "image" THEN Seen' + i ELSE 0
  <2> SUFFICES ASSUME NEW i \in 1 .. Len(tasks) + 1
               PROVE  tasks'[i] = IF images[i] = "image" THEN i ELSE 0
    BY <1>1, <1>3, <1>5
  <2>1. CASE i \in 1 .. Len(tasks)
    <3>1. tasks[i] = IF images[Seen + i] = "image" THEN Seen + i ELSE 0
      BY <1>2, <2>1
    <3>2. Seen + i = i
      BY <1>2
    <3> QED
      BY <1>3, <2>1, <3>1, <3>2
  <2>2. CASE i = Len(tasks) + 1
    BY <1>2, <1>3, <2>2
  <2> QED
    BY <1>2, <2>1, <2>2
<1>7. IsFound(foundImages, 1 .. Seen)'
  <2>1. IsFound(foundImages, 1 .. 0)
    BY <1>2
  <2> QED
    BY <1>1, <1>5, <2>1 DEF IsFound
<1>8. LoopsInv'
  BY <1>1, <1>2, <1>3, <1>4, <1>5, <1>6, <1>7 DEF LoopsInv, Ascending
<1>9. ImageTypes' /\ SharesInv' /\ ReturnInv'
  BY <1>1 DEF ImagesInv, ImageTypes, SharesInv, ReturnInv
<1> QED
  BY <1>8, <1>9 DEF ImagesInv

\* and what is taken from them,
LEMMA CollectTaskKeeps ==
  ASSUME ImagesInv, imagesOutcome = "running", CollectTask
  PROVE  ImagesInv'
<1>1. /\ version = "coroutines" /\ UNCHANGED <<version, images, threads, holding, atImage>>
      /\ ImageCount' = ImageCount /\ Started' = Started /\ atImage[1] > ImageCount
      /\ imagesOutcome' = "running" /\ tasks # <<>> /\ tasks' = Tail(tasks)
      /\ foundImages' = foundImages \o (IF Head(tasks) > 0 THEN <<Head(tasks)>> ELSE <<>>)
  BY SharesStay DEF CollectTask
<1>2. /\ ImageCount \in Nat /\ atImage \in [1 .. 1 -> 1 .. ImageCount + 1] /\ holding = {}
      /\ atImage[1] = ImageCount + 1 /\ Seen = ImageCount - Len(tasks) /\ Seen \in Nat
      /\ tasks \in Seq(Nat) /\ Len(tasks) \in Nat
      /\ \A i \in 1 .. Len(tasks) : tasks[i] = IF images[Seen + i] = "image" THEN Seen + i ELSE 0
      /\ IsFound(foundImages, 1 .. Seen) /\ Ascending(foundImages)
  BY <1>1, LoopFacts
<1>3. /\ tasks' \in Seq(Nat) /\ Len(tasks') = Len(tasks) - 1 /\ Len(tasks) >= 1
      /\ DOMAIN tasks' = 1 .. Len(tasks) - 1
      /\ \A i \in 1 .. Len(tasks) - 1 : tasks'[i] = tasks[i + 1]
      /\ Head(tasks) = tasks[1]
  BY <1>1, <1>2
<1>4. Seen' = Seen + 1
  <2>1. Seen' = atImage'[1] - 1 - Len(tasks')
    BY DEF Seen
  <2> QED
    BY <1>1, <1>2, <1>3, <2>1
<1>5. /\ Head(tasks) > 0 <=> images[Seen + 1] = "image"
      /\ Head(tasks) > 0 => Head(tasks) = Seen + 1
  <2>1. 1 \in 1 .. Len(tasks)
    BY <1>2, <1>3
  <2>2. tasks[1] = IF images[Seen + 1] = "image" THEN Seen + 1 ELSE 0
    BY <1>2, <2>1
  <2> QED
    BY <1>2, <1>3, <2>2
<1>6. IsFound(foundImages', 1 .. Seen + 1) /\ Ascending(foundImages') /\ foundImages' \in Seq(Nat)
  <2>1. foundImages' = foundImages \o (IF images[Seen + 1] = "image" THEN <<Seen + 1>> ELSE <<>>)
    BY <1>1, <1>5
  <2> QED
    BY <1>2, <2>1, FoundUp
<1>7. IsFound(foundImages, 1 .. Seen)'
  BY <1>1, <1>4, <1>6 DEF IsFound
<1>8. \A i \in DOMAIN tasks' : tasks'[i] = IF images'[Seen' + i] = "image" THEN Seen' + i ELSE 0
  <2> SUFFICES ASSUME NEW i \in 1 .. Len(tasks) - 1
               PROVE  tasks'[i] = IF images[Seen + 1 + i] = "image" THEN Seen + 1 + i ELSE 0
    BY <1>1, <1>3, <1>4
  <2>1. i + 1 \in 1 .. Len(tasks) /\ Seen + (i + 1) = Seen + 1 + i
    BY <1>2
  <2>2. tasks[i + 1] = IF images[Seen + (i + 1)] = "image" THEN Seen + (i + 1) ELSE 0
    BY <1>2, <2>1
  <2> QED
    BY <1>3, <2>1, <2>2
<1>9. LoopsInv'
  <2>1. /\ version' = "coroutines" /\ atImage' \in [1 .. 1 -> 1 .. ImageCount' + 1]
        /\ holding' = {} /\ atImage'[1] = ImageCount' + 1 /\ tasks' \in Seq(Nat)
    BY <1>1, <1>2, <1>3
  <2>2. Seen' \in Nat
    BY <1>2, <1>4
  <2>3. Ascending(foundImages)'
    BY <1>6 DEF Ascending
  <2>4. imagesOutcome' # "terminated" /\ ~(atImage'[1] <= ImageCount')
    BY <1>1, <1>2, <2>1
  <2> QED
    BY <1>7, <1>8, <2>1, <2>2, <2>3, <2>4 DEF LoopsInv
<1>10. ImageTypes' /\ SharesInv' /\ ReturnInv'
  BY <1>1, <1>6 DEF ImagesInv, ImageTypes, SharesInv, ReturnInv
<1> QED
  BY <1>9, <1>10 DEF ImagesInv

\* until there is nothing left to take.
LEMMA EndTasksKeeps ==
  ASSUME ImagesInv, imagesOutcome = "running", EndTasks
  PROVE  ImagesInv'
<1>1. /\ version = "coroutines" /\ ImageCount' = ImageCount /\ imagesOutcome' = "returned"
      /\ UNCHANGED <<version, images, threads, holding, atImage, tasks, foundImages>>
      /\ atImage[1] > ImageCount /\ tasks = <<>> /\ Len(tasks) = 0
  BY SharesStay DEF EndTasks
<1>2. Seen = ImageCount /\ Seen' = Seen
  <2>1. Seen' = Seen
    BY <1>1 DEF Seen
  <2> QED
    BY <1>1, <2>1, LoopFacts
<1>3. IsFound(foundImages, 1 .. Seen) /\ IsFound(foundImages, 1 .. Seen)'
  <2>1. IsFound(foundImages, 1 .. Seen)
    BY <1>1, LoopFacts
  <2> QED
    BY <1>1, <1>2, <2>1 DEF IsFound
<1>4. LoopsInv'
  <2>1. \A i \in DOMAIN tasks : tasks[i] = IF images[Seen + i] = "image" THEN Seen + i ELSE 0
    BY <1>1
  <2> QED
    BY <1>1, <1>2, <1>3, <2>1, LoopFacts DEF LoopsInv, Ascending
<1>5. ImageTypes' /\ SharesInv'
  BY <1>1 DEF ImagesInv, ImageTypes, SharesInv
<1>6. ReturnInv'
  <2>1. Seen' = ImageCount' /\ version' # "threads"
    BY <1>1, <1>2
  <2> QED
    BY <2>1 DEF ReturnInv
<1> QED
  BY <1>4, <1>5, <1>6 DEF ImagesInv

\* At first nothing was found.
LEMMA ImagesStart == ASSUME ImagesInit PROVE ImagesInv
<1>1. /\ foundImages = <<>> /\ tasks = <<>> /\ holding = {} /\ Len(tasks) = 0
      /\ version \in {"sequential", "threads", "coroutines"}
      /\ atImage = [t \in 1 .. threads |-> IF version = "threads" THEN First(t) ELSE 1]
      /\ imagesOutcome = IF threads = 0 THEN "undefined" ELSE "running"
  BY DEF ImagesInit
<1>2. threads \in Nat /\ (version # "threads" => threads = 1)
  BY ImagesAssumption DEF ImagesInit
<1>3. images \in Seq({"image", "empty", "throws"}) /\ ImageCount \in Nat
  <2>1. PICK n \in 0 .. MaxImages : images \in [1 .. n -> {"image", "empty", "throws"}]
    BY DEF ImagesInit
  <2>2. n \in Nat
    BY ImagesAssumption
  <2> QED
    BY <2>1, <2>2 DEF ImageCount
<1>4. ImageTypes /\ ReturnInv
  BY <1>1, <1>2, <1>3 DEF ImageTypes, ReturnInv
<1>5. IsFound(<<>>, {}) /\ 1 .. 0 = {}
  BY DEF IsFound
<1>6. SharesInv
  <2> SUFFICES ASSUME version = "threads" PROVE SharesInv
    BY DEF SharesInv
  <2>1. CASE threads = 0
    <3>1. 1 .. threads = {} /\ Started = {} /\ atImage \in [1 .. threads -> Nat]
      BY <1>1, <2>1 DEF Started
    <3>2. Passed = {}
      BY <3>1 DEF Passed
    <3> QED
      BY <1>1, <1>5, <3>1, <3>2 DEF SharesInv
  <2>2. CASE threads # 0
    <3>1. /\ \A t \in 1 .. threads : atImage[t] = First(t) /\ First(t) \in Nat
          /\ Started \subseteq 1 .. threads
          /\ \A t \in Started : First(t) \in Nat /\ End(t) \in Nat /\ First(t) <= End(t)
      BY <1>1, <1>2, <1>3, <2>2, Shares
    <3>2. atImage \in [1 .. threads -> Nat]
      BY <1>1, <3>1
    <3>3. Passed = {}
      <4>1. ASSUME NEW k \in 1 .. ImageCount, NEW t \in Started, First(t) <= k, k < atImage[t]
            PROVE  FALSE
        BY <3>1, <4>1
      <4> QED
        BY <4>1 DEF Passed
    <3>4. \A t \in Started : First(t) <= atImage[t] /\ atImage[t] <= End(t) + 1
      BY <3>1
    <3> QED
      BY <1>1, <1>5, <3>1, <3>2, <3>3, <3>4 DEF SharesInv
  <2> QED
    BY <2>1, <2>2
<1>7. LoopsInv
  <2> SUFFICES ASSUME version # "threads" PROVE LoopsInv
    BY DEF LoopsInv
  <2>1. atImage \in [1 .. 1 -> 1 .. ImageCount + 1] /\ atImage[1] = 1
    BY <1>1, <1>2, <1>3
  <2>2. Seen = 0
    BY <1>1, <2>1 DEF Seen
  <2> QED
    BY <1>1, <1>2, <1>5, <2>1, <2>2 DEF LoopsInv, Ascending
<1> QED
  BY <1>4, <1>6, <1>7 DEF ImagesInv

\* The three versions return what they should.
LEMMA ImagesShow == ASSUME ImagesInv PROVE ImagesCorrect
<1>1. ImageCount \in Nat
  BY DEF ImagesInv, ImageTypes, ImageCount
<1> DEFINE K == IF version = "threads" THEN Passed ELSE 1 .. Seen
<1>2. IsFound(foundImages, K) /\ K \in SUBSET (1 .. ImageCount)
      /\ (imagesOutcome = "returned" => K = 1 .. ImageCount)
  <2>1. CASE version = "threads"
    BY <2>1 DEF ImagesInv, SharesInv, ReturnInv, Passed
  <2>2. CASE version # "threads"
    <3>1. Seen \in Nat /\ IsFound(foundImages, 1 .. Seen)
          /\ Seen = atImage[1] - 1 - Len(tasks) /\ Len(tasks) \in Nat
          /\ atImage[1] \in 1 .. ImageCount + 1
      BY <2>2, LoopFacts
    <3>2. Seen <= ImageCount /\ K = 1 .. Seen
      BY <1>1, <2>2, <3>1
    <3> QED
      BY <1>1, <2>2, <3>1, <3>2 DEF ImagesInv, ReturnInv
  <2> QED
    BY <2>1, <2>2
<1> HIDE DEF K
<1>3. Len(foundImages) <= ImageCount
  <2>1. foundImages \in Seq(Nat) /\ Len(foundImages) \in Nat /\ DOMAIN foundImages = 1 .. Len(foundImages)
    BY DEF ImagesInv, ImageTypes
  <2>2. \A j \in DOMAIN foundImages : foundImages[j] \in {foundImages[i] : i \in DOMAIN foundImages}
    OBVIOUS
  <2>3. {foundImages[i] : i \in DOMAIN foundImages} = {k \in K : images[k] = "image"}
    BY <1>2 DEF IsFound
  <2>4. \A j \in DOMAIN foundImages : foundImages[j] \in 1 .. ImageCount
    BY <1>2, <2>2, <2>3
  <2> QED
    BY <1>1, <1>2, <2>1, <2>4, InjectiveAtMost DEF IsFound
<1>4. Cardinality(holding) <= 1
  <2>1. holding = {} \/ \E t : holding = {t}
    BY DEF ImagesInv, SharesInv, LoopsInv
  <2>2. CASE holding = {}
    <3>1. Cardinality({}) = 0
      BY FS_EmptySet
    <3> QED
      BY <2>2, <3>1
  <2>3. ASSUME NEW t, holding = {t}
        PROVE  Cardinality(holding) <= 1
    <3>1. Cardinality({t}) = 1
      BY FS_Singleton
    <3> QED
      BY <2>3, <3>1
  <2> QED
    BY <2>1, <2>2, <2>3
<1>5. \A t \in DOMAIN atImage : atImage[t] \in 1 .. ImageCount + threads * threads + 1
  <2>1. CASE version = "threads"
    <3> SUFFICES ASSUME NEW t \in 1 .. threads, threads # 0
                 PROVE  atImage[t] \in 1 .. ImageCount + threads * threads + 1
      BY <2>1 DEF ImagesInv, SharesInv, ImageTypes
    <3>1. /\ threads \in Nat \ {0} /\ atImage[t] \in Nat
          /\ t \notin Started => atImage[t] = First(t)
          /\ t \in Started => First(t) <= atImage[t] /\ atImage[t] <= End(t) + 1
      BY <2>1 DEF ImagesInv, SharesInv, ImageTypes
    <3>2. /\ First(t) \in Nat /\ First(t) >= 1 /\ First(t) <= ImageCount + threads
          /\ t \in Started => End(t) \in Nat /\ End(t) <= ImageCount
      BY <3>1, Shares DEF ImagesInv, ImageTypes
    <3>3. threads * threads \in Nat /\ threads <= threads * threads
      <4>1. PICK m \in Nat : threads = m + 1
        <5>1. threads - 1 \in Nat /\ threads = threads - 1 + 1
          BY <3>1
        <5> QED
          BY <5>1
      <4>2. threads * threads = m * m + m + m + 1 /\ m * m \in Nat
        BY <4>1
      <4> QED
        BY <4>1, <4>2
    <3> QED
      BY <1>1, <3>1, <3>2, <3>3
  <2>2. CASE version # "threads"
    BY <1>1, <2>2, LoopFacts
  <2> QED
    BY <2>1, <2>2
<1>6. FindsEachImage
  <2> SUFFICES ASSUME imagesOutcome = "returned" PROVE FindsEachImage
    BY DEF FindsEachImage
  <2>1. IsFound(foundImages, 1 .. ImageCount)
    BY <1>2
  <2>2. version # "threads" => Ascending(foundImages)
    BY LoopFacts
  <2> QED
    <3>1. /\ {foundImages[j] : j \in DOMAIN foundImages} = {k \in 1 .. ImageCount : images[k] = "image"}
          /\ \A i, j \in DOMAIN foundImages : i < j => foundImages[i] # foundImages[j]
      BY <2>1 DEF IsFound
    <3> QED
      BY <2>2, <3>1, Zenon DEF FindsEachImage, Ascending
<1>7. DropsSilently
  <2>1. version = "coroutines" => imagesOutcome # "terminated"
    BY DEF ImagesInv, LoopsInv
  <2>2. ASSUME NEW k \in 1 .. ImageCount, images[k] = "throws", imagesOutcome = "returned"
        PROVE  version = "coroutines"
    <3>1. version # "threads"
      BY <2>2 DEF ImagesInv, SharesInv, ReturnInv
    <3>2. Seen = ImageCount /\ version \in {"sequential", "coroutines"}
      BY <2>2, <3>1, LoopFacts DEF ImagesInv, ReturnInv
    <3> QED
      BY <2>2, <3>1, <3>2 DEF ImagesInv, LoopsInv
  <2> QED
    BY <2>1, <2>2 DEF DropsSilently
<1> QED
  BY <1>3, <1>4, <1>5, <1>6, <1>7 DEF ImagesCorrect, ImagesTypeOK

THEOREM ImagesAgree == ImagesSpec => []ImagesCorrect
<1>1. ImagesInv /\ [ImagesNext]_imageVars => ImagesInv'
  <2>1. ASSUME ImagesInv, UNCHANGED imageVars PROVE ImagesInv'
    <3>1. UNCHANGED <<version, images, threads, atImage, holding, tasks, foundImages, imagesOutcome>>
      BY <2>1 DEF imageVars
    <3>2. Seen' = Seen /\ Passed' = Passed /\ ImageCount' = ImageCount /\ Started' = Started
          /\ \A t : First(t)' = First(t) /\ End(t)' = End(t)
      BY <3>1 DEF Seen, Passed, ImageCount, Started, First, End, PerThread, Least
    <3>3. /\ IsFound(foundImages, Passed)' = IsFound(foundImages, Passed)
          /\ IsFound(foundImages, 1 .. Seen)' = IsFound(foundImages, 1 .. Seen)
      BY <3>1, <3>2 DEF IsFound
    <3>4. ImageTypes' /\ LoopsInv' /\ ReturnInv'
      BY <2>1, <3>1, <3>2, <3>3 DEF ImagesInv, ImageTypes, LoopsInv, ReturnInv, Ascending
    <3>5. SharesInv'
      BY <2>1, <3>1, <3>2, <3>3 DEF ImagesInv, SharesInv
    <3> QED
      BY <3>4, <3>5 DEF ImagesInv
  <2>2. ASSUME ImagesInv, ImagesNext PROVE ImagesInv'
    BY <2>2, ReadImageKeeps, PushResultKeeps, JoinThreadsKeeps, LoopImageKeeps, MakeTaskKeeps,
       CollectTaskKeeps, EndTasksKeeps DEF ImagesNext
  <2> QED
    BY <2>1, <2>2
<1> QED
  BY <1>1, ImagesStart, ImagesShow, PTL DEF ImagesSpec

-----------------------------------------------------------------------------
(* TaskChain: the demos by their kinds, and the time that they take.         *)

(* The demos whose stages are one call each, and when each stage of them begins, if no thread *)
(* is late. *)
OneByOne == {"pipeline", "callback", "coroutine", "with_error"}
Planned == [pipeline   |-> <<0, 10, 15, 30, 38>>,
            callback   |-> <<0, 3, 11, 23>>,
            coroutine  |-> <<0, 3, 11, 23>>,
            with_error |-> <<0, 8>>]

LEMMA StagesAre ==
  /\ DOMAIN Stages = {"pipeline", "vector", "pair", "parallel", "callback", "coroutine", "with_error"}
  /\ Stages["pipeline"] = << <<"read">>, <<"parse">>, <<"fetch">>, <<"write">> >>
  /\ Stages["vector"] = << <<"A", "B", "C">> >>
  /\ Stages["pair"] = << <<"name", "age">> >>
  /\ Stages["parallel"] = << <<"read", "read_b">>, <<"parse">> >>
  /\ Stages["callback"] = << <<"cache">>, <<"db">>, <<"http">> >>
  /\ Stages["coroutine"] = << <<"cache">>, <<"db">>, <<"http">> >>
  /\ Stages["with_error"] = << <<"invalid">> >>
<1>1. /\ DOMAIN Chains = {"pipeline", "vector", "pair", "parallel"}
      /\ DOMAIN Requests = {"callback", "coroutine", "with_error"}
  BY DEF Chains, Requests
<1>2. DOMAIN Stages = {"pipeline", "vector", "pair", "parallel", "callback", "coroutine", "with_error"}
  BY <1>1 DEF Stages
<1>3. \A d \in DOMAIN Stages : Stages[d] = IF d \in DOMAIN Chains THEN Chains[d] ELSE Requests[d]
  BY DEF Stages
<1>4. /\ Stages["pipeline"] = Chains["pipeline"] /\ Stages["vector"] = Chains["vector"]
      /\ Stages["pair"] = Chains["pair"] /\ Stages["parallel"] = Chains["parallel"]
  BY <1>1, <1>2, <1>3
<1>5. /\ Stages["callback"] = Requests["callback"] /\ Stages["coroutine"] = Requests["coroutine"]
      /\ Stages["with_error"] = Requests["with_error"]
  <2>1. /\ "callback" \notin DOMAIN Chains /\ "coroutine" \notin DOMAIN Chains
        /\ "with_error" \notin DOMAIN Chains
    BY <1>1
  <2> QED
    BY <1>2, <1>3, <2>1
<1> QED
  BY <1>2, <1>4, <1>5 DEF Chains, Requests, Nested

LEMMA Delays ==
  /\ Delay("cache") = 3 /\ Delay("db") = 8 /\ Delay("invalid") = 8 /\ Delay("http") = 12
  /\ Delay("read") = 10 /\ Delay("read_b") = 10 /\ Delay("parse") = 5 /\ Delay("fetch") = 15
  /\ Delay("write") = 8 /\ Delay("A") = 10 /\ Delay("B") = 15 /\ Delay("C") = 8
  /\ Delay("name") = 5 /\ Delay("age") = 10
<1>1. DOMAIN RequestDelay = {"cache", "db", "invalid", "http"}
  BY DEF RequestDelay
<1>2. /\ Delay("cache") = RequestDelay["cache"] /\ Delay("db") = RequestDelay["db"]
      /\ Delay("invalid") = RequestDelay["invalid"] /\ Delay("http") = RequestDelay["http"]
  BY <1>1 DEF Delay
<1>3. /\ Delay("read") = 10 /\ Delay("read_b") = 10 /\ Delay("parse") = 5 /\ Delay("fetch") = 15
      /\ Delay("write") = 8 /\ Delay("A") = 10 /\ Delay("B") = 15 /\ Delay("C") = 8
      /\ Delay("name") = 5 /\ Delay("age") = 10
  BY <1>1 DEF Delay
<1> QED
  BY <1>2, <1>3 DEF RequestDelay

\* What is known of a stage of one call.
OneCall(d, s) ==
  /\ Len(Stages[d][s]) = 1 /\ Stages[d][s][1] \notin Sleeps
  /\ Planned[d][s] \in Nat /\ Delay(Stages[d][s][1]) \in Nat
  /\ Planned[d][s + 1] = Planned[d][s] + Delay(Stages[d][s][1])
  /\ Elements(Stages[d][s]) = {Stages[d][s][1]}
  /\ Stages[d][s][1] = "invalid" <=> d = "with_error"

LEMMA PlannedAre ==
  /\ Planned["pipeline"] = <<0, 10, 15, 30, 38>> /\ Planned["callback"] = <<0, 3, 11, 23>>
  /\ Planned["coroutine"] = <<0, 3, 11, 23>> /\ Planned["with_error"] = <<0, 8>>
BY DEF Planned

LEMMA OneElement == \A x : Len(<<x>>) = 1 /\ <<x>>[1] = x /\ Elements(<<x>>) = {x}
BY DEF Elements

LEMMA OneCallEach ==
  /\ \A d \in OneByOne : Len(Stages[d]) \in Nat /\ \A s \in 1 .. Len(Stages[d]) : OneCall(d, s)
  /\ Len(Stages["pipeline"]) = 4 /\ Len(Stages["callback"]) = 3
  /\ Len(Stages["coroutine"]) = 3 /\ Len(Stages["with_error"]) = 1
<1>1. Len(Stages["pipeline"]) = 4 /\ Len(Stages["pipeline"]) \in Nat
      /\ \A s \in 1 .. Len(Stages["pipeline"]) : OneCall("pipeline", s)
  <2>1. Len(Stages["pipeline"]) = 4
    BY StagesAre
  <2>2. OneCall("pipeline", 1)
    <3>1. /\ Stages["pipeline"][1] = <<"read">> /\ Planned["pipeline"][1] \in Nat
          /\ Planned["pipeline"][1 + 1] = Planned["pipeline"][1] + Delay("read") /\ Delay("read") \in Nat
      BY StagesAre, PlannedAre, Delays
    <3>2. "read" \notin Sleeps /\ ("read" = "invalid" <=> "pipeline" = "with_error")
      BY DEF Sleeps
    <3> QED
      BY <3>1, <3>2, OneElement DEF OneCall
  <2>3. OneCall("pipeline", 2)
    <3>1. /\ Stages["pipeline"][2] = <<"parse">> /\ Planned["pipeline"][2] \in Nat
          /\ Planned["pipeline"][2 + 1] = Planned["pipeline"][2] + Delay("parse") /\ Delay("parse") \in Nat
      BY StagesAre, PlannedAre, Delays
    <3>2. "parse" \notin Sleeps /\ ("parse" = "invalid" <=> "pipeline" = "with_error")
      BY DEF Sleeps
    <3> QED
      BY <3>1, <3>2, OneElement DEF OneCall
  <2>4. OneCall("pipeline", 3)
    <3>1. /\ Stages["pipeline"][3] = <<"fetch">> /\ Planned["pipeline"][3] \in Nat
          /\ Planned["pipeline"][3 + 1] = Planned["pipeline"][3] + Delay("fetch") /\ Delay("fetch") \in Nat
      BY StagesAre, PlannedAre, Delays
    <3>2. "fetch" \notin Sleeps /\ ("fetch" = "invalid" <=> "pipeline" = "with_error")
      BY DEF Sleeps
    <3> QED
      BY <3>1, <3>2, OneElement DEF OneCall
  <2>5. OneCall("pipeline", 4)
    <3>1. /\ Stages["pipeline"][4] = <<"write">> /\ Planned["pipeline"][4] \in Nat
          /\ Planned["pipeline"][4 + 1] = Planned["pipeline"][4] + Delay("write") /\ Delay("write") \in Nat
      BY StagesAre, PlannedAre, Delays
    <3>2. "write" \notin Sleeps /\ ("write" = "invalid" <=> "pipeline" = "with_error")
      BY DEF Sleeps
    <3> QED
      BY <3>1, <3>2, OneElement DEF OneCall
  <2> QED
    BY <2>1, <2>2, <2>3, <2>4, <2>5
<1>2. Len(Stages["callback"]) = 3 /\ Len(Stages["callback"]) \in Nat
      /\ \A s \in 1 .. Len(Stages["callback"]) : OneCall("callback", s)
  <2>1. Len(Stages["callback"]) = 3
    BY StagesAre
  <2>2. OneCall("callback", 1)
    <3>1. /\ Stages["callback"][1] = <<"cache">> /\ Planned["callback"][1] \in Nat
          /\ Planned["callback"][1 + 1] = Planned["callback"][1] + Delay("cache") /\ Delay("cache") \in Nat
      BY StagesAre, PlannedAre, Delays
    <3>2. "cache" \notin Sleeps /\ ("cache" = "invalid" <=> "callback" = "with_error")
      BY DEF Sleeps
    <3> QED
      BY <3>1, <3>2, OneElement DEF OneCall
  <2>3. OneCall("callback", 2)
    <3>1. /\ Stages["callback"][2] = <<"db">> /\ Planned["callback"][2] \in Nat
          /\ Planned["callback"][2 + 1] = Planned["callback"][2] + Delay("db") /\ Delay("db") \in Nat
      BY StagesAre, PlannedAre, Delays
    <3>2. "db" \notin Sleeps /\ ("db" = "invalid" <=> "callback" = "with_error")
      BY DEF Sleeps
    <3> QED
      BY <3>1, <3>2, OneElement DEF OneCall
  <2>4. OneCall("callback", 3)
    <3>1. /\ Stages["callback"][3] = <<"http">> /\ Planned["callback"][3] \in Nat
          /\ Planned["callback"][3 + 1] = Planned["callback"][3] + Delay("http") /\ Delay("http") \in Nat
      BY StagesAre, PlannedAre, Delays
    <3>2. "http" \notin Sleeps /\ ("http" = "invalid" <=> "callback" = "with_error")
      BY DEF Sleeps
    <3> QED
      BY <3>1, <3>2, OneElement DEF OneCall
  <2> QED
    BY <2>1, <2>2, <2>3, <2>4
<1>3. Len(Stages["coroutine"]) = 3 /\ Len(Stages["coroutine"]) \in Nat
      /\ \A s \in 1 .. Len(Stages["coroutine"]) : OneCall("coroutine", s)
  <2>1. Len(Stages["coroutine"]) = 3
    BY StagesAre
  <2>2. OneCall("coroutine", 1)
    <3>1. /\ Stages["coroutine"][1] = <<"cache">> /\ Planned["coroutine"][1] \in Nat
          /\ Planned["coroutine"][1 + 1] = Planned["coroutine"][1] + Delay("cache") /\ Delay("cache") \in Nat
      BY StagesAre, PlannedAre, Delays
    <3>2. "cache" \notin Sleeps /\ ("cache" = "invalid" <=> "coroutine" = "with_error")
      BY DEF Sleeps
    <3> QED
      BY <3>1, <3>2, OneElement DEF OneCall
  <2>3. OneCall("coroutine", 2)
    <3>1. /\ Stages["coroutine"][2] = <<"db">> /\ Planned["coroutine"][2] \in Nat
          /\ Planned["coroutine"][2 + 1] = Planned["coroutine"][2] + Delay("db") /\ Delay("db") \in Nat
      BY StagesAre, PlannedAre, Delays
    <3>2. "db" \notin Sleeps /\ ("db" = "invalid" <=> "coroutine" = "with_error")
      BY DEF Sleeps
    <3> QED
      BY <3>1, <3>2, OneElement DEF OneCall
  <2>4. OneCall("coroutine", 3)
    <3>1. /\ Stages["coroutine"][3] = <<"http">> /\ Planned["coroutine"][3] \in Nat
          /\ Planned["coroutine"][3 + 1] = Planned["coroutine"][3] + Delay("http") /\ Delay("http") \in Nat
      BY StagesAre, PlannedAre, Delays
    <3>2. "http" \notin Sleeps /\ ("http" = "invalid" <=> "coroutine" = "with_error")
      BY DEF Sleeps
    <3> QED
      BY <3>1, <3>2, OneElement DEF OneCall
  <2> QED
    BY <2>1, <2>2, <2>3, <2>4
<1>4. Len(Stages["with_error"]) = 1 /\ Len(Stages["with_error"]) \in Nat
      /\ \A s \in 1 .. Len(Stages["with_error"]) : OneCall("with_error", s)
  <2>1. Len(Stages["with_error"]) = 1
    BY StagesAre
  <2>2. OneCall("with_error", 1)
    <3>1. /\ Stages["with_error"][1] = <<"invalid">> /\ Planned["with_error"][1] \in Nat
          /\ Planned["with_error"][1 + 1] = Planned["with_error"][1] + Delay("invalid") /\ Delay("invalid") \in Nat
      BY StagesAre, PlannedAre, Delays
    <3>2. "invalid" \notin Sleeps /\ ("invalid" = "invalid" <=> "with_error" = "with_error")
      BY DEF Sleeps
    <3> QED
      BY <3>1, <3>2, OneElement DEF OneCall
  <2> QED
    BY <2>1, <2>2
<1>5. ASSUME NEW d \in OneByOne
      PROVE  Len(Stages[d]) \in Nat /\ \A s \in 1 .. Len(Stages[d]) : OneCall(d, s)
  <2>1. CASE d = "pipeline"
    BY <1>1, <2>1, Zenon
  <2>2. CASE d = "callback"
    BY <1>2, <2>2, Zenon
  <2>3. CASE d = "coroutine"
    BY <1>3, <2>3, Zenon
  <2>4. CASE d = "with_error"
    BY <1>4, <2>4, Zenon
  <2> QED
    BY <2>1, <2>2, <2>3, <2>4 DEF OneByOne
<1> QED
  BY <1>1, <1>2, <1>3, <1>4, <1>5

LEMMA StageCount ==
  ASSUME NEW d \in DOMAIN Stages
  PROVE  Len(Stages[d]) \in Nat \ {0} /\ DOMAIN Stages[d] = 1 .. Len(Stages[d])
<1>1. CASE d \in {"pipeline", "vector", "pair"}
  BY <1>1, StagesAre
<1>2. CASE d \in {"parallel", "callback", "coroutine", "with_error"}
  BY <1>2, StagesAre
<1> QED
  BY <1>1, <1>2, StagesAre

ChainTypes ==
  /\ demo \in DOMAIN Stages
  /\ stageNo \in 1 .. Len(Stages[demo]) + 1
  /\ launched \in Nat /\ now \in Nat /\ late \in 0 .. MaxLate
  /\ DOMAIN results = DOMAIN Stages[demo]

BeforeAndAfter ==
  \A s \in DOMAIN Stages[demo] : /\ s < stageNo => results[s] = Elements(Stages[demo][s])
                                 /\ s > stageNo => results[s] = {}

\* What a stage of one call may be at.
AtOneCall ==
  /\ results[stageNo] = {}
  /\ \/ launched = 0 /\ timers = {}
     \/ launched = 1 /\ timers = {<<Calls[1], now + Delay(Calls[1])>>}

OneByOneInv ==
  demo \in OneByOne =>
    /\ ~raised => now = Planned[demo][stageNo] + late
    /\ Running => AtOneCall
    /\ ~Running => timers = {}
    /\ raised => demo = "with_error"
    /\ demo = "with_error" => stageNo = 1

\* The reads of the parallel demo: both are launched before either calls back.
AtReads ==
  \/ launched = 0 /\ timers = {} /\ results[1] = {} /\ now = 0
  \/ launched = 1 /\ timers = {<<"read", 10>>} /\ results[1] = {} /\ now = 0
  \/ launched = 2 /\ timers = {<<"read", 10>>, <<"read_b", 10>>} /\ results[1] = {} /\ now = 0
  \/ launched = 2 /\ timers = {<<"read", 10>>} /\ results[1] = {"read_b"} /\ now \in 10 .. 10 + late
  \/ launched = 2 /\ timers = {<<"read_b", 10>>} /\ results[1] = {"read"} /\ now \in 10 .. 10 + late

ParallelInv ==
  demo = "parallel" =>
    /\ ~raised
    /\ stageNo = 1 => AtReads
    /\ stageNo = 2 => AtOneCall /\ now \in 10 .. 10 + late
    /\ stageNo = 3 => timers = {} /\ now \in 15 .. 15 + late

\* The demos that only sleep.
SleepInv ==
  /\ demo \in {"vector", "pair"} => ~raised /\ timers = {}
  /\ demo = "vector" =>
       \/ stageNo = 1 /\ launched = 0 /\ results[1] = {} /\ now = 0
       \/ stageNo = 1 /\ launched = 1 /\ results[1] = {"A"} /\ now = 10
       \/ stageNo = 1 /\ launched = 2 /\ results[1] = {"A", "B"} /\ now = 25
       \/ stageNo = 2 /\ now = 33
  /\ demo = "pair" =>
       \/ stageNo = 1 /\ launched = 0 /\ results[1] = {} /\ now = 0
       \/ stageNo = 1 /\ launched = 1 /\ results[1] = {"name"} /\ now = 5
       \/ stageNo = 2 /\ now = 15

ChainInv == ChainTypes /\ BeforeAndAfter /\ OneByOneInv /\ ParallelInv /\ SleepInv

LEMMA ChainInitInv == ChainInit => ChainInv
<1> SUFFICES ASSUME ChainInit PROVE ChainInv
  OBVIOUS
<1>1. Len(Stages[demo]) \in Nat \ {0} /\ DOMAIN Stages[demo] = 1 .. Len(Stages[demo])
  BY StageCount DEF ChainInit
<1>2. ChainTypes /\ BeforeAndAfter /\ results[1] = {}
  BY <1>1, ChainAssumption DEF ChainInit, ChainTypes, BeforeAndAfter
<1>3. OneByOneInv
  <2> SUFFICES ASSUME demo \in OneByOne PROVE OneByOneInv
    BY DEF OneByOneInv
  <2>1. Planned[demo][1] = 0
    BY PlannedAre DEF OneByOne
  <2>2. Running
    BY <1>1 DEF ChainInit, Running
  <2> QED
    BY <1>2, <2>1, <2>2 DEF ChainInit, OneByOneInv, AtOneCall
<1>4. stageNo = 1 /\ launched = 0 /\ timers = {} /\ now = 0 /\ raised = FALSE
  BY DEF ChainInit
<1>5. ParallelInv
  <2>1. AtReads
    BY <1>2, <1>4, Zenon DEF AtReads
  <2> QED
    BY <1>4, <2>1 DEF ParallelInv
<1>6. SleepInv
  BY <1>2, <1>4, Zenon DEF SleepInv
<1> QED
  BY <1>2, <1>3, <1>5, <1>6 DEF ChainInv

LEMMA OneByOneStep ==
  ASSUME ChainInv, ChainNext, demo \in OneByOne
  PROVE  ChainInv'
<1>1. /\ demo \in DOMAIN Stages /\ Len(Stages[demo]) \in Nat \ {0}
      /\ DOMAIN Stages[demo] = 1 .. Len(Stages[demo])
  BY StageCount DEF ChainInv, ChainTypes
<1>2. Running /\ stageNo \in 1 .. Len(Stages[demo]) /\ ~raised
  BY <1>1 DEF ChainInv, ChainTypes, ChainNext, LaunchAsync, LaunchSleep, CallBackOf, Running
<1> DEFINE c == Calls[1]
<1>3. /\ Len(Calls) = 1 /\ c \notin Sleeps /\ Planned[demo][stageNo] \in Nat /\ Delay(c) \in Nat
      /\ Planned[demo][stageNo + 1] = Planned[demo][stageNo] + Delay(c)
      /\ Elements(Calls) = {c} /\ (c = "invalid" <=> demo = "with_error")
  BY <1>2, OneCallEach DEF OneCall, Calls
<1>4. /\ AtOneCall /\ now = Planned[demo][stageNo] + late /\ now \in Nat /\ late \in 0 .. MaxLate
      /\ demo = "with_error" => stageNo = 1
  BY <1>2 DEF ChainInv, OneByOneInv, ChainTypes
<1>5. demo' = demo /\ DOMAIN results' = DOMAIN results
  BY DEF ChainNext, LaunchAsync, LaunchSleep, CallBackOf
<1>6. ~(demo \in {"parallel", "vector", "pair"})
  BY DEF OneByOne
<1>7. ParallelInv' /\ SleepInv'
  BY <1>5, <1>6 DEF ParallelInv, SleepInv
<1> HIDE DEF c
<1>8. CASE LaunchAsync
  <2>1. /\ launched = 0 /\ launched' = 1 /\ UNCHANGED <<demo, stageNo, results, raised, now, late>>
        /\ timers' = {<<c, now + Delay(c)>>} /\ Calls' = Calls /\ (Running' <=> Running)
    BY <1>3, <1>4, <1>8 DEF LaunchAsync, AtOneCall, Calls, Running, c
  <2>2. AtOneCall'
    BY <1>4, <2>1 DEF AtOneCall, c
  <2>3. ChainTypes' /\ BeforeAndAfter'
    BY <2>1 DEF ChainInv, ChainTypes, BeforeAndAfter
  <2>4. OneByOneInv'
    BY <1>2, <1>4, <2>1, <2>2 DEF OneByOneInv
  <2> QED
    BY <1>7, <2>3, <2>4 DEF ChainInv
<1>9. CASE LaunchSleep
  BY <1>3, <1>4, <1>9 DEF LaunchSleep, AtOneCall, c
<1>10. ASSUME NEW t \in timers, NEW l \in 0 .. MaxLate, CallBackOf(t, l)
       PROVE  ChainInv'
  <2>1. /\ timers = {<<c, now + Delay(c)>>} /\ t = <<c, now + Delay(c)>> /\ t[1] = c
        /\ t[2] = now + Delay(c) /\ results[stageNo] = {} /\ launched = 1
    BY <1>4 DEF AtOneCall, c
  <2>2. /\ late' = late + l /\ late' \in 0 .. MaxLate /\ now' = now + Delay(c) + l /\ now' \in Nat
        /\ timers' = {} /\ (raised' <=> c = "invalid")
    <3>1. /\ late' = late + l /\ late + l <= MaxLate /\ now' = Later(now, t[2] + l)
          /\ timers' = timers \ {t} /\ (raised' <=> t[1] = "invalid")
      BY <1>10 DEF CallBackOf
    <3>2. /\ late' = late + l /\ late' \in 0 .. MaxLate /\ now' = now + Delay(c) + l /\ now' \in Nat
      <4> DEFINE D == Delay(c)
      <4>1. D \in Nat /\ t[2] = now + D /\ now \in Nat /\ late \in Nat /\ l \in Nat /\ MaxLate \in Nat
        BY <1>3, <1>4, <2>1, ChainAssumption
      <4> HIDE DEF D
      <4>2. now' = Later(now, now + D + l)
        BY <3>1, <4>1
      <4>3. now' = now + D + l
        BY <4>1, <4>2 DEF Later
      <4>4. now' = now + Delay(c) + l
        BY <4>3 DEF D
      <4> QED
        BY <3>1, <4>1, <4>3, <4>4
    <3> QED
      BY <2>1, <3>1, <3>2
  <2>3. CASE demo = "with_error"
    <3>1. /\ raised' /\ UNCHANGED <<stageNo, launched>>
      BY <1>3, <1>10, <2>2, <2>3 DEF CallBackOf
    <3>2. results' = [results EXCEPT ![stageNo] = @]
      BY <1>10, <3>1 DEF CallBackOf
    <3>3. \A s \in DOMAIN results : results'[s] = results[s]
      BY <3>2
    <3>4. ChainTypes' /\ BeforeAndAfter'
      BY <1>1, <1>5, <2>1, <2>2, <3>1, <3>3 DEF ChainInv, ChainTypes, BeforeAndAfter
    <3>5. ~Running'
      BY <3>1 DEF Running
    <3>6. OneByOneInv'
      BY <1>4, <1>5, <2>2, <2>3, <3>1, <3>5 DEF OneByOneInv
    <3> QED
      BY <1>7, <3>4, <3>6 DEF ChainInv
  <2>4. CASE demo # "with_error"
    <3>1. /\ ~raised' /\ stageNo' = stageNo + 1 /\ launched' = 0
      BY <1>3, <1>10, <2>2, <2>4 DEF CallBackOf
    <3>2. results' = [results EXCEPT ![stageNo] = @ \cup {c}]
      BY <1>10, <2>1, <3>1 DEF CallBackOf
    <3>3. /\ results'[stageNo] = Elements(Stages[demo][stageNo])
          /\ \A s \in DOMAIN results : s # stageNo => results'[s] = results[s]
      <4>1. stageNo \in DOMAIN results
        BY <1>1, <1>2 DEF ChainInv, ChainTypes
      <4>2. results'[stageNo] = results[stageNo] \cup {c}
        BY <3>2, <4>1
      <4> QED
        BY <1>3, <2>1, <3>2, <4>2 DEF Calls
    <3>4. ChainTypes'
      <4>1. stageNo + 1 \in 1 .. Len(Stages[demo]) + 1
        BY <1>1, <1>2
      <4> QED
        BY <1>1, <1>5, <2>2, <3>1, <4>1 DEF ChainInv, ChainTypes
    <3>5. BeforeAndAfter'
      <4> SUFFICES ASSUME NEW s \in 1 .. Len(Stages[demo])
                   PROVE  /\ s < stageNo + 1 => results'[s] = Elements(Stages[demo][s])
                          /\ s > stageNo + 1 => results'[s] = {}
        BY <1>1, <1>5, <3>1 DEF BeforeAndAfter
      <4>1. /\ s \in DOMAIN results /\ stageNo \in Nat
            /\ s < stageNo => results[s] = Elements(Stages[demo][s])
            /\ s > stageNo => results[s] = {}
        BY <1>1, <1>2 DEF ChainInv, ChainTypes, BeforeAndAfter
      <4>2. CASE s = stageNo
        BY <3>3, <4>1, <4>2
      <4>3. CASE s # stageNo
        BY <3>3, <4>1, <4>3
      <4> QED
        BY <4>2, <4>3
    <3>6. Running' => AtOneCall'
      <4> SUFFICES ASSUME Running' PROVE AtOneCall'
        OBVIOUS
      <4>1. stageNo + 1 \in DOMAIN results
        BY <1>1, <1>2, <1>5, <3>1 DEF ChainInv, ChainTypes, Running
      <4>2. results'[stageNo + 1] = results[stageNo + 1] /\ results[stageNo + 1] = {}
        BY <1>1, <1>2, <3>3, <4>1 DEF ChainInv, ChainTypes, BeforeAndAfter
      <4> QED
        BY <2>2, <3>1, <4>2 DEF AtOneCall
    <3>7. now' = Planned[demo][stageNo + 1] + late'
      BY <1>3, <1>4, <2>2
    <3> QED
      BY <1>5, <1>7, <2>2, <2>4, <3>1, <3>4, <3>5, <3>6, <3>7 DEF ChainInv, OneByOneInv
  <2> QED
    BY <2>3, <2>4
<1> QED
  BY <1>8, <1>9, <1>10 DEF ChainNext

LEMMA ParallelStep ==
  ASSUME ChainInv, ChainNext, demo = "parallel"
  PROVE  ChainInv'
<1>1. /\ Len(Stages[demo]) = 2 /\ DOMAIN Stages[demo] = 1 .. 2
      /\ Stages[demo][1] = <<"read", "read_b">> /\ Stages[demo][2] = <<"parse">>
  BY StagesAre
<1>2. Running /\ stageNo \in 1 .. 2 /\ ~raised
  BY <1>1 DEF ChainInv, ChainTypes, ChainNext, LaunchAsync, LaunchSleep, CallBackOf, Running
<1>3. /\ demo \in DOMAIN Stages /\ launched \in Nat /\ now \in Nat /\ late \in 0 .. MaxLate
      /\ late \in Nat /\ MaxLate \in Nat /\ DOMAIN results = 1 .. 2 /\ (stageNo = 1 => results[2] = {})
      /\ (stageNo = 2 => results[1] = {"read", "read_b"})
  <2>1. Elements(<<"read", "read_b">>) = {"read", "read_b"}
    BY DEF Elements
  <2> QED
    BY <1>1, <2>1, ChainAssumption DEF ChainInv, ChainTypes, BeforeAndAfter
<1>4. demo' = demo /\ DOMAIN results' = DOMAIN results
  BY DEF ChainNext, LaunchAsync, LaunchSleep, CallBackOf
<1>5. OneByOneInv' /\ SleepInv'
  BY <1>4 DEF OneByOneInv, SleepInv, OneByOne
<1>6. /\ stageNo = 1 => Len(Calls) = 2 /\ Calls[1] = "read" /\ Calls[2] = "read_b"
      /\ stageNo = 2 => Len(Calls) = 1 /\ Calls[1] = "parse"
  BY <1>1 DEF Calls
<1>7. /\ "read" \notin Sleeps /\ "read_b" \notin Sleeps /\ "parse" \notin Sleeps
      /\ Delay("read") = 10 /\ Delay("read_b") = 10 /\ Delay("parse") = 5
  BY Delays DEF Sleeps
<1>8. /\ stageNo = 1 => AtReads
      /\ stageNo = 2 => AtOneCall /\ now \in 10 .. 10 + late
  BY <1>2 DEF ChainInv, ParallelInv
<1>9. CASE LaunchAsync
  <2>1. UNCHANGED <<demo, stageNo, results, raised, now, late>>
    BY <1>9 DEF LaunchAsync
  <2>2. ChainTypes' /\ BeforeAndAfter'
    BY <1>3, <1>9, <2>1 DEF ChainInv, ChainTypes, BeforeAndAfter, LaunchAsync
  <2>3. CASE stageNo = 1
    <3>1. launched < 2
      BY <1>6, <1>9, <2>3 DEF LaunchAsync
    <3>2. AtReads'
      <4>1. CASE launched = 0
        <5>1. timers' = {<<"read", 10>>} /\ launched' = 1 /\ results'[1] = {} /\ now' = 0
          BY <1>6, <1>7, <1>8, <1>9, <2>1, <2>3, <4>1 DEF LaunchAsync, AtReads
        <5> QED
          BY <5>1 DEF AtReads
      <4>2. CASE launched = 1
        <5>1. /\ timers' = {<<"read", 10>>, <<"read_b", 10>>} /\ launched' = 2 /\ results'[1] = {}
              /\ now' = 0
          BY <1>6, <1>7, <1>8, <1>9, <2>1, <2>3, <4>2 DEF LaunchAsync, AtReads
        <5> QED
          BY <5>1 DEF AtReads
      <4> QED
        BY <1>3, <3>1, <4>1, <4>2
    <3>3. ParallelInv'
      BY <1>2, <2>1, <2>3, <3>2 DEF ParallelInv
    <3> QED
      BY <1>5, <2>2, <3>3 DEF ChainInv
  <2>4. CASE stageNo = 2
    <3>1. launched = 0 /\ timers = {} /\ results[2] = {}
      <4>1. launched < 1
        BY <1>6, <1>9, <2>4 DEF LaunchAsync
      <4>2. launched # 1
        BY <1>3, <4>1
      <4> QED
        BY <1>8, <2>4, <4>2 DEF AtOneCall
    <3>2. timers' = {<<"parse", now + 5>>} /\ launched' = 1 /\ Calls'[1] = "parse" /\ now' = now
      BY <1>6, <1>7, <1>9, <2>1, <2>4, <3>1 DEF LaunchAsync, Calls
    <3>3. AtOneCall'
      BY <1>7, <2>1, <2>4, <3>1, <3>2 DEF AtOneCall
    <3>4. ParallelInv'
      BY <1>2, <1>8, <2>1, <2>4, <3>3 DEF ParallelInv
    <3> QED
      BY <1>5, <2>2, <3>4 DEF ChainInv
  <2> QED
    BY <1>2, <2>3, <2>4
<1>10. CASE LaunchSleep
  <2>1. Calls[launched + 1] \in Sleeps /\ launched < Len(Calls)
    BY <1>10 DEF LaunchSleep
  <2>2. CASE stageNo = 1
    <3>1. launched = 0 \/ launched = 1
      <4>1. launched < 2
        BY <1>6, <2>1, <2>2
      <4> QED
        BY <1>3, <4>1
    <3> QED
      BY <1>6, <1>7, <2>1, <2>2, <3>1
  <2>3. CASE stageNo = 2
    <3>1. launched = 0
      <4>1. launched < 1
        BY <1>6, <2>1, <2>3
      <4> QED
        BY <1>3, <4>1
    <3> QED
      BY <1>6, <1>7, <2>1, <2>3, <3>1
  <2> QED
    BY <1>2, <2>2, <2>3
<1>11. ASSUME NEW t \in timers, NEW l \in 0 .. MaxLate, CallBackOf(t, l)
       PROVE  ChainInv'
  <2>1. /\ launched = Len(Calls) /\ late' = late + l /\ late + l <= MaxLate
        /\ now' = Later(now, t[2] + l) /\ timers' = timers \ {t} /\ (raised' <=> t[1] = "invalid")
    BY <1>11 DEF CallBackOf
  <2>2. late' \in 0 .. MaxLate /\ l \in Nat /\ late' \in Nat
    BY <1>3, <2>1
  <2>3. CASE stageNo = 1
    <3>1. /\ launched = 2 /\ timers # {}
          /\ \/ timers = {<<"read", 10>>, <<"read_b", 10>>} /\ results[1] = {} /\ now = 0
             \/ timers = {<<"read", 10>>} /\ results[1] = {"read_b"} /\ now \in 10 .. 10 + late
             \/ timers = {<<"read_b", 10>>} /\ results[1] = {"read"} /\ now \in 10 .. 10 + late
      BY <1>6, <1>8, <2>1, <2>3 DEF AtReads
    <3>2. t[2] = 10 /\ t[1] \in {"read", "read_b"} /\ t = <<t[1], 10>>
      BY <3>1
    <3>3. ~raised' /\ results' = [results EXCEPT ![1] = @ \cup {t[1]}]
      BY <1>11, <2>1, <2>3, <3>2 DEF CallBackOf
    <3>4. results'[1] = results[1] \cup {t[1]} /\ results'[2] = {}
      BY <1>3, <2>3, <3>3
    <3>5. now' = Later(now, 10 + l)
      BY <2>1, <3>2
    <3>6. now' \in 10 .. 10 + late' /\ now' \in Nat
      <4>1. now = 0 \/ now \in 10 .. 10 + late
        BY <3>1
      <4> QED
        BY <1>3, <2>1, <2>2, <3>5, <4>1 DEF Later
    <3>7. CASE timers = {<<"read", 10>>, <<"read_b", 10>>} /\ results[1] = {}
      <4>1. timers' # {} /\ UNCHANGED <<stageNo, launched>>
        <5>1. <<"read", 10>>[1] # <<"read_b", 10>>[1]
          OBVIOUS
        <5>2. timers' # {}
          <6>1. \E u \in timers : u # t
            BY <3>7, <5>1
          <6> QED
            BY <2>1, <6>1
        <5> QED
          BY <1>11, <5>2 DEF CallBackOf
      <4>2. AtReads'
        <5>1. CASE t[1] = "read"
          <6>1. timers' = {<<"read_b", 10>>} /\ results'[1] = {"read"}
            BY <2>1, <3>2, <3>4, <3>7, <5>1
          <6> QED
            BY <3>1, <3>6, <4>1, <6>1 DEF AtReads
        <5>2. CASE t[1] = "read_b"
          <6>1. timers' = {<<"read", 10>>} /\ results'[1] = {"read_b"}
            BY <2>1, <3>2, <3>4, <3>7, <5>2
          <6> QED
            BY <3>1, <3>6, <4>1, <6>1 DEF AtReads
        <5> QED
          BY <3>2, <5>1, <5>2
      <4>3. ParallelInv'
        BY <2>3, <3>3, <4>1, <4>2 DEF ParallelInv
      <4>4. ChainTypes' /\ BeforeAndAfter'
        BY <1>1, <1>3, <1>4, <2>2, <2>3, <3>4, <3>6, <4>1 DEF ChainInv, ChainTypes, BeforeAndAfter
      <4> QED
        BY <1>5, <4>3, <4>4 DEF ChainInv
    <3>8. CASE \/ timers = {<<"read", 10>>} /\ results[1] = {"read_b"}
               \/ timers = {<<"read_b", 10>>} /\ results[1] = {"read"}
      <4>1. timers' = {} /\ results'[1] = {"read", "read_b"}
        <5>1. CASE timers = {<<"read", 10>>} /\ results[1] = {"read_b"}
          BY <2>1, <3>4, <5>1
        <5>2. CASE timers = {<<"read_b", 10>>} /\ results[1] = {"read"}
          BY <2>1, <3>4, <5>2
        <5> QED
          BY <3>8, <5>1, <5>2
      <4>2. stageNo' = 2 /\ launched' = 0
        BY <1>11, <2>3, <3>3, <4>1 DEF CallBackOf
      <4>3. AtOneCall'
        BY <3>4, <4>1, <4>2 DEF AtOneCall
      <4>4. ParallelInv'
        BY <3>3, <3>6, <4>2, <4>3 DEF ParallelInv
      <4>5. Elements(<<"read", "read_b">>) = {"read", "read_b"}
        BY DEF Elements
      <4>6. ChainTypes'
        BY <1>1, <1>3, <1>4, <2>2, <3>6, <4>2 DEF ChainTypes
      <4>7. BeforeAndAfter'
        <5>1. \A s \in 1 .. 2 : s < 2 => s = 1
          OBVIOUS
        <5> QED
          BY <1>1, <1>4, <4>1, <4>2, <4>5, <5>1 DEF BeforeAndAfter
      <4> QED
        BY <1>5, <4>4, <4>6, <4>7 DEF ChainInv
    <3> QED
      BY <3>1, <3>7, <3>8
  <2>4. CASE stageNo = 2
    <3>1. timers = {<<"parse", now + 5>>} /\ results[2] = {} /\ now \in 10 .. 10 + late
      BY <1>6, <1>7, <1>8, <2>1, <2>4 DEF AtOneCall
    <3>2. t = <<"parse", now + 5>> /\ t[1] = "parse" /\ t[2] = now + 5
      BY <3>1
    <3>3. ~raised' /\ timers' = {} /\ results' = [results EXCEPT ![2] = @ \cup {"parse"}]
      BY <1>11, <2>1, <2>4, <3>1, <3>2 DEF CallBackOf
    <3>4. stageNo' = 3 /\ launched' = 0
      BY <1>11, <2>4, <3>3 DEF CallBackOf
    <3>5. results'[2] = {"parse"} /\ results'[1] = {"read", "read_b"}
      BY <1>3, <2>4, <3>1, <3>3
    <3>6. now' \in 15 .. 15 + late' /\ now' \in Nat
      <4>1. now' = Later(now, now + 5 + l)
        BY <2>1, <3>2
      <4> QED
        BY <1>3, <2>1, <2>2, <3>1, <4>1 DEF Later
    <3>7. ParallelInv'
      BY <3>3, <3>4, <3>6 DEF ParallelInv
    <3>8. Elements(<<"read", "read_b">>) = {"read", "read_b"} /\ Elements(<<"parse">>) = {"parse"}
      BY DEF Elements
    <3>9. ChainTypes'
      BY <1>1, <1>3, <1>4, <2>2, <3>4, <3>6 DEF ChainTypes
    <3>10. BeforeAndAfter'
      <4>1. \A s \in 1 .. 2 : (s = 1 \/ s = 2) /\ ~(s > 3)
        OBVIOUS
      <4> QED
        BY <1>1, <1>4, <3>4, <3>5, <3>8, <4>1 DEF BeforeAndAfter
    <3> QED
      BY <1>5, <3>7, <3>9, <3>10 DEF ChainInv
  <2> QED
    BY <1>2, <2>3, <2>4
<1> QED
  BY <1>9, <1>10, <1>11 DEF ChainNext

LEMMA SleepStep ==
  ASSUME ChainInv, ChainNext, demo \in {"vector", "pair"}
  PROVE  ChainInv'
<1>1. /\ Len(Stages[demo]) = 1 /\ DOMAIN Stages[demo] = 1 .. 1
      /\ demo = "vector" => Stages[demo][1] = <<"A", "B", "C">>
      /\ demo = "pair" => Stages[demo][1] = <<"name", "age">>
  BY StagesAre
<1>2. Running /\ stageNo = 1 /\ timers = {} /\ ~raised
  BY <1>1 DEF ChainInv, ChainTypes, SleepInv, ChainNext, LaunchAsync, LaunchSleep, CallBackOf, Running
<1>3. /\ demo \in DOMAIN Stages /\ launched \in Nat /\ now \in Nat /\ late \in 0 .. MaxLate
      /\ DOMAIN results = 1 .. 1
  BY <1>1 DEF ChainInv, ChainTypes
<1>4. /\ demo = "vector" => /\ Len(Calls) = 3 /\ Calls[1] = "A" /\ Calls[2] = "B" /\ Calls[3] = "C"
                             /\ Elements(Calls) = {"A", "B", "C"}
      /\ demo = "pair" => /\ Len(Calls) = 2 /\ Calls[1] = "name" /\ Calls[2] = "age"
                           /\ Elements(Calls) = {"name", "age"}
  BY <1>1, <1>2 DEF Calls, Elements
<1>5. \A k \in 1 .. Len(Calls) : Calls[k] \in Sleeps
  <2>1. \A k \in 1 .. 3 : k = 1 \/ k = 2 \/ k = 3
    OBVIOUS
  <2>2. \A k \in 1 .. 2 : k = 1 \/ k = 2
    OBVIOUS
  <2> QED
    BY <1>4, <2>1, <2>2 DEF Sleeps
<1>6. LaunchSleep
  <2>1. ~LaunchAsync
    <3>1. ASSUME launched < Len(Calls) PROVE launched + 1 \in 1 .. Len(Calls)
      BY <1>3, <1>4, <3>1
    <3> QED
      BY <1>5, <3>1 DEF LaunchAsync
  <2> QED
    BY <1>2, <2>1 DEF ChainNext
<1>7. /\ UNCHANGED <<demo, timers, raised, late>> /\ launched < Len(Calls)
      /\ now' = now + Delay(Calls[launched + 1])
      /\ results' = [results EXCEPT ![1] = @ \cup {Calls[launched + 1]}]
  BY <1>2, <1>6 DEF LaunchSleep
<1>8. DOMAIN results' = 1 .. 1 /\ results'[1] = results[1] \cup {Calls[launched + 1]}
  BY <1>3, <1>7
<1>9. OneByOneInv' /\ ParallelInv'
  BY <1>7 DEF OneByOneInv, ParallelInv, OneByOne
<1>10. CASE demo = "vector"
  <2>1. \/ launched = 0 /\ results[1] = {} /\ now = 0
        \/ launched = 1 /\ results[1] = {"A"} /\ now = 10
        \/ launched = 2 /\ results[1] = {"A", "B"} /\ now = 25
    BY <1>2, <1>10 DEF ChainInv, SleepInv
  <2>2. \/ launched = 0 /\ stageNo' = 1 /\ launched' = 1 /\ results'[1] = {"A"} /\ now' = 10
        \/ launched = 1 /\ stageNo' = 1 /\ launched' = 2 /\ results'[1] = {"A", "B"} /\ now' = 25
        \/ launched = 2 /\ stageNo' = 2 /\ launched' = 0 /\ results'[1] = {"A", "B", "C"} /\ now' = 33
    <3>1. CASE launched = 0
      BY <1>2, <1>4, <1>6, <1>7, <1>8, <1>10, <2>1, <3>1, Delays DEF LaunchSleep
    <3>2. CASE launched = 1
      BY <1>2, <1>4, <1>6, <1>7, <1>8, <1>10, <2>1, <3>2, Delays DEF LaunchSleep
    <3>3. CASE launched = 2
      BY <1>2, <1>4, <1>6, <1>7, <1>8, <1>10, <2>1, <3>3, Delays DEF LaunchSleep
    <3> QED
      BY <2>1, <3>1, <3>2, <3>3
  <2>3. SleepInv'
    BY <1>2, <1>7, <1>10, <2>2 DEF SleepInv
  <2>4. ChainTypes'
    <3>1. stageNo' \in 1 .. 2 /\ launched' \in Nat /\ now' \in Nat
      BY <2>2
    <3>2. demo' \in DOMAIN Stages /\ Len(Stages[demo']) = 1 /\ late' \in 0 .. MaxLate
          /\ DOMAIN results' = DOMAIN Stages[demo']
      BY <1>1, <1>3, <1>7, <1>8
    <3> QED
      BY <3>1, <3>2 DEF ChainTypes
  <2>5. BeforeAndAfter'
    <3>1. stageNo' = 2 => results'[1] = Elements(Stages[demo][1])
      BY <1>1, <1>2, <1>4, <1>10, <2>2 DEF Calls
    <3>2. stageNo' = 1 \/ stageNo' = 2
      BY <2>2
    <3> SUFFICES ASSUME NEW s \in 1 .. 1
                 PROVE  /\ s < stageNo' => results'[s] = Elements(Stages[demo][s])
                        /\ s > stageNo' => results'[s] = {}
      BY <1>1, <1>7 DEF BeforeAndAfter
    <3>3. s = 1
      OBVIOUS
    <3> QED
      BY <3>1, <3>2, <3>3
  <2> QED
    BY <1>9, <2>3, <2>4, <2>5 DEF ChainInv
<1>11. CASE demo = "pair"
  <2>1. \/ launched = 0 /\ results[1] = {} /\ now = 0
        \/ launched = 1 /\ results[1] = {"name"} /\ now = 5
    BY <1>2, <1>11 DEF ChainInv, SleepInv
  <2>2. \/ launched = 0 /\ stageNo' = 1 /\ launched' = 1 /\ results'[1] = {"name"} /\ now' = 5
        \/ launched = 1 /\ stageNo' = 2 /\ launched' = 0 /\ results'[1] = {"name", "age"} /\ now' = 15
    <3>1. CASE launched = 0
      BY <1>2, <1>4, <1>6, <1>7, <1>8, <1>11, <2>1, <3>1, Delays DEF LaunchSleep
    <3>2. CASE launched = 1
      BY <1>2, <1>4, <1>6, <1>7, <1>8, <1>11, <2>1, <3>2, Delays DEF LaunchSleep
    <3> QED
      BY <2>1, <3>1, <3>2
  <2>3. SleepInv'
    BY <1>2, <1>7, <1>11, <2>2 DEF SleepInv
  <2>4. ChainTypes'
    <3>1. stageNo' \in 1 .. 2 /\ launched' \in Nat /\ now' \in Nat
      BY <2>2
    <3>2. demo' \in DOMAIN Stages /\ Len(Stages[demo']) = 1 /\ late' \in 0 .. MaxLate
          /\ DOMAIN results' = DOMAIN Stages[demo']
      BY <1>1, <1>3, <1>7, <1>8
    <3> QED
      BY <3>1, <3>2 DEF ChainTypes
  <2>5. BeforeAndAfter'
    <3>1. stageNo' = 2 => results'[1] = Elements(Stages[demo][1])
      BY <1>1, <1>2, <1>4, <1>11, <2>2 DEF Calls
    <3>2. stageNo' = 1 \/ stageNo' = 2
      BY <2>2
    <3> SUFFICES ASSUME NEW s \in 1 .. 1
                 PROVE  /\ s < stageNo' => results'[s] = Elements(Stages[demo][s])
                        /\ s > stageNo' => results'[s] = {}
      BY <1>1, <1>7 DEF BeforeAndAfter
    <3>3. s = 1
      OBVIOUS
    <3> QED
      BY <3>1, <3>2, <3>3
  <2> QED
    BY <1>9, <2>3, <2>4, <2>5 DEF ChainInv
<1> QED
  BY <1>10, <1>11

LEMMA ChainNextInv ==
  ASSUME ChainInv, [ChainNext]_chainVars
  PROVE  ChainInv'
<1>1. CASE ChainNext
  <2>1. demo \in OneByOne \/ demo = "parallel" \/ demo \in {"vector", "pair"}
    BY StagesAre DEF ChainInv, ChainTypes, OneByOne
  <2> QED
    BY <1>1, <2>1, OneByOneStep, ParallelStep, SleepStep
<1>2. CASE UNCHANGED chainVars
  BY <1>2 DEF chainVars, ChainInv, ChainTypes, BeforeAndAfter, OneByOneInv, ParallelInv, SleepInv,
              AtOneCall, AtReads, Running, Calls
<1> QED
  BY <1>1, <1>2

LEMMA ChainShows == ChainInv => ChainCorrect
<1> SUFFICES ASSUME ChainInv PROVE ChainCorrect
  OBVIOUS
<1>1. /\ demo \in DOMAIN Stages /\ Len(Stages[demo]) \in Nat \ {0}
      /\ DOMAIN Stages[demo] = 1 .. Len(Stages[demo])
  BY StageCount DEF ChainInv, ChainTypes
<1>2. demo \in OneByOne \/ demo = "parallel" \/ demo \in {"vector", "pair"}
  BY <1>1, StagesAre DEF OneByOne
<1>3. ChainTypeOK
  <2> SUFFICES ASSUME Running PROVE launched \in 0 .. Len(Calls)
    BY DEF ChainInv, ChainTypes, ChainTypeOK
  <2>1. CASE demo \in OneByOne
    <3>1. stageNo \in 1 .. Len(Stages[demo])
      BY <1>1 DEF ChainInv, ChainTypes, Running
    <3>2. Len(Calls) = 1
      BY <2>1, <3>1, OneCallEach DEF OneCall, Calls
    <3>3. launched = 0 \/ launched = 1
      BY <2>1 DEF ChainInv, OneByOneInv, AtOneCall
    <3> QED
      BY <3>2, <3>3
  <2>2. CASE demo = "parallel"
    <3>1. /\ Len(Stages[demo]) = 2 /\ stageNo \in 1 .. 2
          /\ stageNo = 1 => Len(Calls) = 2
          /\ stageNo = 2 => Len(Calls) = 1
      BY <2>2, StagesAre DEF ChainInv, ChainTypes, Running, Calls
    <3>2. CASE stageNo = 1
      <4>1. launched = 0 \/ launched = 1 \/ launched = 2
        BY <2>2, <3>2 DEF ChainInv, ParallelInv, AtReads
      <4> QED
        BY <3>1, <3>2, <4>1
    <3>3. CASE stageNo = 2
      <4>1. launched = 0 \/ launched = 1
        BY <2>2, <3>3 DEF ChainInv, ParallelInv, AtOneCall
      <4> QED
        BY <3>1, <3>3, <4>1
    <3> QED
      BY <3>1, <3>2, <3>3
  <2>3. CASE demo \in {"vector", "pair"}
    <3>1. /\ Len(Stages[demo]) = 1
          /\ demo = "vector" => Len(Stages[demo][1]) = 3
          /\ demo = "pair" => Len(Stages[demo][1]) = 2
      BY <2>3, StagesAre
    <3>4. /\ stageNo = 1
          /\ demo = "vector" => Len(Calls) = 3
          /\ demo = "pair" => Len(Calls) = 2
      BY <1>1, <3>1 DEF ChainInv, ChainTypes, Running, Calls
    <3>2. CASE demo = "vector"
      <4>1. launched = 0 \/ launched = 1 \/ launched = 2
        BY <3>2, <3>4 DEF ChainInv, SleepInv
      <4> QED
        BY <3>2, <3>4, <4>1
    <3>3. CASE demo = "pair"
      <4>1. launched = 0 \/ launched = 1
        BY <3>3, <3>4 DEF ChainInv, SleepInv
      <4> QED
        BY <3>3, <3>4, <4>1
    <3> QED
      BY <2>3, <3>2, <3>3
  <2> QED
    BY <1>2, <2>1, <2>2, <2>3
<1>4. StagesInOrder
  <2>1. raised => demo = "with_error"
    BY <1>2 DEF ChainInv, OneByOneInv, ParallelInv, SleepInv
  <2>2. raised => stageNo = 1 /\ timers = {}
    BY <2>1 DEF ChainInv, OneByOneInv, OneByOne, Running
  <2> QED
    BY <2>2 DEF ChainInv, BeforeAndAfter, StagesInOrder
<1>5. TimeTaken
  <2> SUFFICES ASSUME stageNo > Len(Stages[demo])
               PROVE  CASE demo = "vector" -> now = Delay("A") + Delay("B") + Delay("C")
                        [] demo = "pair" -> now = Delay("name") + Delay("age")
                        [] demo = "parallel" -> now \in 15 .. 15 + late
                        [] demo = "pipeline" -> now = 38 + late
                        [] OTHER -> now = 23 + late
    BY DEF TimeTaken
  <2>1. stageNo = Len(Stages[demo]) + 1
    BY <1>1 DEF ChainInv, ChainTypes
  <2>2. CASE demo = "vector"
    <3>1. stageNo = 2
      BY <2>1, <2>2, StagesAre
    <3>2. now = 33
      BY <2>2, <3>1 DEF ChainInv, SleepInv
    <3> QED
      BY <2>2, <3>2, Delays
  <2>3. CASE demo = "pair"
    <3>1. stageNo = 2
      BY <2>1, <2>3, StagesAre
    <3>2. now = 15
      BY <2>3, <3>1 DEF ChainInv, SleepInv
    <3> QED
      BY <2>3, <3>2, Delays
  <2>4. CASE demo = "parallel"
    <3>1. stageNo = 3
      BY <2>1, <2>4, StagesAre
    <3> QED
      BY <2>4, <3>1 DEF ChainInv, ParallelInv
  <2>5. CASE demo \in OneByOne
    <3>1. demo # "with_error" /\ ~raised
      <4>1. demo = "with_error" => stageNo # 1
        BY <1>1, <2>1
      <4> QED
        BY <2>5, <4>1 DEF ChainInv, OneByOneInv
    <3>2. now = Planned[demo][stageNo] + late
      BY <2>5, <3>1 DEF ChainInv, OneByOneInv
    <3>3. CASE demo = "pipeline"
      <4>1. stageNo = 5
        BY <2>1, <3>3, StagesAre
      <4> QED
        BY <3>2, <3>3, <4>1, PlannedAre
    <3>4. CASE demo = "callback"
      <4>1. stageNo = 4
        BY <2>1, <3>4, StagesAre
      <4> QED
        BY <3>2, <3>4, <4>1, PlannedAre
    <3>5. CASE demo = "coroutine"
      <4>1. stageNo = 4
        BY <2>1, <3>5, StagesAre
      <4> QED
        BY <3>2, <3>5, <4>1, PlannedAre
    <3> QED
      BY <2>5, <3>1, <3>3, <3>4, <3>5 DEF OneByOne
  <2> QED
    BY <1>2, <2>2, <2>3, <2>4, <2>5
<1> QED
  BY <1>3, <1>4, <1>5 DEF ChainCorrect

THEOREM ChainInOrder == ChainSpec => []ChainCorrect
<1>1. ChainInit => ChainInv
  BY ChainInitInv
<1>2. ChainInv /\ [ChainNext]_chainVars => ChainInv'
  BY ChainNextInv
<1>3. ChainInv => ChainCorrect
  BY ChainShows
<1> QED
  BY <1>1, <1>2, <1>3, PTL DEF ChainSpec

-----------------------------------------------------------------------------
(* DrawingPad: the strokes on the canvas, and those of the shapes.           *)

\* A sequence of sequences is flattened from its first to its last.
LEMMA FlattenAre ==
  ASSUME NEW T, NEW s \in Seq(Seq(T))
  PROVE  \E f \in [1 .. Len(s) -> Seq(T)] :
           /\ \A i \in 1 .. Len(s) : f[i] = IF i = 1 THEN s[i] ELSE f[i - 1] \o s[i]
           /\ Series!FlattenSeq(s) = IF Len(s) = 0 THEN <<>> ELSE f[Len(s)]
<1> DEFINE n == Len(s)
           flatten[i \in 1 .. n] == IF i = 1 THEN s[i] ELSE flatten[i - 1] \o s[i]
<1>1. Series!FlattenSeq(s) = IF n = 0 THEN s ELSE flatten[n]
  BY Zenon DEF Series!FlattenSeq
<1>2. n \in Nat /\ (n = 0 => s = <<>>) /\ \A i \in 1 .. n : s[i] \in Seq(T)
  OBVIOUS
<1> HIDE DEF n
<1> DEFINE Solves(m, f) == f = [i \in 1 .. m |-> IF i = 1 THEN s[i] ELSE f[i - 1] \o s[i]]
           bad == {m \in Nat : m <= n /\ ~ \E f \in [1 .. m -> Seq(T)] : Solves(m, f)}
<1>3. \E f \in [1 .. 0 -> Seq(T)] : Solves(0, f)
  <2>1. Solves(0, [i \in 1 .. 0 |-> <<>>]) /\ [i \in 1 .. 0 |-> <<>>] \in [1 .. 0 -> Seq(T)]
    OBVIOUS
  <2> QED
    BY <2>1
<1>4. ASSUME NEW m \in Nat, m + 1 <= n, NEW f \in [1 .. m -> Seq(T)], Solves(m, f)
      PROVE  \E g \in [1 .. m + 1 -> Seq(T)] : Solves(m + 1, g)
  <2> DEFINE g == [i \in 1 .. m + 1 |->
                     IF i <= m THEN f[i] ELSE IF i = 1 THEN s[i] ELSE f[i - 1] \o s[i]]
  <2>1. \A i \in 1 .. m : f[i] = IF i = 1 THEN s[i] ELSE f[i - 1] \o s[i]
    BY <1>4
  <2>2. ASSUME NEW i \in 1 .. m + 1
        PROVE  g[i] \in Seq(T) /\ g[i] = IF i = 1 THEN s[i] ELSE g[i - 1] \o s[i]
    <3>0. s[i] \in Seq(T)
      BY <1>2, <1>4
    <3>1. CASE i <= m
      <4>1. i \in 1 .. m /\ (i # 1 => g[i - 1] = f[i - 1]) /\ g[i] = f[i] /\ f[i] \in Seq(T)
        BY <3>1
      <4>2. f[i] = IF i = 1 THEN s[i] ELSE f[i - 1] \o s[i]
        BY <2>1, <4>1
      <4> HIDE DEF g
      <4> QED
        BY <4>1, <4>2, Zenon
    <3>2. CASE i = m + 1
      <4>1. /\ g[i] = IF i = 1 THEN s[i] ELSE f[i - 1] \o s[i]
            /\ i # 1 => g[i - 1] = f[i - 1] /\ f[i - 1] \in Seq(T)
        BY <3>2
      <4>2. i # 1 => f[i - 1] \o s[i] \in Seq(T)
        BY <3>0, <4>1, ConcatProperties
      <4> HIDE DEF g
      <4> QED
        BY <3>0, <4>1, <4>2, Zenon
    <3>3. i <= m \/ i = m + 1
      OBVIOUS
    <3> QED
      BY <3>1, <3>2, <3>3, Zenon
  <2>3. g = [i \in 1 .. m + 1 |-> g[i]]
    OBVIOUS
  <2> HIDE DEF g
  <2>4. Solves(m + 1, g)
    BY <2>2, <2>3, Zenon
  <2>5. g \in [1 .. m + 1 -> Seq(T)]
    BY <2>2, <2>3
  <2> QED
    BY <2>4, <2>5
<1>5. bad = {}
  <2> SUFFICES ASSUME bad # {} PROVE FALSE
    OBVIOUS
  <2> HIDE DEF Solves
  <2>1. PICK m \in bad : \A i \in bad : m <= i
    BY SmallestNat
  <2>2. m # 0 /\ m \in Nat /\ m <= n
    BY <1>3, <2>1
  <2>3. m - 1 \in Nat /\ m - 1 < m /\ m - 1 <= n
    BY <1>2, <2>2
  <2>7. m - 1 \notin bad
    <3> HIDE DEF bad
    <3> QED
      BY <2>1, <2>2, <2>3
  <2>4. PICK f \in [1 .. m - 1 -> Seq(T)] : Solves(m - 1, f)
    BY <2>3, <2>7, Zenon
  <2>5. m - 1 + 1 = m
    BY <2>2
  <2>6. \E g \in [1 .. m - 1 + 1 -> Seq(T)] : Solves(m - 1 + 1, g)
    BY <1>4, <2>2, <2>3, <2>4, <2>5
  <2> QED
    BY <2>1, <2>2, <2>5, <2>6
<1>6. PICK f \in [1 .. n -> Seq(T)] : Solves(n, f)
  <2> HIDE DEF Solves
  <2> HIDE DEF bad
  <2>1. n <= n /\ n \notin bad
    BY <1>2, <1>5
  <2> USE DEF bad
  <2> QED
    BY <1>2, <2>1, Zenon
<1>7. flatten = [i \in 1 .. n |-> IF i = 1 THEN s[i] ELSE flatten[i - 1] \o s[i]]
  BY <1>6, Zenon
<1> HIDE DEF flatten
<1> DEFINE wrong == {i \in 1 .. n : flatten[i] \notin Seq(T)}
<1>8. \A i \in 1 .. n : flatten[i] = IF i = 1 THEN s[i] ELSE flatten[i - 1] \o s[i]
  BY <1>7, Zenon
<1>9. wrong = {}
  <2> SUFFICES ASSUME wrong # {} PROVE FALSE
    OBVIOUS
  <2>1. wrong \in SUBSET Nat
    OBVIOUS
  <2>2. PICK i \in wrong : \A j \in wrong : i <= j
    BY <2>1, SmallestNat
  <2>3. i # 1
    BY <1>2, <1>8
  <2>4. i \in 1 .. n /\ i - 1 \in 1 .. n /\ i - 1 \notin wrong
    BY <1>2, <2>2, <2>3
  <2>5. flatten[i - 1] \in Seq(T) /\ s[i] \in Seq(T)
    BY <1>2, <2>4
  <2>6. flatten[i] = flatten[i - 1] \o s[i]
    BY <1>8, <2>3, <2>4
  <2>7. flatten[i] \in Seq(T)
    BY <2>5, <2>6
  <2> QED
    BY <2>2, <2>7
<1>10. flatten = [i \in 1 .. n |-> flatten[i]]
  BY <1>7, Zenon
<1>11. flatten \in [1 .. n -> Seq(T)]
  BY <1>9, <1>10
<1>12. Series!FlattenSeq(s) = IF n = 0 THEN <<>> ELSE flatten[n]
  BY <1>1, <1>2
<1> QED
  BY <1>8, <1>11, <1>12 DEF n

LEMMA FlattenAppend ==
  ASSUME NEW T, NEW s \in Seq(Seq(T)), NEW t \in Seq(T)
  PROVE  /\ Series!FlattenSeq(s) \in Seq(T)
         /\ Series!FlattenSeq(Append(s, t)) = Series!FlattenSeq(s) \o t
<1> DEFINE n == Len(s)
           u == Append(s, t)
<1>1. /\ n \in Nat /\ u \in Seq(Seq(T)) /\ Len(u) = n + 1 /\ u[n + 1] = t
      /\ \A i \in 1 .. n : u[i] = s[i] /\ s[i] \in Seq(T)
  OBVIOUS
<1>2. PICK f \in [1 .. n -> Seq(T)] :
        /\ \A i \in 1 .. n : f[i] = IF i = 1 THEN s[i] ELSE f[i - 1] \o s[i]
        /\ Series!FlattenSeq(s) = IF n = 0 THEN <<>> ELSE f[n]
  BY FlattenAre
<1>3. PICK g \in [1 .. Len(u) -> Seq(T)] :
        /\ \A i \in 1 .. Len(u) : g[i] = IF i = 1 THEN u[i] ELSE g[i - 1] \o u[i]
        /\ Series!FlattenSeq(u) = IF Len(u) = 0 THEN <<>> ELSE g[Len(u)]
  BY <1>1, FlattenAre
<1> HIDE DEF u, n
<1> DEFINE differ == {i \in 1 .. n : g[i] # f[i]}
<1>4. differ = {}
  <2> SUFFICES ASSUME differ # {} PROVE FALSE
    OBVIOUS
  <2>1. differ \in SUBSET Nat
    OBVIOUS
  <2>2. PICK i \in differ : \A j \in differ : i <= j
    BY <2>1, SmallestNat
  <2>3. i \in 1 .. n /\ i \in 1 .. Len(u) /\ u[i] = s[i]
    BY <1>1, <2>2
  <2>4. CASE i = 1
    BY <1>2, <1>3, <2>2, <2>3, <2>4
  <2>5. CASE i # 1
    <3>1. i - 1 \in 1 .. n /\ ~(i <= i - 1)
      BY <1>1, <2>3, <2>5
    <3>4. i - 1 \notin differ
      BY <2>2, <3>1, Zenon
    <3>2. g[i - 1] = f[i - 1]
      BY <3>1, <3>4
    <3>3. g[i] = g[i - 1] \o u[i] /\ f[i] = f[i - 1] \o s[i]
      BY <1>2, <1>3, <2>3, <2>5
    <3> QED
      BY <2>2, <2>3, <3>2, <3>3
  <2> QED
    BY <2>4, <2>5
<1>5. Series!FlattenSeq(s) \in Seq(T)
  <2>1. n # 0 => n \in 1 .. n
    BY <1>1
  <2> QED
    BY <1>2, <2>1
<1>6. Series!FlattenSeq(u) = g[n + 1] /\ n + 1 \in 1 .. Len(u)
  BY <1>1, <1>3
<1>7. CASE n = 0
  <2>1. Series!FlattenSeq(s) = <<>> /\ g[n + 1] = t
    BY <1>1, <1>2, <1>3, <1>6, <1>7
  <2> QED
    BY <1>5, <1>6, <2>1 DEF u
<1>8. CASE n # 0
  <2>1. n \in 1 .. n /\ n + 1 # 1 /\ n + 1 - 1 = n
    BY <1>1, <1>8
  <2>6. \A i \in 1 .. Len(u) : i # 1 => g[i] = g[i - 1] \o u[i]
    BY <1>3
  <2>7. ASSUME NEW i \in 1 .. Len(u), i = n + 1 PROVE g[i] = g[n] \o t
    <3>1. i # 1 /\ i - 1 = n /\ u[i] = t
      BY <1>1, <2>1, <2>7
    <3> QED
      BY <2>6, <3>1
  <2>2. g[n + 1] = g[n] \o t
    BY <1>6, <2>7
  <2>3. g[n] = f[n]
    BY <1>4, <2>1
  <2>4. Series!FlattenSeq(s) = f[n]
    BY <1>2, <1>8
  <2>5. Series!FlattenSeq(u) = f[n] \o t
    BY <1>1, <1>6, <2>1, <2>2, <2>3
  <2> QED
    BY <1>5, <2>4, <2>5 DEF u
<1> QED
  BY <1>7, <1>8

LEMMA FlattenNone == Series!FlattenSeq(<<>>) = <<>>
<1>1. <<>> \in Seq(Seq({}))
  OBVIOUS
<1>2. PICK f \in [1 .. Len(<<>>) -> Seq({})] :
        Series!FlattenSeq(<<>>) = IF Len(<<>>) = 0 THEN <<>> ELSE f[Len(<<>>)]
  BY <1>1, FlattenAre
<1> QED
  BY <1>2

Stroke == (0 .. 2) \X Points \X Points

\* The strokes of each shape.
StrokesOf(s) == [k \in DOMAIN s |-> Strokes(s[k][1], s[k][2])]

PadTypes ==
  /\ canvas \in Seq(Stroke)
  /\ shapes \in Seq((0 .. 2) \X Seq(Points))
  /\ \A k \in DOMAIN shapes : shapes[k][1] # 2 => Len(shapes[k][2]) = 2
  /\ drawMode \in 0 .. 2 /\ isDrawing \in BOOLEAN
  /\ startPoint \in Points /\ curvePoints \in Seq(Points)
  /\ padAt \in {"main", "animation", "over"}

\* CurveBeginsAtPress also while another mode is set.
CurveInv == isDrawing /\ pressedMode = 2 => curvePoints # <<>> /\ Head(curvePoints) = startPoint

PadInv == PadTypes /\ CanvasShowsShapes /\ CurveInv /\ AnimationShowsCanvas

\* What is drawn of a shape.
LEMMA StrokesAre ==
  ASSUME NEW m \in 0 .. 2, NEW ps \in Seq(Points), m # 2 => Len(ps) = 2
  PROVE  Strokes(m, ps) \in Seq(Stroke) /\ DrawShape(<<m, ps>>) = Strokes(m, ps)
<1>1. Len(ps) \in Nat /\ \A i \in 1 .. Len(ps) : ps[i] \in Points
  OBVIOUS
<1>2. CASE m = 2
  <2>1. Strokes(m, ps) = [i \in 1 .. Len(ps) - 1 |-> <<2, ps[i], ps[i + 1]>>]
    BY <1>2 DEF Strokes
  <2>2. ASSUME Len(ps) >= 2 PROVE Strokes(m, ps) \in Seq(Stroke)
    <3>1. Len(ps) - 1 \in Nat
      BY <1>1, <2>2
    <3>2. \A i \in 1 .. Len(ps) - 1 : <<2, ps[i], ps[i + 1]>> \in Stroke
      BY <1>1 DEF Stroke
    <3> QED
      BY <2>1, <3>1, <3>2, IsASeq
  <2>3. ASSUME Len(ps) < 2 PROVE Strokes(m, ps) = <<>>
    <3>1. 1 .. Len(ps) - 1 = {}
      BY <1>1, <2>3
    <3>2. Strokes(m, ps) = [i \in {} |-> <<2, ps[i], ps[i + 1]>>]
      BY <2>1, <3>1, Zenon
    <3>3. [i \in {} |-> <<2, ps[i], ps[i + 1]>>] = <<>>
      OBVIOUS
    <3> QED
      BY <3>2, <3>3
  <2>4. DrawShape(<<m, ps>>) = IF Len(ps) < 2 THEN <<>> ELSE Strokes(m, ps)
    BY DEF DrawShape
  <2>5. CASE Len(ps) >= 2
    BY <1>1, <2>2, <2>4, <2>5
  <2>6. CASE Len(ps) < 2
    <3>1. Strokes(m, ps) = <<>> /\ DrawShape(<<m, ps>>) = <<>>
      BY <2>3, <2>4, <2>6
    <3> QED
      BY <3>1
  <2> QED
    BY <1>1, <2>5, <2>6
<1>3. CASE m # 2
  <2>1. Strokes(m, ps) = << <<m, ps[1], ps[2]>> >>
    BY <1>3 DEF Strokes
  <2>2. <<m, ps[1], ps[2]>> \in Stroke
    BY <1>1, <1>3 DEF Stroke
  <2>3. Strokes(m, ps) \in Seq(Stroke)
    BY <2>1, <2>2
  <2>4. DrawShape(<<m, ps>>) = IF Len(ps) < 2 THEN <<>> ELSE Strokes(m, ps)
    BY DEF DrawShape
  <2>5. Len(ps) = 2 /\ ~(Len(ps) < 2)
    BY <1>3
  <2>6. DrawShape(<<m, ps>>) = Strokes(m, ps)
    BY <2>4, <2>5
  <2> QED
    BY <2>3, <2>6
<1> QED
  BY <1>2, <1>3

\* What a frame draws is what the canvas shows.
LEMMA FrameIsCanvas ==
  ASSUME PadInv, DrawFrame
  PROVE  animCanvas' = canvas
<1>1. \A k \in DOMAIN shapes : DrawShape(shapes[k]) = Strokes(shapes[k][1], shapes[k][2])
  <2> SUFFICES ASSUME NEW k \in DOMAIN shapes
               PROVE  DrawShape(shapes[k]) = Strokes(shapes[k][1], shapes[k][2])
    OBVIOUS
  <2>1. shapes[k] \in (0 .. 2) \X Seq(Points) /\ (shapes[k][1] # 2 => Len(shapes[k][2]) = 2)
    BY DEF PadInv, PadTypes
  <2>2. PICK m \in 0 .. 2, ps \in Seq(Points) : shapes[k] = <<m, ps>>
    BY <2>1
  <2> QED
    BY <2>1, <2>2, StrokesAre
<1>2. [k \in DOMAIN shapes |-> DrawShape(shapes[k])] = StrokesOf(shapes)
  BY <1>1 DEF StrokesOf
<1> QED
  BY <1>2 DEF DrawFrame, StrokesOf, PadInv, CanvasShowsShapes

LEMMA PadInitInv == PadInit => PadInv
<1> SUFFICES ASSUME PadInit PROVE PadInv
  OBVIOUS
<1>1. Origin \in Points
  BY PadAssumption DEF Origin
<1>2. PadTypes
  <2>1. <<>> \in Seq(Stroke) /\ <<>> \in Seq((0 .. 2) \X Seq(Points)) /\ <<>> \in Seq(Points)
    OBVIOUS
  <2>2. DOMAIN shapes = {}
    BY DEF PadInit
  <2>3. canvas \in Seq(Stroke) /\ shapes \in Seq((0 .. 2) \X Seq(Points))
    BY <2>1, Zenon DEF PadInit
  <2>4. curvePoints \in Seq(Points)
    BY <2>1, Zenon DEF PadInit
  <2>5. drawMode \in 0 .. 2 /\ startPoint \in Points /\ padAt \in {"main", "animation", "over"}
    BY <1>1 DEF PadInit
  <2>6. isDrawing \in BOOLEAN
    BY Zenon DEF PadInit
  <2> QED
    BY <2>2, <2>3, <2>4, <2>5, <2>6 DEF PadTypes
<1>5. CurveInv /\ AnimationShowsCanvas
  BY DEF PadInit, CurveInv, AnimationShowsCanvas
<1>3. [k \in DOMAIN shapes |-> Strokes(shapes[k][1], shapes[k][2])] = <<>>
  BY DEF PadInit
<1>4. CanvasShowsShapes
  BY <1>3, FlattenNone DEF PadInit, CanvasShowsShapes
<1> QED
  BY <1>2, <1>4, <1>5 DEF PadInv

LEMMA DrawingStep ==
  ASSUME PadInv, NEW pt \in Points, Press(pt) \/ Move(pt)
  PROVE  PadInv'
<1>1. UNCHANGED <<canvas, shapes, drawMode, animCanvas, padAt>>
  BY DEF Press, Move
<1>2. CanvasShowsShapes' /\ AnimationShowsCanvas'
  BY <1>1 DEF PadInv, CanvasShowsShapes, AnimationShowsCanvas
<1>3. curvePoints \in Seq(Points)
  BY DEF PadInv, PadTypes
<1>4. CASE Press(pt)
  <2>1. startPoint' = pt /\ curvePoints' \in Seq(Points) /\ isDrawing' = TRUE
    BY <1>3, <1>4 DEF Press
  <2>2. PadTypes'
    BY <1>1, <2>1 DEF PadInv, PadTypes
  <2>3. pressedMode' = 2 => curvePoints' = <<pt>>
    BY <1>4 DEF Press
  <2>4. CurveInv'
    BY <2>1, <2>3 DEF CurveInv
  <2> QED
    BY <1>2, <2>2, <2>4 DEF PadInv
<1>5. CASE Move(pt)
  <2>1. UNCHANGED <<isDrawing, startPoint, pressedMode>>
        /\ (curvePoints' = curvePoints \/ curvePoints' = Append(curvePoints, pt))
    BY <1>5 DEF Move
  <2>2. /\ curvePoints' \in Seq(Points)
        /\ curvePoints # <<>> => curvePoints' # <<>> /\ Head(curvePoints') = Head(curvePoints)
    BY <1>3, <2>1
  <2>3. PadTypes' /\ CurveInv'
    BY <1>1, <2>1, <2>2 DEF PadInv, PadTypes, CurveInv
  <2> QED
    BY <1>2, <2>3 DEF PadInv
<1> QED
  BY <1>4, <1>5

LEMMA ReleaseStep ==
  ASSUME PadInv, NEW pt \in Points, Release(pt)
  PROVE  PadInv'
<1> DEFINE ps == IF drawMode = 2 THEN curvePoints ELSE <<startPoint, pt>>
           shape == <<drawMode, ps>>
           strokes == Strokes(drawMode, ps)
<1>1. /\ canvas \in Seq(Stroke) /\ shapes \in Seq((0 .. 2) \X Seq(Points)) /\ drawMode \in 0 .. 2
      /\ startPoint \in Points /\ curvePoints \in Seq(Points)
      /\ \A k \in DOMAIN shapes : shapes[k][1] # 2 => Len(shapes[k][2]) = 2
      /\ canvas = Series!FlattenSeq(StrokesOf(shapes))
  BY DEF PadInv, PadTypes, CanvasShowsShapes, StrokesOf
<1>2. /\ canvas' = canvas \o strokes /\ shapes' = Append(shapes, shape) /\ isDrawing' = FALSE
      /\ UNCHANGED <<drawMode, startPoint, curvePoints, animCanvas, padAt>>
  BY DEF Release
<1>3. ps \in Seq(Points) /\ (drawMode # 2 => Len(ps) = 2) /\ shape[1] = drawMode /\ shape[2] = ps
  BY <1>1
<1> HIDE DEF ps
<1>4. strokes \in Seq(Stroke)
  BY <1>1, <1>3, StrokesAre
<1>5. /\ shape \in (0 .. 2) \X Seq(Points) /\ DOMAIN shapes = 1 .. Len(shapes) /\ Len(shapes) \in Nat
      /\ \A k \in 1 .. Len(shapes) : shapes[k] \in (0 .. 2) \X Seq(Points)
  BY <1>1, <1>3
<1> HIDE DEF shape, strokes
<1>6. /\ shapes' \in Seq((0 .. 2) \X Seq(Points)) /\ DOMAIN shapes' = 1 .. Len(shapes) + 1
      /\ \A k \in 1 .. Len(shapes) : shapes'[k] = shapes[k]
      /\ shapes'[Len(shapes) + 1] = shape /\ shapes' # <<>>
  <2> DEFINE T == (0 .. 2) \X Seq(Points)
  <2>1. shapes \in Seq(T) /\ shape \in T
    BY <1>1, <1>5
  <2> HIDE DEF T
  <2>2. /\ Append(shapes, shape) \in Seq(T) /\ Len(Append(shapes, shape)) = Len(shapes) + 1
        /\ \A k \in 1 .. Len(shapes) : Append(shapes, shape)[k] = shapes[k]
        /\ Append(shapes, shape)[Len(shapes) + 1] = shape
        /\ DOMAIN Append(shapes, shape) = 1 .. Len(shapes) + 1 /\ Append(shapes, shape) # <<>>
    BY <2>1
  <2> QED
    BY <1>2, <2>2 DEF T
<1>7. \A k \in 1 .. Len(shapes) : Strokes(shapes[k][1], shapes[k][2]) \in Seq(Stroke)
  <2> SUFFICES ASSUME NEW k \in 1 .. Len(shapes)
               PROVE  Strokes(shapes[k][1], shapes[k][2]) \in Seq(Stroke)
    OBVIOUS
  <2>1. /\ shapes[k][1] \in 0 .. 2 /\ shapes[k][2] \in Seq(Points)
        /\ shapes[k][1] # 2 => Len(shapes[k][2]) = 2
    BY <1>1, <1>5
  <2> QED
    BY <2>1, StrokesAre
<1>8. StrokesOf(shapes) \in Seq(Seq(Stroke)) /\ Len(StrokesOf(shapes)) = Len(shapes)
  BY <1>5, <1>7, IsASeq DEF StrokesOf
<1>9. StrokesOf(shapes') = Append(StrokesOf(shapes), strokes)
  <2>1. StrokesOf(shapes') = [k \in 1 .. Len(shapes) + 1 |-> Strokes(shapes'[k][1], shapes'[k][2])]
    BY <1>6 DEF StrokesOf
  <2>2. Append(StrokesOf(shapes), strokes)
          = [k \in 1 .. Len(shapes) + 1 |->
               IF k = Len(shapes) + 1 THEN strokes ELSE StrokesOf(shapes)[k]]
    <3> DEFINE T == Seq(Stroke)
               s == StrokesOf(shapes)
               n == Len(shapes)
               r == Append(s, strokes)
    <3>1. s \in Seq(T) /\ Len(s) = n /\ n \in Nat /\ strokes \in T
      BY <1>4, <1>5, <1>8
    <3> HIDE DEF T, s, n
    <3>2. /\ r \in Seq(T) /\ Len(r) = n + 1 /\ r[n + 1] = strokes
          /\ \A k \in 1 .. n : r[k] = s[k]
      BY <3>1
    <3> HIDE DEF r
    <3>3. r = [k \in 1 .. n + 1 |-> r[k]]
      BY <3>2
    <3>4. ASSUME NEW k \in 1 .. n + 1 PROVE r[k] = IF k = n + 1 THEN strokes ELSE s[k]
      BY <3>1, <3>2
    <3>5. r = [k \in 1 .. n + 1 |-> IF k = n + 1 THEN strokes ELSE s[k]]
      BY <3>3, <3>4
    <3> QED
      BY <3>5 DEF r, s, n
  <2>3. ASSUME NEW k \in 1 .. Len(shapes) + 1
        PROVE  Strokes(shapes'[k][1], shapes'[k][2])
                 = IF k = Len(shapes) + 1 THEN strokes ELSE StrokesOf(shapes)[k]
    <3>1. CASE k = Len(shapes) + 1
      <4>1. shapes'[k][1] = drawMode /\ shapes'[k][2] = ps
        BY <1>3, <1>6, <3>1
      <4> QED
        BY <3>1, <4>1 DEF strokes
    <3>2. CASE k # Len(shapes) + 1
      <4>1. k \in 1 .. Len(shapes)
        BY <1>5, <3>2
      <4>2. shapes'[k] = shapes[k] /\ StrokesOf(shapes)[k] = Strokes(shapes[k][1], shapes[k][2])
        BY <1>5, <1>6, <4>1 DEF StrokesOf
      <4> QED
        BY <3>2, <4>2
    <3> QED
      BY <3>1, <3>2
  <2> QED
    BY <2>1, <2>2, <2>3
<1>10. CanvasShowsShapes'
  <2>1. Series!FlattenSeq(Append(StrokesOf(shapes), strokes))
          = Series!FlattenSeq(StrokesOf(shapes)) \o strokes
    BY <1>4, <1>8, FlattenAppend
  <2>2. canvas' = Series!FlattenSeq(StrokesOf(shapes'))
    BY <1>1, <1>2, <1>9, <2>1
  <2> QED
    BY <2>2 DEF CanvasShowsShapes, StrokesOf
<1>11. AnimationShowsCanvas'
  <2> SUFFICES ASSUME padAt = "animation" PROVE Series!IsPrefix(animCanvas, canvas')
    BY <1>2, <1>6 DEF AnimationShowsCanvas
  <2>1. Len(animCanvas) <= Len(canvas) /\ SubSeq(animCanvas, 1, Len(animCanvas)) = SubSeq(canvas, 1, Len(animCanvas))
    BY DEF PadInv, AnimationShowsCanvas, Series!IsPrefix
  <2> QED
    BY <1>2, <2>1 DEF Series!IsPrefix
<1>12. PadTypes'
  <2>1. \A k \in DOMAIN shapes' : shapes'[k][1] # 2 => Len(shapes'[k][2]) = 2
    <3> SUFFICES ASSUME NEW k \in 1 .. Len(shapes) + 1
                 PROVE  shapes'[k][1] # 2 => Len(shapes'[k][2]) = 2
      BY <1>6
    <3>1. CASE k = Len(shapes) + 1
      BY <1>3, <1>6, <3>1
    <3>2. CASE k # Len(shapes) + 1
      <4>1. k \in 1 .. Len(shapes)
        BY <1>5, <3>2
      <4> QED
        BY <1>1, <1>5, <1>6, <4>1
    <3> QED
      BY <3>1, <3>2
  <2>2. canvas' \in Seq(Stroke)
    BY <1>1, <1>2, <1>4
  <2> QED
    BY <1>2, <1>6, <2>1, <2>2 DEF PadInv, PadTypes
<1>13. CurveInv'
  BY <1>2 DEF CurveInv
<1> QED
  BY <1>10, <1>11, <1>12, <1>13 DEF PadInv

LEMMA PadStep ==
  ASSUME PadInv, [PadNext]_padVars
  PROVE  PadInv'
<1>1. ASSUME NEW pt \in Points, Press(pt) \/ Move(pt) \/ Release(pt) PROVE PadInv'
  BY <1>1, DrawingStep, ReleaseStep
<1>2. CASE SwitchMode
  <2>1. /\ UNCHANGED <<canvas, shapes, isDrawing, startPoint, curvePoints, animCanvas, padAt, pressedMode>>
        /\ drawMode' = (drawMode + 1) % 3 /\ drawMode \in 0 .. 2
    BY <1>2 DEF SwitchMode, PadInv, PadTypes
  <2>2. drawMode' \in 0 .. 2
    BY <2>1
  <2> QED
    BY <2>1, <2>2 DEF PadInv, PadTypes, CanvasShowsShapes, CurveInv, AnimationShowsCanvas
<1>3. CASE Clear
  <2>1. /\ padAt = "main" /\ canvas' = <<>> /\ shapes' = <<>>
        /\ UNCHANGED <<isDrawing, drawMode, startPoint, curvePoints, animCanvas, padAt, pressedMode>>
    BY <1>3 DEF Clear
  <2>2. [k \in DOMAIN shapes' |-> Strokes(shapes'[k][1], shapes'[k][2])] = <<>>
    BY <2>1
  <2>3. CanvasShowsShapes'
    BY <2>1, <2>2, FlattenNone DEF CanvasShowsShapes
  <2> QED
    BY <2>1, <2>3 DEF PadInv, PadTypes, CurveInv, AnimationShowsCanvas
<1>4. CASE Animate \/ NextFrame
  <2>1. /\ UNCHANGED <<canvas, shapes, isDrawing, drawMode, startPoint, curvePoints, pressedMode>>
        /\ padAt' = "animation" /\ DrawFrame
    BY <1>4 DEF Animate, NextFrame
  <2>2. animCanvas' = canvas /\ shapes # <<>>
    BY <1>4, <2>1, FrameIsCanvas DEF Animate, NextFrame, PadInv, AnimationShowsCanvas
  <2>3. canvas \in Seq(Stroke)
    BY DEF PadInv, PadTypes
  <2>4. AnimationShowsCanvas'
    BY <2>1, <2>2, <2>3 DEF AnimationShowsCanvas, Series!IsPrefix
  <2> QED
    BY <2>1, <2>4 DEF PadInv, PadTypes, CanvasShowsShapes, CurveInv
<1>5. CASE Escape
  <2>1. /\ UNCHANGED <<canvas, shapes, isDrawing, drawMode, startPoint, curvePoints, pressedMode>>
        /\ padAt' \in {"main", "over"}
    BY <1>5 DEF Escape
  <2> QED
    BY <2>1 DEF PadInv, PadTypes, CanvasShowsShapes, CurveInv, AnimationShowsCanvas
<1>6. CASE UNCHANGED padVars
  BY <1>6 DEF padVars, PadInv, PadTypes, CanvasShowsShapes, CurveInv, AnimationShowsCanvas
<1> QED
  BY <1>1, <1>2, <1>3, <1>4, <1>5, <1>6 DEF PadNext

THEOREM PadShowsShapes == PadSpec => []PadCorrect
<1>1. PadInit => PadInv
  BY PadInitInv
<1>2. PadInv /\ [PadNext]_padVars => PadInv'
  BY PadStep
<1>3. PadInv => PadCorrect
  <2> SUFFICES ASSUME PadInv PROVE PadCorrect
    OBVIOUS
  <2>1. \A k \in DOMAIN shapes : shapes[k] \in (0 .. 2) \X Seq(Points)
    BY DEF PadInv, PadTypes
  <2>2. PadTypeOK
    BY <2>1 DEF PadInv, PadTypes, PadTypeOK, Stroke
  <2>3. CurveBeginsAtPress
    BY DEF PadInv, CurveInv, CurveBeginsAtPress
  <2> QED
    BY <2>2, <2>3 DEF PadInv, PadCorrect
<1> QED
  BY <1>1, <1>2, <1>3, PTL DEF PadSpec

(* The examples do what they show, in the order and the time that they show. *)
THEOREM ExamplesHold == ChainSpec /\ ImagesSpec /\ EchoSpec /\ PadSpec => []ExamplesCorrect
<1> QED
  BY ChainInOrder, ImagesAgree, EchoServes, PadShowsShapes, PTL DEF ExamplesCorrect
==============================================================================
