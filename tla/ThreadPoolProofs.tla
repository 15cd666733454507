-------------------------- MODULE ThreadPoolProofs --------------------------
(***************************************************************************)
(* The safety invariants of ThreadPool hold for every number of workers,   *)
(* clients and tasks. None of them is inductive by itself: IInv adds who   *)
(* holds mtx_ at which statement, where a worker may have a task in its    *)
(* hands, and how far the destructor has come.                             *)
(***************************************************************************)
EXTENDS ThreadPool, FiniteSetTheorems, TLAPS

\* A worker is between lock and unlock exactly when it owns mtx_.
MutexInv ==
    \A w \in Workers : pc[w] \in {"check", "wait", "pop", "unlock"} <=> mtx = w

\* taskOpt has a value only from the pop to the end of the invocation.
TaskPlaceInv ==
    \A w \in Workers :
        /\ taskOpt[w] # NoTask => pc[w] \in {"unlock", "run"}
        /\ pc[w] = "run" => taskOpt[w] # NoTask

\* A worker that took a task after the stop is on its way out.
LateInv ==
    \A w \in Workers :
        /\ isRunning => late[w] = 0
        /\ late[w] \in {0, 1}
        /\ late[w] = 1 => pc[w] \in {"unlock", "run", "loop", "exited"}

\* What the progress of the destructor says of the other threads.
OwnerInv ==
    /\ isRunning <=> owner = "alive"
    /\ owner # "alive" => \A c \in Clients : cpc[c] = "left"
    /\ \A w \in Workers : pc[w] = "exited" => ~isRunning
    /\ owner = "destroyed" =>
          /\ workQueue = <<>>
          /\ \A w \in Workers : pc[w] = "exited"

IInv ==
    /\ TypeOK
    /\ MutexInv
    /\ TaskPlaceInv
    /\ Conservation
    /\ LateInv
    /\ OwnerInv
    /\ SomeoneAwake

USE NoTaskAssumption, FreeAssumption

-----------------------------------------------------------------------------
(* Removing the front of a queue without duplicates: its members are the     *)
(* front, once, and those of the rest.                                       *)
LEMMA TailElems ==
    ASSUME NEW S, NEW s \in Seq(S), s # <<>>
    PROVE  /\ Head(s) \in S
           /\ Tail(s) \in Seq(S)
           /\ Elems(s) = {Head(s)} \cup Elems(Tail(s))
           /\ (\A i, j \in 1 .. Len(s) : s[i] = s[j] => i = j) =>
                 /\ Head(s) \notin Elems(Tail(s))
                 /\ \A i, j \in 1 .. Len(Tail(s)) : Tail(s)[i] = Tail(s)[j] => i = j
<1>1. Len(s) \in Nat \ {0} /\ Head(s) = s[1] /\ s[1] \in S
  OBVIOUS
<1>2. Tail(s) \in Seq(S) /\ Len(Tail(s)) = Len(s) - 1
  OBVIOUS
<1>3. \A i \in 1 .. Len(Tail(s)) : Tail(s)[i] = s[i + 1] /\ i + 1 \in 1 .. Len(s)
  BY <1>1, <1>2
<1>4. Elems(s) = {Head(s)} \cup Elems(Tail(s))
  <2>1. ASSUME NEW i \in 1 .. Len(s) PROVE s[i] \in {Head(s)} \cup Elems(Tail(s))
    <3>1. CASE i = 1
      BY <3>1, <1>1
    <3>2. CASE i # 1
      <4>1. i - 1 \in 1 .. Len(Tail(s)) /\ (i - 1) + 1 = i
        BY <3>2, <1>1, <1>2
      <4>2. Tail(s)[i - 1] = s[i]
        BY <4>1, <1>3
      <4> QED
        BY <4>1, <4>2 DEF Elems
    <3> QED
      BY <3>1, <3>2
  <2>2. Head(s) \in Elems(s)
    BY <1>1 DEF Elems
  <2>3. Elems(Tail(s)) \subseteq Elems(s)
    BY <1>3 DEF Elems
  <2> QED
    BY <2>1, <2>2, <2>3 DEF Elems
<1>5. ASSUME \A i, j \in 1 .. Len(s) : s[i] = s[j] => i = j
      PROVE  /\ Head(s) \notin Elems(Tail(s))
             /\ \A i, j \in 1 .. Len(Tail(s)) : Tail(s)[i] = Tail(s)[j] => i = j
  <2>1. ASSUME NEW i \in 1 .. Len(Tail(s)) PROVE Tail(s)[i] # Head(s)
    BY <1>1, <1>2, <1>3, <1>5
  <2>2. ASSUME NEW i \in 1 .. Len(Tail(s)), NEW j \in 1 .. Len(Tail(s)),
               Tail(s)[i] = Tail(s)[j]
        PROVE  i = j
    <3>1. s[i + 1] = s[j + 1] /\ i + 1 \in 1 .. Len(s) /\ j + 1 \in 1 .. Len(s)
      BY <1>3, <2>2
    <3>2. i + 1 = j + 1
      BY <3>1, <1>5
    <3> QED
      BY <3>2, <1>2
  <2> QED
    BY <2>1, <2>2 DEF Elems
<1> QED
  BY <1>1, <1>2, <1>4, <1>5

(* Appending a member that is not there adds that member and no duplicate. *)
LEMMA AppendElems ==
    ASSUME NEW S, NEW s \in Seq(S), NEW e \in S
    PROVE  /\ Append(s, e) \in Seq(S)
           /\ Append(s, e) # <<>>
           /\ Elems(Append(s, e)) = Elems(s) \cup {e}
           /\ (/\ \A i, j \in 1 .. Len(s) : s[i] = s[j] => i = j
              /\ e \notin Elems(s)) =>
                 \A i, j \in 1 .. Len(Append(s, e)) :
                    Append(s, e)[i] = Append(s, e)[j] => i = j
<1>1. Append(s, e) \in Seq(S) /\ Len(Append(s, e)) = Len(s) + 1 /\ Len(s) \in Nat
  OBVIOUS
<1>2. /\ Append(s, e)[Len(s) + 1] = e
      /\ \A i \in 1 .. Len(s) : Append(s, e)[i] = s[i]
  OBVIOUS
<1>3. Elems(Append(s, e)) = Elems(s) \cup {e}
  <2>1. \A i \in 1 .. Len(s) : i \in 1 .. Len(Append(s, e))
    BY <1>1
  <2>2. Len(s) + 1 \in 1 .. Len(Append(s, e))
    BY <1>1
  <2>3. \A i \in 1 .. Len(Append(s, e)) : i \in 1 .. Len(s) \/ i = Len(s) + 1
    BY <1>1
  <2> QED
    BY <1>2, <2>1, <2>2, <2>3 DEF Elems
<1>4. ASSUME \A i, j \in 1 .. Len(s) : s[i] = s[j] => i = j, e \notin Elems(s),
             NEW i \in 1 .. Len(Append(s, e)), NEW j \in 1 .. Len(Append(s, e)),
             Append(s, e)[i] = Append(s, e)[j]
      PROVE  i = j
  <2>1. \A k \in 1 .. Len(s) : s[k] # e
    BY <1>4 DEF Elems
  <2>2. (i \in 1 .. Len(s) \/ i = Len(s) + 1) /\ (j \in 1 .. Len(s) \/ j = Len(s) + 1)
    BY <1>1
  <2> QED
    BY <1>2, <1>4, <2>1, <2>2
<1> QED
  BY <1>1, <1>3, <1>4

-----------------------------------------------------------------------------
(* Every variable keeps its type in every step. *)
LEMMA TypeStep ==
    ASSUME TypeOK, [Next]_vars
    PROVE  TypeOK'
<1> USE DEF TypeOK, poolVars, workerVars, clientVars
<1>1. CASE UNCHANGED vars
  BY <1>1 DEF vars
<1>2. ASSUME NEW w \in Workers, WorkerStep(w) \/ SpuriousWake(w) PROVE TypeOK'
  <2>1. CASE CheckRunning(w)
    BY <2>1 DEF CheckRunning
  <2>2. CASE Lock(w)
    BY <2>2 DEF Lock
  <2>3. CASE CheckEmpty(w)
    BY <2>3 DEF CheckEmpty
  <2>4. CASE Wait(w)
    BY <2>4 DEF Wait
  <2>5. CASE SpuriousWake(w)
    BY <2>5 DEF SpuriousWake
  <2>6. CASE Relock(w)
    BY <2>6 DEF Relock
  <2>7. CASE Pop(w)
    <3>1. CASE workQueue = <<>>
      BY <2>7, <3>1 DEF Pop
    <3>2. CASE workQueue # <<>>
      <4>1. Head(workQueue) \in Tasks /\ Tail(workQueue) \in Seq(Tasks)
        BY <3>2, TailElems
      <4>2. late' = late \/ late' = [late EXCEPT ![w] = late[w] + 1]
        BY <2>7, <3>2 DEF Pop
      <4>3. late' \in [Workers -> Nat]
        <5>1. late \in [Workers -> Nat] /\ late[w] + 1 \in Nat
          OBVIOUS
        <5> QED
          BY <4>2, <5>1
      <4>4. workQueue' = Tail(workQueue) /\ taskOpt' = [taskOpt EXCEPT ![w] = Head(workQueue)]
        BY <2>7, <3>2 DEF Pop
      <4>5. workQueue' \in Seq(Tasks) /\ taskOpt' \in [Workers -> Tasks \cup {NoTask}]
        BY <4>1, <4>4
      <4>6. pc' = [pc EXCEPT ![w] = "unlock"] /\ UNCHANGED <<isRunning, mtx, cpc, waitFor, future, owner>>
        BY <2>7 DEF Pop
      <4> QED
        BY <4>3, <4>5, <4>6
    <3> QED
      BY <3>1, <3>2
  <2>8. CASE Unlock(w)
    BY <2>8 DEF Unlock
  <2>9. CASE Run(w)
    BY <2>9 DEF Run
  <2> QED
    BY <1>2, <2>1, <2>2, <2>3, <2>4, <2>5, <2>6, <2>7, <2>8, <2>9 DEF WorkerStep
<1>3. ASSUME NEW c \in Clients, NEW t \in Tasks, Push(c, t) PROVE TypeOK'
  BY <1>3 DEF Push
<1>4. ASSUME NEW c \in Clients, NEW t \in Tasks, BeginGet(c, t) PROVE TypeOK'
  BY <1>4 DEF BeginGet
<1>5. ASSUME NEW c \in Clients, NotifyOne(c) PROVE TypeOK'
  BY <1>5 DEF NotifyOne, Sleeping
<1>6. ASSUME NEW c \in Clients, Leave(c) PROVE TypeOK'
  BY <1>6 DEF Leave
<1>7. ASSUME NEW c \in Clients, EndGet(c) PROVE TypeOK'
  BY <1>7 DEF EndGet
<1>8. CASE StoreStop
  BY <1>8 DEF StoreStop
<1>9. CASE NotifyAll
  BY <1>9 DEF NotifyAll
<1>10. CASE Join
  BY <1>10 DEF Join
<1> QED
  BY <1>1, <1>2, <1>3, <1>4, <1>5, <1>6, <1>7, <1>8, <1>9, <1>10 DEF Next

(* Every variable has its type in every reachable state. *)
THEOREM TypeCorrect == Spec => []TypeOK
<1>1. Init => TypeOK
  BY DEF Init, TypeOK
<1>2. TypeOK /\ [Next]_vars => TypeOK'
  BY TypeStep
<1> QED
  BY <1>1, <1>2, PTL DEF Spec

-----------------------------------------------------------------------------
(* The parts of IInv about the control of workers, clients and destructor    *)
(* are preserved by every step.                                              *)
LEMMA ControlStep ==
    ASSUME IInv, [Next]_vars
    PROVE  MutexInv' /\ TaskPlaceInv' /\ LateInv' /\ OwnerInv'
<1> USE DEF IInv, MutexInv, TaskPlaceInv, LateInv, OwnerInv, TypeOK,
            poolVars, workerVars, clientVars
<1>1. CASE UNCHANGED vars
  BY <1>1 DEF vars
<1>2. ASSUME NEW w \in Workers, WorkerStep(w) \/ SpuriousWake(w)
      PROVE  MutexInv' /\ TaskPlaceInv' /\ LateInv' /\ OwnerInv'
  <2>1. CASE CheckRunning(w)
    BY <2>1 DEF CheckRunning
  <2>2. CASE Lock(w)
    BY <2>2 DEF Lock
  <2>3. CASE CheckEmpty(w)
    BY <2>3 DEF CheckEmpty
  <2>4. CASE Wait(w)
    BY <2>4 DEF Wait
  <2>5. CASE SpuriousWake(w)
    BY <2>5 DEF SpuriousWake
  <2>6. CASE Relock(w)
    BY <2>6 DEF Relock
  <2>7. CASE Pop(w)
    <3>1. owner # "destroyed"
      BY <2>7 DEF Pop
    <3>2. CASE workQueue = <<>>
      BY <2>7, <3>1, <3>2 DEF Pop
    <3>3. CASE workQueue # <<>>
      <4>1. Head(workQueue) \in Tasks
        BY <3>3, TailElems
      <4>2. taskOpt' = [taskOpt EXCEPT ![w] = Head(workQueue)]
        BY <2>7, <3>3 DEF Pop
      <4>3. taskOpt'[w] # NoTask
        BY <4>1, <4>2
      <4>4. late[w] = 0
        BY <2>7 DEF Pop
      <4>5. late' = IF isRunning THEN late ELSE [late EXCEPT ![w] = 1]
        BY <2>7, <3>3, <4>4 DEF Pop
      <4>6. /\ pc' = [pc EXCEPT ![w] = "unlock"] /\ pc[w] = "pop"
            /\ UNCHANGED <<isRunning, mtx, cpc, owner>>
        BY <2>7 DEF Pop
      <4> QED
        BY <3>1, <4>2, <4>3, <4>4, <4>5, <4>6
    <3> QED
      BY <3>2, <3>3
  <2>8. CASE Unlock(w)
    BY <2>8 DEF Unlock
  <2>9. CASE Run(w)
    BY <2>9 DEF Run
  <2> QED
    BY <1>2, <2>1, <2>2, <2>3, <2>4, <2>5, <2>6, <2>7, <2>8, <2>9 DEF WorkerStep
<1>3. ASSUME NEW c \in Clients, NEW t \in Tasks, Push(c, t)
      PROVE  MutexInv' /\ TaskPlaceInv' /\ LateInv' /\ OwnerInv'
  BY <1>3 DEF Push
<1>4. ASSUME NEW c \in Clients, NEW t \in Tasks, BeginGet(c, t)
      PROVE  MutexInv' /\ TaskPlaceInv' /\ LateInv' /\ OwnerInv'
  BY <1>4 DEF BeginGet
<1>5. ASSUME NEW c \in Clients, NotifyOne(c)
      PROVE  MutexInv' /\ TaskPlaceInv' /\ LateInv' /\ OwnerInv'
  <2>1. CASE UNCHANGED pc
    BY <1>5, <2>1 DEF NotifyOne
  <2>2. ASSUME NEW w \in Sleeping, pc' = [pc EXCEPT ![w] = "relock"]
        PROVE  MutexInv' /\ TaskPlaceInv' /\ LateInv' /\ OwnerInv'
    BY <1>5, <2>2 DEF NotifyOne, Sleeping
  <2> QED
    BY <1>5, <2>1, <2>2 DEF NotifyOne
<1>6. ASSUME NEW c \in Clients, Leave(c)
      PROVE  MutexInv' /\ TaskPlaceInv' /\ LateInv' /\ OwnerInv'
  BY <1>6 DEF Leave
<1>7. ASSUME NEW c \in Clients, EndGet(c)
      PROVE  MutexInv' /\ TaskPlaceInv' /\ LateInv' /\ OwnerInv'
  BY <1>7 DEF EndGet
<1>8. CASE StoreStop
  BY <1>8 DEF StoreStop
<1>9. CASE NotifyAll
  BY <1>9 DEF NotifyAll, Sleeping
<1>10. CASE Join
  BY <1>10 DEF Join
<1> QED
  BY <1>1, <1>2, <1>3, <1>4, <1>5, <1>6, <1>7, <1>8, <1>9, <1>10 DEF Next

(* A step that touches neither the queue, nor the futures, nor what the      *)
(* workers hold, cannot lose or duplicate a task.                            *)
LEMMA ConservationFrame ==
    ASSUME Conservation, UNCHANGED <<workQueue, taskOpt, future>>
    PROVE  Conservation'
  BY DEF Conservation, Elems

(* No step loses a task or makes a second one of it.                         *)
LEMMA ConservationStep ==
    ASSUME IInv, [Next]_vars
    PROVE  Conservation'
<1> USE DEF poolVars, workerVars, clientVars
<1>1. CASE UNCHANGED <<workQueue, taskOpt, future>>
  BY <1>1, ConservationFrame DEF IInv
<1>2. ASSUME NEW w \in Workers, Pop(w), workQueue # <<>>
      PROVE  Conservation'
  <2> DEFINE h == Head(workQueue)
  <2>1. /\ h \in Tasks /\ Elems(workQueue) = {h} \cup Elems(workQueue')
        /\ h \notin Elems(workQueue')
        /\ \A i, j \in 1 .. Len(workQueue') : workQueue'[i] = workQueue'[j] => i = j
    <3>1. workQueue \in Seq(Tasks) /\ workQueue' = Tail(workQueue)
      BY <1>2 DEF Pop, IInv, TypeOK
    <3>2. \A i, j \in 1 .. Len(workQueue) : workQueue[i] = workQueue[j] => i = j
      BY DEF IInv, Conservation
    <3>3. /\ h \in Tasks /\ Elems(workQueue) = {h} \cup Elems(Tail(workQueue))
          /\ h \notin Elems(Tail(workQueue))
          /\ \A i, j \in 1 .. Len(Tail(workQueue)) :
                Tail(workQueue)[i] = Tail(workQueue)[j] => i = j
      BY <1>2, <3>1, <3>2, TailElems
    <3>4. Elems(workQueue') = Elems(Tail(workQueue))
      BY <3>1 DEF Elems
    <3> QED
      BY <3>1, <3>3, <3>4
  <2>2. taskOpt' = [taskOpt EXCEPT ![w] = h] /\ future' = future
    BY <1>2 DEF Pop
  <2>3. taskOpt[w] = NoTask
    BY <1>2 DEF Pop, IInv, TaskPlaceInv
  <2>4. \A v \in Workers : taskOpt[v] # h
    BY <2>1 DEF IInv, Conservation
  <2>5. \A v \in Workers : taskOpt'[v] = IF v = w THEN h ELSE taskOpt[v]
    BY <2>2 DEF IInv, TypeOK
  <2> HIDE DEF h
  <2>6. \A u, v \in Workers : taskOpt'[u] = taskOpt'[v] /\ taskOpt'[u] # NoTask => u = v
    BY <2>4, <2>5 DEF IInv, Conservation
  <2>7. \A v \in Workers : taskOpt'[v] \notin Elems(workQueue')
    BY <2>1, <2>5 DEF IInv, Conservation
  <2>8. \A t \in Tasks : (\E v \in Workers : taskOpt'[v] = t)
                          <=> (t = h \/ \E v \in Workers : taskOpt[v] = t)
    BY <2>1, <2>3, <2>5
  <2>9. \A t \in Tasks : future'[t] = "pending" <=>
                             \/ t \in Elems(workQueue')
                             \/ \E v \in Workers : taskOpt'[v] = t
    BY <2>1, <2>2, <2>8 DEF IInv, Conservation
  <2> QED
    BY <2>1, <2>6, <2>7, <2>9 DEF Conservation, Elems
<1>3. ASSUME NEW w \in Workers, Run(w)
      PROVE  Conservation'
  <2> DEFINE t0 == taskOpt[w]
  <2>1. t0 \in Tasks /\ t0 # NoTask
    BY <1>3 DEF Run, IInv, TypeOK, TaskPlaceInv
  <2>2. /\ taskOpt' = [taskOpt EXCEPT ![w] = NoTask]
        /\ workQueue' = workQueue
        /\ \A t \in Tasks : t # t0 => future'[t] = future[t]
        /\ future'[t0] # "pending"
    BY <1>3, <2>1 DEF Run, IInv, TypeOK
  <2>3. \A v \in Workers : taskOpt'[v] = IF v = w THEN NoTask ELSE taskOpt[v]
    BY <2>2 DEF IInv, TypeOK
  <2>4. NoTask \notin Elems(workQueue)
    BY DEF Elems, IInv, TypeOK
  <2>5. \A t \in Tasks : (\E v \in Workers : taskOpt'[v] = t)
                          <=> (t # t0 /\ \E v \in Workers : taskOpt[v] = t)
    BY <2>1, <2>3 DEF IInv, Conservation
  <2>6. t0 \notin Elems(workQueue)
    BY DEF IInv, Conservation
  <2> HIDE DEF t0
  <2>7. \A t \in Tasks : future'[t] = "pending" <=>
                             \/ t \in Elems(workQueue)
                             \/ \E v \in Workers : taskOpt'[v] = t
    BY <2>2, <2>5, <2>6 DEF IInv, Conservation
  <2>8. \A u, v \in Workers : taskOpt'[u] = taskOpt'[v] /\ taskOpt'[u] # NoTask => u = v
    BY <2>3 DEF IInv, Conservation
  <2>9. \A v \in Workers : taskOpt'[v] \notin Elems(workQueue)
    BY <2>3, <2>4 DEF IInv, Conservation
  <2> QED
    BY <2>2, <2>7, <2>8, <2>9 DEF IInv, Conservation, Elems
<1>4. ASSUME NEW c \in Clients, NEW t \in Tasks, Push(c, t)
      PROVE  Conservation'
  <2>1. t \notin Elems(workQueue) /\ \A w \in Workers : taskOpt[w] # t
    BY <1>4 DEF Push, IInv, Conservation
  <2>2. /\ Elems(workQueue') = Elems(workQueue) \cup {t}
        /\ \A i, j \in 1 .. Len(workQueue') : workQueue'[i] = workQueue'[j] => i = j
    BY <1>4, <2>1, AppendElems DEF Push, IInv, TypeOK, Conservation
  <2>3. taskOpt' = taskOpt /\ future' = [future EXCEPT ![t] = "pending"]
    BY <1>4 DEF Push
  <2>4. \A u \in Tasks : future'[u] = "pending" <=>
                             \/ u \in Elems(workQueue')
                             \/ \E w \in Workers : taskOpt'[w] = u
    BY <2>1, <2>2, <2>3 DEF IInv, TypeOK, Conservation
  <2>5. \A w \in Workers : taskOpt'[w] \notin Elems(workQueue')
    BY <2>1, <2>2, <2>3 DEF IInv, Conservation
  <2> QED
    BY <2>2, <2>3, <2>4, <2>5 DEF IInv, Conservation, Elems
<1>5. CASE Join
  <2>1. \A w \in Workers : taskOpt'[w] = NoTask
    BY <1>5 DEF Join, IInv, TaskPlaceInv
  <2>2. Elems(workQueue') = {} /\ Len(workQueue') = 0
    BY <1>5 DEF Join, Elems
  <2>3. \A t \in Tasks : future'[t] # "pending"
    <3>1. \A w \in Workers : taskOpt[w] = NoTask
      BY <1>5 DEF Join, IInv, TaskPlaceInv
    <3>2. \A t \in Tasks : t \notin Elems(workQueue) => future[t] # "pending"
      BY <3>1 DEF IInv, Conservation
    <3> QED
      BY <1>5, <3>2 DEF Join
  <2>4. \A w \in Workers : taskOpt'[w] \notin Tasks
    BY <2>1
  <2>5. \A u, v \in Workers : taskOpt'[u] # NoTask => u = v
    BY <2>1
  <2>6. 1 .. Len(workQueue') = {}
    BY <2>2
  <2> QED
    BY <2>2, <2>3, <2>4, <2>5, <2>6 DEF Conservation
<1> QED
  BY <1>1, <1>2, <1>3, <1>4, <1>5
  DEF Next, vars, WorkerStep, CheckRunning, Lock, CheckEmpty, Wait, SpuriousWake,
      Relock, Pop, Unlock, BeginGet, NotifyOne, Leave, EndGet, StoreStop, NotifyAll

-----------------------------------------------------------------------------
(* mtx_ makes the worker that is about to sleep the only one that is, so the *)
(* notify_one() of a submit finds another one asleep, or else awake.         *)
LEMMA AwakeStep ==
    ASSUME IInv, [Next]_vars
    PROVE  SomeoneAwake'
<1> SUFFICES ASSUME isRunning', workQueue' # <<>>,
                    NEW a \in Workers, NEW b \in Workers, a # b
             PROVE  \/ \E w \in Workers : pc'[w] \notin {"wait", "waiting"}
                    \/ \E c \in Clients : cpc'[c] = "notify"
  BY DEF SomeoneAwake
<1> USE DEF poolVars, workerVars, clientVars
<1>1. CASE UNCHANGED vars
  BY <1>1 DEF vars, IInv, SomeoneAwake
<1>2. ASSUME NEW w \in Workers, WorkerStep(w) \/ SpuriousWake(w)
      PROVE  \/ \E v \in Workers : pc'[v] \notin {"wait", "waiting"}
             \/ \E c \in Clients : cpc'[c] = "notify"
  <2>1. CASE Wait(w)
    BY <1>2, <2>1 DEF Wait, IInv, TypeOK, SomeoneAwake
  <2>2. CASE CheckEmpty(w)
    BY <1>2, <2>2 DEF CheckEmpty, IInv, TypeOK
  <2>3. CASE ~Wait(w) /\ ~CheckEmpty(w)
    BY <1>2, <2>3
    DEF WorkerStep, CheckRunning, Lock, SpuriousWake, Relock, Pop, Unlock, Run,
        IInv, TypeOK
  <2> QED
    BY <2>1, <2>2, <2>3
<1>3. ASSUME NEW c \in Clients, NEW t \in Tasks, Push(c, t)
      PROVE  \E d \in Clients : cpc'[d] = "notify"
  BY <1>3 DEF Push, IInv, TypeOK
<1>4. ASSUME NEW c \in Clients, NotifyOne(c)
      PROVE  \E w \in Workers : pc'[w] \notin {"wait", "waiting"}
  <2>1. ASSUME NEW w \in Sleeping, pc' = [pc EXCEPT ![w] = "relock"]
        PROVE  \E v \in Workers : pc'[v] \notin {"wait", "waiting"}
    BY <2>1 DEF Sleeping, IInv, TypeOK
  <2>2. CASE Sleeping = {} /\ UNCHANGED pc
    <3>1. pc[a] # "waiting" /\ pc[b] # "waiting"
      BY <2>2 DEF Sleeping
    <3>2. ~(pc[a] = "wait" /\ pc[b] = "wait")
      BY DEF IInv, MutexInv
    <3> QED
      BY <2>2, <3>1, <3>2
  <2> QED
    BY <1>4, <2>1, <2>2 DEF NotifyOne
<1>5. ASSUME NEW c \in Clients, NEW t \in Tasks, BeginGet(c, t)
      PROVE  UNCHANGED <<isRunning, workQueue, pc, cpc>>
  BY <1>5 DEF BeginGet
<1>6. ASSUME NEW c \in Clients, EndGet(c)
      PROVE  UNCHANGED <<isRunning, workQueue, pc, cpc>>
  BY <1>6 DEF EndGet
<1>7. ASSUME NEW c \in Clients, Leave(c)
      PROVE  /\ UNCHANGED <<isRunning, workQueue, pc>>
             /\ \A d \in Clients : cpc[d] = "notify" => cpc'[d] = "notify"
  BY <1>7 DEF Leave, IInv, TypeOK
<1>8. CASE StoreStop
  BY <1>8 DEF StoreStop
<1>9. ~NotifyAll /\ ~Join
  BY DEF NotifyAll, Join, IInv, OwnerInv
<1> QED
  BY <1>1, <1>2, <1>3, <1>4, <1>5, <1>6, <1>7, <1>8, <1>9 DEF Next, IInv, SomeoneAwake

-----------------------------------------------------------------------------
(* A pool that was just made satisfies the invariant.                        *)
LEMMA IInvInit == Init => IInv
  BY DEF Init, IInv, TypeOK, MutexInv, TaskPlaceInv, Conservation, LateInv,
         OwnerInv, SomeoneAwake, Elems

(* The invariant that carries the others. *)
THEOREM Invariance == Spec => []IInv
<1>1. TypeOK /\ [Next]_vars => TypeOK'
  BY TypeStep
<1>2. IInv /\ [Next]_vars => IInv'
  BY <1>1, ControlStep, ConservationStep, AwakeStep DEF IInv
<1> QED
  BY <1>2, IInvInit, PTL DEF Spec

(* No task is lost, none is in two places, and no future is pending without  *)
(* a task that will resolve it.                                              *)
THEOREM NoTaskLost == Spec => []Conservation
<1>1. IInv => Conservation
  BY DEF IInv
<1> QED
  BY <1>1, Invariance, PTL

(* The destructor leaves no worker running and nobody waiting for ever.      *)
THEOREM DestructorResolves == Spec => []DestroyedMeansResolved
<1>1. IInv => DestroyedMeansResolved
  BY DEF IInv, DestroyedMeansResolved, OwnerInv, TaskPlaceInv, Conservation, Elems
<1> QED
  BY <1>1, Invariance, PTL

(* After isRunning_ is cleared a worker takes at most one more task.         *)
THEOREM AtMostOneLateTask == Spec => []LateTasks
<1>1. IInv => LateTasks
  BY DEF IInv, LateInv, LateTasks
<1> QED
  BY <1>1, Invariance, PTL

(* A pool of two workers or more never sleeps with work in its queue.        *)
THEOREM NobodySleepsThroughWork == Spec => []SomeoneAwake
<1>1. IInv => SomeoneAwake
  BY DEF IInv
<1> QED
  BY <1>1, Invariance, PTL

-----------------------------------------------------------------------------
(* A worker without a task is one that the pool has to spare: the tasks in   *)
(* hand are fewer than the workers.                                          *)
LEMMA WorkerToSpare ==
    ASSUME Conservation, NEW w \in Workers, taskOpt[w] = NoTask
    PROVE  Cardinality(InHand) < Cardinality(Workers)
<1> DEFINE Others == Workers \ {w}
           holder == [t \in InHand |-> CHOOSE v \in Workers : taskOpt[v] = t]
<1>1. \A t \in InHand : /\ holder[t] \in Workers
                        /\ taskOpt[holder[t]] = t
                        /\ t # NoTask
  BY DEF InHand
<1>2. holder \in [InHand -> Others]
  BY <1>1
<1>3. \A t, u \in InHand : holder[t] = holder[u] => t = u
  BY <1>1
<1> HIDE DEF holder
<1>4. holder \in Injection(InHand, Others)
  BY <1>2, <1>3 DEF Injection, IsInjective
<1>5. IsFiniteSet(Others) /\ Cardinality(Others) = Cardinality(Workers) - 1
  BY FS_RemoveElement, WorkersAssumption
<1>6. IsFiniteSet(InHand) /\ Cardinality(InHand) <= Cardinality(Others)
  BY <1>4, <1>5, FS_Injection
<1>7. Cardinality(InHand) \in Nat /\ Cardinality(Workers) \in Nat
  BY <1>6, FS_CardinalityType, WorkersAssumption
<1> QED
  BY <1>5, <1>6, <1>7

(* What a step that assigns one worker's taskOpt makes of the set of tasks   *)
(* in hand.                                                                  *)
LEMMA InHandAfter ==
    ASSUME TypeOK, NEW w \in Workers, NEW t \in Tasks \cup {NoTask},
           taskOpt' = [taskOpt EXCEPT ![w] = t],
           \A v \in Workers : taskOpt[v] = taskOpt[w] /\ taskOpt[w] # NoTask => v = w
    PROVE  InHand' = ((InHand \ {taskOpt[w]}) \cup {t}) \ {NoTask}
<1>1. \A v \in Workers : taskOpt'[v] = IF v = w THEN t ELSE taskOpt[v]
  BY DEF TypeOK
<1>2. ASSUME NEW x \in InHand'
      PROVE  x \in ((InHand \ {taskOpt[w]}) \cup {t}) \ {NoTask}
  <2>1. PICK v \in Workers : x = taskOpt'[v] /\ x # NoTask
    BY <1>2 DEF InHand
  <2>2. CASE v = w
    BY <1>1, <2>1, <2>2
  <2>3. CASE v # w
    <3>1. x = taskOpt[v] /\ x \in InHand
      BY <1>1, <2>1, <2>3 DEF InHand
    <3>2. x # taskOpt[w]
      BY <2>1, <2>3, <3>1
    <3> QED
      BY <2>1, <3>1, <3>2
  <2> QED
    BY <2>2, <2>3
<1>3. ASSUME NEW x \in ((InHand \ {taskOpt[w]}) \cup {t}) \ {NoTask}
      PROVE  x \in InHand'
  <2>1. CASE x = t
    BY <1>1, <1>3, <2>1 DEF InHand
  <2>2. CASE x # t
    <3>1. PICK v \in Workers : x = taskOpt[v] /\ v # w
      BY <1>3, <2>2 DEF InHand
    <3> QED
      BY <1>1, <1>3, <3>1 DEF InHand
  <2> QED
    BY <2>1, <2>2
<1> QED
  BY <1>2, <1>3

(* A pool that was just made is an abstract pool that was just made.         *)
LEMMA AbstractInit == Init => Abstract!Init
  BY DEF Init, Abstract!Init, InHand, Phase

(* Every step of the pool is a step of TaskPool or leaves its variables      *)
(* alone.                                                                    *)
LEMMA AbstractStep ==
    ASSUME IInv, [Next]_vars
    PROVE  [Abstract!Next]_(Abstract!vars)
<1> USE DEF poolVars, workerVars, clientVars
<1>1. CASE UNCHANGED <<workQueue, taskOpt, future, owner>>
  BY <1>1 DEF Abstract!vars, InHand, Phase
<1>2. ASSUME NEW w \in Workers, Pop(w), workQueue # <<>>
      PROVE  Abstract!Start
  <2>1. taskOpt[w] = NoTask /\ taskOpt' = [taskOpt EXCEPT ![w] = Head(workQueue)]
    BY <1>2 DEF Pop, IInv, TaskPlaceInv
  <2>2. Head(workQueue) \in Tasks
    BY <1>2, TailElems DEF IInv, TypeOK
  <2>3. InHand' = ((InHand \ {NoTask}) \cup {Head(workQueue)}) \ {NoTask}
    BY <2>1, <2>2, InHandAfter DEF IInv
  <2>4. InHand' = InHand \cup {Head(workQueue)}
    BY <2>2, <2>3, NoTaskAssumption DEF InHand
  <2>5. Cardinality(InHand) < Cardinality(Workers)
    BY <2>1, WorkerToSpare DEF IInv
  <2>6. Phase # "closed" /\ Phase' = Phase
    BY <1>2 DEF Pop, Phase, IInv, OwnerInv
  <2>7. Abstract!Cardinality(InHand) = Cardinality(InHand)
    BY DEF Cardinality, Abstract!Cardinality
  <2> QED
    BY <1>2, <2>4, <2>5, <2>6, <2>7 DEF Pop, Abstract!Start
<1>3. ASSUME NEW w \in Workers, Run(w)
      PROVE  \E t \in Tasks, result \in {"value", "error"} : Abstract!Finish(t, result)
  <2>1. taskOpt[w] \in Tasks /\ taskOpt' = [taskOpt EXCEPT ![w] = NoTask]
    BY <1>3 DEF Run, IInv, TypeOK, TaskPlaceInv
  <2>2. InHand' = ((InHand \ {taskOpt[w]}) \cup {NoTask}) \ {NoTask}
    <3>1. \A v \in Workers : taskOpt[v] = taskOpt[w] /\ taskOpt[w] # NoTask => v = w
      BY DEF IInv, Conservation
    <3> QED
      BY <2>1, <3>1, InHandAfter DEF IInv
  <2>3. InHand' = InHand \ {taskOpt[w]} /\ taskOpt[w] \in InHand
    BY <2>1, <2>2, NoTaskAssumption DEF InHand
  <2>4. PICK result \in {"value", "error"} :
           future' = [future EXCEPT ![taskOpt[w]] = result]
    BY <1>3 DEF Run
  <2>5. UNCHANGED <<workQueue, Phase>>
    BY <1>3 DEF Run, Phase
  <2> QED
    BY <2>1, <2>3, <2>4, <2>5 DEF Abstract!Finish
<1>4. ASSUME NEW c \in Clients, NEW t \in Tasks, Push(c, t)
      PROVE  Abstract!Accept(t)
  <2>1. owner = "alive"
    BY <1>4 DEF Push, IInv, OwnerInv
  <2> QED
    BY <1>4, <2>1 DEF Push, Phase, InHand, Abstract!Accept
<1>5. CASE StoreStop
  BY <1>5 DEF StoreStop, Phase, InHand, Abstract!Close, Abstract!Next
<1>6. CASE NotifyAll
  BY <1>6 DEF NotifyAll, Phase, InHand, Abstract!vars
<1>7. CASE Join
  <2>1. \A w \in Workers : taskOpt[w] = NoTask
    BY <1>7 DEF Join, IInv, TaskPlaceInv
  <2>2. \A t \in Tasks : t \in Elems(workQueue) <=> future[t] = "pending"
    BY <2>1, NoTaskAssumption DEF IInv, Conservation
  <2>3. future' = [t \in Tasks |-> IF future[t] = "pending" THEN "broken" ELSE future[t]]
    BY <1>7, <2>2 DEF Join
  <2>4. InHand = {} /\ InHand' = {}
    BY <1>7, <2>1 DEF Join, InHand
  <2> QED
    BY <1>7, <2>3, <2>4 DEF Join, Phase, Abstract!Discard, Abstract!Next
<1> QED
  BY <1>1, <1>2, <1>3, <1>4, <1>5, <1>6, <1>7
  DEF Next, vars, WorkerStep, CheckRunning, Lock, CheckEmpty, Wait, SpuriousWake,
      Relock, Pop, Unlock, BeginGet, NotifyOne, Leave, EndGet, Abstract!Next

(* The pool is a TaskPool: tasks start in the order of their submission, at  *)
(* most one per worker at a time, and are given up only by the destructor,   *)
(* once nothing runs.                                                        *)
THEOREM RefinesTaskPool == Spec => ImplementsTaskPool
<1>1. IInv /\ [Next]_vars => [Abstract!Next]_(Abstract!vars)
  BY AbstractStep
<1> QED
  BY <1>1, AbstractInit, Invariance, PTL DEF Spec, ImplementsTaskPool, Abstract!Spec
=============================================================================
