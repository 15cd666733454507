---------------------------- MODULE IoUringProofs ----------------------------
(***************************************************************************)
(* io_uring: for any coroutines, any size of the ring and any number of    *)
(* calls, an operation that a coroutine waits for is in exactly one place, *)
(* so that no coroutine is resumed twice or after its end, as long as no   *)
(* two threads are in the queue at once; and they are not, if one          *)
(* coroutine runs at a time. Some of the invariant holds only until two    *)
(* threads meet in the queue, where the model stops.                       *)
(***************************************************************************)
EXTENDS IoUring, SequenceTheorems, FiniteSetTheorems, TLAPS

\* An operation in the queue, in the kernel and in the completion queue.
InQueue(o, n) == n \in Filled /\ sqes[Slot(n)].data = o
InKernel(o, i) == i \in DOMAIN inflight /\ inflight[i].data = o
InCompletions(o, i) == i \in DOMAIN cq \ Called /\ cq[i].data = o

Somewhere(o) ==
  (\E n \in Nat : InQueue(o, n)) \/ (\E i \in Nat : InKernel(o, i))
    \/ (\E i \in Nat : InCompletions(o, i))

NowhereTwice(o) ==
  \A i, j \in Nat :
    /\ InQueue(o, i) /\ InQueue(o, j) => i = j
    /\ InKernel(o, i) /\ InKernel(o, j) => i = j
    /\ InCompletions(o, i) /\ InCompletions(o, j) => i = j
    /\ ~(InQueue(o, i) /\ InKernel(o, j))
    /\ ~(InQueue(o, i) /\ InCompletions(o, j))
    /\ ~(InKernel(o, i) /\ InCompletions(o, j))

\* What waits is somewhere, what does not is nowhere, and nothing is in two places.
PlacesInv == \A o \in Ops : NowhereTwice(o) /\ (Somewhere(o) <=> Suspended(o))

\* Where the threads can be, and with what.
Entering == {"get", "prepare", "submit"}

ThreadTypes ==
  /\ pc \in [Threads -> {"idle", "none", "loop", "wait", "seen", "join", "ended"}
                          \cup Entering]
  /\ call \in {"none", "launch", "poll", "stop"}
  /\ task \in [Threads -> Tasks \cup {Nop}]
  /\ next \in [Threads -> Nat]

MainInv ==
  /\ pc["main"] \in {"idle", "wait", "seen", "join"} \cup Entering
  /\ (pc["main"] = "idle") <=> (call = "none")
  /\ call = "launch" => pc["main"] \in Entering /\ task["main"] # Nop
  /\ call = "poll" => /\ pc["main"] \in {"wait", "seen"} \cup Entering
                      /\ pc["main"] \in Entering => task["main"] # Nop
                      /\ pc["main"] = "wait" \/ pc["poll"] \notin Entering \cup {"seen"}
  /\ call = "stop" => pc["main"] \in {"join"} \cup Entering /\ task["main"] = Nop

PollInv ==
  /\ pc["poll"] \in {"none", "loop", "wait", "seen", "ended"} \cup Entering
  /\ pc["poll"] \in Entering => task["poll"] # Nop

\* A thread that executes a coroutine is on its way into the queue, and no two threads execute
\* the same one.
TaskInv ==
  /\ \A t \in Threads : task[t] # Nop => pc[t] \in Entering /\ Active(task[t])
  /\ task["main"] = task["poll"] => task["main"] = Nop

\* The completion that is handled is there, and its coroutine has gone on.
CalledInv ==
  Called # {} =>
    /\ cq # <<>>
    /\ \A o \in Ops : cq[1].data = o => pos[o[1]] = 0 \/ pos[o[1]] > o[2]

\* Before the ring has gone round, an entry that was not filled has no data.
RingInv ==
  sqTail <= Entries =>
    \A s \in 0 .. Entries - 1 :
      (s >= sqTail \/ \E t \in Threads : pc[t] = "prepare" /\ next[t] = s)
        => sqes[s].data = Null

\* One coroutine at a time, none during stop(); no polling thread before start().
SerialInv ==
  /\ serial => /\ \A c, d \in Tasks : Active(c) /\ Active(d) => c = d
               /\ call = "stop" => \A c \in Tasks : ~Active(c)
  /\ starts \in Nat
  /\ starts = 0 => pc["poll"] = "none"

\* Until two threads meet in the queue, the one in it has the last entry.
QueueInv ==
  /\ \A t \in Threads : pc[t] \in Submitting => next[t] = sqTail - 1 /\ sqHead < sqTail
  /\ ~(pc["main"] \in Submitting /\ pc["poll"] \in Submitting)
  /\ \A t \in Threads : pc[t] = "submit" /\ task[t] # Nop =>
       sqes[Slot(next[t])].data = Current(t)

\* CallbacksAlive for each operation: its callback exists while it waits, and is called.
Handled(o) == \E i \in Called : cq[i].data = o
HandlersInv == \A o \in Ops : (o \in callbacks) <=> (Suspended(o) \/ Handled(o))

IInv ==
  /\ TypeOK /\ ThreadTypes /\ MainInv /\ PollInv /\ TaskInv /\ CalledInv
  /\ RingInv /\ SerialInv
  /\ Bounded /\ SerialUseIsSafe /\ OneConsumer /\ StaleNeedsWraparound
  /\ Sane => QueueInv /\ PlacesInv /\ HandlersInv

------------------------------------------------------------------------------
(* The slots of the ring: no two of the entries that it can hold share one.  *)
LEMMA SlotRange == \A n \in Nat : Slot(n) \in 0 .. Entries - 1
BY EntriesAssumption DEF Slot

(* The first entries are in their own slots.                                 *)
LEMMA SlotSmall == \A n \in 0 .. Entries - 1 : Slot(n) = n
BY EntriesAssumption DEF Slot

(* Two entries less than one round apart have different slots.               *)
LEMMA SlotInjective ==
  ASSUME NEW m \in Nat, NEW n \in Nat, m < n, n < m + Entries
  PROVE  Slot(m) # Slot(n)
<1> DEFINE p == m \div Entries
           q == n \div Entries
<1>1. /\ p \in Int /\ q \in Int /\ Entries \in Nat /\ Entries > 0
      /\ m = Entries * p + Slot(m) /\ n = Entries * q + Slot(n)
  BY EntriesAssumption DEF Slot
<1>2. Slot(m) \in Int /\ Slot(n) \in Int
  BY SlotRange, EntriesAssumption
<1> HIDE DEF p, q
<1> SUFFICES ASSUME Slot(m) = Slot(n) PROVE FALSE
  OBVIOUS
<1>3. Entries * q - Entries * p = n - m
  BY <1>1, <1>2
<1>4. Entries * (q - p) = n - m
  BY <1>1, <1>3
<1>5. CASE q - p <= 0
  BY <1>1, <1>4, <1>5
<1>6. CASE q - p >= 1
  <2>1. Entries * (q - p) >= Entries * 1
    BY <1>1, <1>6
  <2> QED
    BY <1>1, <1>4, <2>1
<1> QED
  BY <1>1, <1>5, <1>6

(* An operation is a coroutine and a position in its program.                *)
LEMMA OpsAre ==
  /\ \A o \in Ops : /\ o = <<o[1], o[2]>> /\ o[1] \in Tasks
                    /\ o[2] \in 1 .. Len(Program[o[1]]) /\ o # Null
  /\ \A c \in Tasks : \A p \in 1 .. Len(Program[c]) : <<c, p>> \in Ops
<1>1. \A c \in Tasks : DOMAIN Program[c] = 1 .. Len(Program[c])
  BY ProgramAssumption, LenProperties
<1> QED
  BY <1>1 DEF Ops, Null

(* The position that follows another is later, or the end.                   *)
LEMMA GoesForward ==
  ASSUME NEW c \in Tasks, NEW p \in 1 .. Len(Program[c])
  PROVE  /\ {Program[c][p].ok, Program[c][p].err} \subseteq {0} \cup (1 .. Len(Program[c]))
         /\ Program[c][p].ok = 0 \/ Program[c][p].ok > p
         /\ Program[c][p].err = 0 \/ Program[c][p].err > p
<1>1. DOMAIN Program[c] = 1 .. Len(Program[c]) /\ Len(Program[c]) \in Nat
  BY ProgramAssumption, LenProperties
<1>2. {Program[c][p].ok, Program[c][p].err} \subseteq {0} \cup (p + 1 .. Len(Program[c]))
  BY <1>1, ProgramAssumption
<1> QED
  BY <1>1, <1>2

(* What RemoveAt leaves of a sequence.                                       *)
LEMMA RemoveAtIs ==
  ASSUME NEW S, NEW s \in Seq(S), NEW i \in 1 .. Len(s)
  PROVE  /\ RemoveAt(s, i) \in Seq(S) /\ Len(RemoveAt(s, i)) = Len(s) - 1
         /\ \A j \in 1 .. Len(s) - 1 : RemoveAt(s, i)[j] = IF j < i THEN s[j] ELSE s[j + 1]
<1> DEFINE a == SubSeq(s, 1, i - 1)
           b == SubSeq(s, i + 1, Len(s))
<1>1. Len(s) \in Nat /\ i \in Int /\ \A j \in 1 .. Len(s) : s[j] \in S
  BY LenProperties, ElementOfSeq
<1>2. /\ a \in Seq(S) /\ Len(a) = i - 1 /\ \A j \in 1 .. i - 1 : a[j] = s[j]
  <2>1. \A j \in 1 .. i - 1 : s[j] \in S
    BY <1>1
  <2>2. /\ a \in Seq(S) /\ Len(a) = IF 1 <= i - 1 THEN i - 1 - 1 + 1 ELSE 0
        /\ \A j \in 1 .. i - 1 - 1 + 1 : a[j] = s[1 + j - 1]
    BY <1>1, <2>1, SubSeqProperties
  <2> HIDE DEF a
  <2> QED
    BY <1>1, <2>2
<1>3. /\ b \in Seq(S) /\ Len(b) = Len(s) - i /\ \A j \in 1 .. Len(s) - i : b[j] = s[i + j]
  <2>1. \A j \in i + 1 .. Len(s) : s[j] \in S
    BY <1>1
  <2>2. /\ b \in Seq(S)
        /\ Len(b) = IF i + 1 <= Len(s) THEN Len(s) - (i + 1) + 1 ELSE 0
        /\ \A j \in 1 .. Len(s) - (i + 1) + 1 : b[j] = s[i + 1 + j - 1]
    BY <1>1, <2>1, SubSeqProperties
  <2> HIDE DEF b
  <2> QED
    BY <1>1, <2>2
<1>4. RemoveAt(s, i) = a \o b
  BY DEF RemoveAt
<1> HIDE DEF a, b
<1>5. /\ a \o b \in Seq(S) /\ Len(a \o b) = Len(a) + Len(b)
      /\ \A j \in 1 .. Len(a) + Len(b) : (a \o b)[j] = IF j <= Len(a) THEN a[j] ELSE b[j - Len(a)]
  BY <1>2, <1>3, ConcatProperties
<1> QED
  BY <1>1, <1>2, <1>3, <1>4, <1>5
------------------------------------------------------------------------------
(* The initial states: nothing anywhere.                                     *)
LEMMA IInvInit == Init => IInv
<1> SUFFICES ASSUME Init PROVE IInv
  OBVIOUS
<1>1. /\ sqHead = 0 /\ sqTail = 0 /\ inflight = <<>> /\ cq = <<>> /\ running = FALSE
      /\ looping = FALSE /\ call = "none" /\ callbacks = {} /\ clears \in BOOLEAN /\ starts = 0
      /\ raced = FALSE /\ stale = FALSE /\ twice = FALSE
      /\ pc["main"] = "idle" /\ pc["poll"] = "none"
      /\ \A t \in Threads : task[t] = Nop /\ pc[t] \notin Entering /\ pc[t] # "seen"
      /\ \A c \in Tasks : pos[c] = Fresh
      /\ \A s \in 0 .. Entries - 1 : sqes[s].data = Null
  BY DEF Init, Threads, Entering
<1>2. TypeOK
  <2>1. /\ inflight \in Seq([req : Ops \cup {Null}, data : Ops \cup {Null}])
        /\ cq \in Seq([data : Ops \cup {Null}, res : {"ok", "err"}])
    BY <1>1, EmptySeq
  <2>2. sqes \in [0 .. Entries - 1 -> [req : Ops \cup {Null}, data : Ops \cup {Null}]]
    BY DEF Init
  <2>3. DOMAIN pos = Tasks /\ \A c \in Tasks : pos[c] \in {Fresh, 0} \cup DOMAIN Program[c]
    BY <1>1 DEF Init
  <2> QED
    BY <1>1, <2>1, <2>2, <2>3 DEF TypeOK
<1>3. ThreadTypes
  BY DEF Init, ThreadTypes, Threads
<1>4. MainInv /\ PollInv /\ TaskInv
  BY <1>1 DEF MainInv, PollInv, TaskInv, Entering, Threads
<1>5. Called = {}
  BY <1>1 DEF Called
<1>6. CalledInv /\ RingInv /\ SerialInv
  BY <1>1, <1>5 DEF CalledInv, RingInv, SerialInv, Active
<1>7. Bounded /\ SerialUseIsSafe /\ OneConsumer /\ StaleNeedsWraparound
  BY <1>1, EntriesAssumption DEF Bounded, SerialUseIsSafe, OneConsumer, StaleNeedsWraparound
<1>8. QueueInv
  BY <1>1 DEF QueueInv, Submitting, Entering, Threads
<1>9. \A o \in Ops : ~Suspended(o)
  BY <1>1, OpsAre, ProgramAssumption, LenProperties DEF Suspended, Fresh
<1>10. \A o \in Ops, i \in Nat : ~InQueue(o, i) /\ ~InKernel(o, i) /\ ~InCompletions(o, i)
  <2>1. Filled = {} /\ DOMAIN inflight = {} /\ DOMAIN cq = {}
    BY <1>1 DEF Filled
  <2> QED
    BY <2>1 DEF InQueue, InKernel, InCompletions
<1>11. PlacesInv
  BY <1>9, <1>10 DEF PlacesInv, NowhereTwice, Somewhere
<1>12. HandlersInv
  BY <1>1, <1>5, <1>9 DEF HandlersInv, Handled
<1> QED
  BY <1>2, <1>3, <1>4, <1>6, <1>7, <1>8, <1>11, <1>12 DEF IInv

------------------------------------------------------------------------------
(* Where a thread goes on from the queue, and what a coroutine does next.    *)
LEMMA ReturnIs ==
  ASSUME ThreadTypes, MainInv, NEW t \in Threads,
         pc[t] \in Entering \cup {"wait"}, Return(t)
  PROVE  /\ pc' \in [Threads -> {"idle", "none", "loop", "wait", "seen", "join", "ended"}
                                  \cup Entering]
         /\ task' \in [Threads -> Tasks \cup {Nop}]
         /\ \A u \in Threads : u # t => pc'[u] = pc[u] /\ task'[u] = task[u]
         /\ task'[t] = Nop
         /\ t = "poll" => pc'[t] = "seen" /\ call' = call
         /\ t = "main" => \/ call = "launch" /\ pc'[t] = "idle" /\ call' = "none"
                          \/ call = "poll" /\ pc'[t] = "seen" /\ call' = call
                          \/ call = "stop" /\ pc'[t] = "join" /\ call' = call
<1>1. t = "main" => call \in {"launch", "poll", "stop"}
  BY DEF MainInv, ThreadTypes, Entering
<1> QED
  BY <1>1 DEF Return, ThreadTypes, Threads

(* A coroutine that goes on returns from its thread's call or takes an entry *)
(* for a later operation.                                                    *)
LEMMA GoOnIs ==
  ASSUME TypeOK, ThreadTypes, MainInv, NEW t \in Threads, NEW c \in Tasks, NEW res,
         pc[t] \in Entering \cup {"wait"}, Active(c), GoOn(t, c, res)
  PROVE  \E to \in {0} \cup DOMAIN Program[c] :
           /\ to = 0 \/ to > pos[c]
           /\ pos' = [pos EXCEPT ![c] = to]
           /\ \/ to = 0 /\ Return(t)
              \/ /\ to # 0
                 /\ pc' = [pc EXCEPT ![t] = "get"] /\ task' = [task EXCEPT ![t] = c]
                 /\ call' = call
<1>1. DOMAIN Program[c] = 1 .. Len(Program[c]) /\ pos[c] \in 1 .. Len(Program[c])
  BY ProgramAssumption, LenProperties DEF TypeOK, Active
<1> DEFINE to == IF res = "ok" THEN Program[c][pos[c]].ok ELSE Program[c][pos[c]].err
<1>2. /\ to \in {0} \cup DOMAIN Program[c]
      /\ to = 0 \/ to > pos[c]
  BY <1>1, GoesForward
<1>3. /\ pos' = [pos EXCEPT ![c] = to]
      /\ \/ to = 0 /\ Return(t)
         \/ /\ to # 0
            /\ pc' = [pc EXCEPT ![t] = "get"] /\ task' = [task EXCEPT ![t] = c]
            /\ call' = call
  BY DEF GoOn
<1> HIDE DEF to
<1> QED
  BY <1>2, <1>3

(* The threads after a coroutine has gone on, which no other thread holds.   *)
LEMMA GoOnThreads ==
  ASSUME TypeOK, ThreadTypes, MainInv, PollInv, TaskInv,
         NEW t \in Threads, NEW c \in Tasks, NEW res, Active(c), GoOn(t, c, res),
         (pc[t] = "wait" /\ Called = {}) \/ (pc[t] = "get" /\ task[t] = c),
         \A u \in Threads \ {t} : task[u] # c, UNCHANGED next
  PROVE  /\ ThreadTypes' /\ MainInv' /\ PollInv' /\ TaskInv'
         /\ DOMAIN pos' = Tasks /\ \A d \in Tasks : pos'[d] \in {Fresh, 0} \cup DOMAIN Program[d]
<1>1. PICK to \in {0} \cup DOMAIN Program[c] :
           /\ to = 0 \/ to > pos[c]
           /\ pos' = [pos EXCEPT ![c] = to]
           /\ \/ to = 0 /\ Return(t)
              \/ /\ to # 0
                 /\ pc' = [pc EXCEPT ![t] = "get"] /\ task' = [task EXCEPT ![t] = c]
                 /\ call' = call
  BY GoOnIs DEF Entering
<1>2. /\ DOMAIN pos' = Tasks /\ \A d \in Tasks : pos'[d] \in {Fresh, 0} \cup DOMAIN Program[d]
  BY <1>1 DEF TypeOK
<1>3. \A d \in Tasks : pos'[d] = IF d = c THEN to ELSE pos[d]
  BY <1>1 DEF TypeOK
<1>4. t = "main" => call \in {"launch", "poll"}
  BY NopAssumption DEF MainInv, ThreadTypes, Entering
<1>5. CASE to = 0
  <2>1. Return(t)
    BY <1>1, <1>5
  <2>2. /\ pc' \in [Threads -> {"idle", "none", "loop", "wait", "seen", "join", "ended"}
                                 \cup Entering]
        /\ task' \in [Threads -> Tasks \cup {Nop}]
        /\ \A u \in Threads : u # t => pc'[u] = pc[u] /\ task'[u] = task[u]
        /\ task'[t] = Nop
        /\ t = "poll" => pc'[t] = "seen" /\ call' = call
        /\ t = "main" => \/ call = "launch" /\ pc'[t] = "idle" /\ call' = "none"
                         \/ call = "poll" /\ pc'[t] = "seen" /\ call' = call
    <3>1. pc[t] \in Entering \cup {"wait"}
      BY DEF Entering
    <3> QED
      BY <2>1, <3>1, <1>4, ReturnIs
  <2>3. ThreadTypes' /\ MainInv' /\ PollInv'
    BY <2>2 DEF ThreadTypes, MainInv, PollInv, Threads, Entering, Called
  <2>4. TaskInv'
    BY <2>2, <1>3, <1>5 DEF TaskInv, Active, Threads, ThreadTypes
  <2> QED
    BY <1>2, <2>3, <2>4
<1>6. CASE to # 0
  <2>1. /\ pc' = [pc EXCEPT ![t] = "get"] /\ task' = [task EXCEPT ![t] = c]
        /\ call' = call
    BY <1>1, <1>6
  <2>2. ThreadTypes'
    BY <2>1 DEF ThreadTypes, Entering
  <2>3. \A u \in Threads : /\ pc'[u] = IF u = t THEN "get" ELSE pc[u]
                           /\ task'[u] = IF u = t THEN c ELSE task[u]
    BY <2>1 DEF ThreadTypes
  <2>4. MainInv' /\ PollInv'
    BY <2>1, <2>3, <1>4, NopAssumption DEF MainInv, PollInv, Threads, Entering, Called
  <2>5. to # Fresh
    BY <1>1, ProgramAssumption, LenProperties DEF Fresh
  <2>6. TaskInv'
    BY <2>3, <2>5, <1>3, <1>6, NopAssumption DEF TaskInv, Active, Threads, Entering, ThreadTypes
  <2> QED
    BY <1>2, <2>2, <2>4, <2>6
<1> QED
  BY <1>5, <1>6

(* A coroutine with a completion is held by no thread: it waits.             *)
LEMMA Resumable ==
  ASSUME TypeOK, ThreadTypes, TaskInv, QueueInv, PlacesInv, NEW o \in Ops, InCompletions(o, 1)
  PROVE  /\ pos[o[1]] = o[2] /\ Active(o[1]) /\ o[1] \in Tasks
         /\ \A t \in Threads : task[t] # o[1]
<1>1. Suspended(o)
  BY DEF PlacesInv, Somewhere
<1>2. o[1] \in Tasks /\ pos[o[1]] = o[2] /\ o[2] \in Nat \ {0} /\ o = <<o[1], o[2]>>
  BY <1>1, OpsAre, ProgramAssumption, LenProperties DEF Suspended
<1>3. ASSUME NEW t \in Threads, task[t] = o[1], pc[t] = "submit"
      PROVE  FALSE
  <2>1. next[t] = sqTail - 1 /\ sqHead < sqTail /\ sqTail \in Nat /\ sqHead \in Nat
    BY <1>3 DEF QueueInv, Submitting, TypeOK
  <2>2. \A u \in Threads : pc[u] # "prepare"
    BY <1>3 DEF QueueInv, Submitting, Threads
  <2>3. next[t] \in Filled
    BY <2>1, <2>2 DEF Filled
  <2>4. sqes[Slot(next[t])].data = o
    BY <1>2, <1>3, NopAssumption DEF QueueInv, Current
  <2>5. InQueue(o, next[t]) /\ next[t] \in Nat
    BY <2>1, <2>3, <2>4 DEF InQueue
  <2> QED
    BY <2>5 DEF PlacesInv, NowhereTwice
<1>4. Active(o[1])
  BY <1>2 DEF Active, Fresh
<1>5. \A t \in Threads : task[t] # o[1]
  BY <1>1, <1>2, <1>3, NopAssumption DEF TaskInv, Suspended, Entering
<1> QED
  BY <1>2, <1>4, <1>5

(* A thread that has called back handles the first completion.               *)
LEMMA WhoHandles ==
  ASSUME ThreadTypes, MainInv, PollInv, NEW t \in Threads
  PROVE  pc[t] = "seen" => Called = {1}
<1>1. CASE t = "main"
  BY <1>1 DEF ThreadTypes, MainInv, Called, Entering
<1>2. CASE t = "poll"
  BY <1>2 DEF MainInv, PollInv, Called, Entering
<1> QED
  BY <1>1, <1>2 DEF Threads

(* The first completion, if it has data, is that of a coroutine that waits.  *)
LEMMA FirstCompletion ==
  ASSUME TypeOK, cq # <<>>
  PROVE  /\ Head(cq) = cq[1] /\ 1 \in DOMAIN cq /\ Len(cq) \in Nat \ {0}
         /\ DOMAIN cq = 1 .. Len(cq)
         /\ Head(cq).data \in Ops \cup {Null} /\ Head(cq).res \in {"ok", "err"}
<1>1. cq \in Seq([data : Ops \cup {Null}, res : {"ok", "err"}])
  BY DEF TypeOK
<1>2. /\ Len(cq) \in Nat \ {0} /\ DOMAIN cq = 1 .. Len(cq)
      /\ Head(cq) \in [data : Ops \cup {Null}, res : {"ok", "err"}]
  BY <1>1, EmptySeq, LenProperties, HeadTailProperties
<1>3. Head(cq) = cq[1]
  BY <1>1, <1>2
<1> QED
  BY <1>2, <1>3

(* A completion that is called back is of a suspended operation, which no    *)
(* thread is running.                                                        *)
LEMMA CallBackResumes ==
  ASSUME TypeOK, ThreadTypes, MainInv, PollInv, TaskInv, QueueInv, PlacesInv,
         NEW t \in Threads, CallBack(t)
  PROVE  LET o == Head(cq).data IN
         /\ o \in Ops /\ InCompletions(o, 1) /\ Called = {}
         /\ pos[o[1]] = o[2] /\ Active(o[1]) /\ o[1] \in Tasks
         /\ \A u \in Threads : task[u] # o[1]
<1> DEFINE o == Head(cq).data
<1>1. pc[t] = "wait" /\ cq # <<>> /\ o # Null /\ Called = {}
  BY DEF CallBack
<1>2. o \in Ops /\ 1 \in DOMAIN cq /\ cq[1].data = o
  BY <1>1, FirstCompletion
<1>3. InCompletions(o, 1)
  BY <1>1, <1>2 DEF InCompletions
<1> HIDE DEF o
<1>4. /\ pos[o[1]] = o[2] /\ Active(o[1]) /\ o[1] \in Tasks
      /\ \A u \in Threads : task[u] # o[1]
  BY <1>2, <1>3, Resumable
<1> QED
  BY <1>1, <1>2, <1>3, <1>4 DEF o

-----------------------------------------------------------------------------
(* Every step leaves the threads where they can be, and the types alone.     *)
LEMMA ControlStep ==
  ASSUME IInv, Sane, Work
  PROVE  /\ ThreadTypes' /\ MainInv' /\ PollInv' /\ TaskInv'
         /\ DOMAIN pos' = Tasks /\ \A d \in Tasks : pos'[d] \in {Fresh, 0} \cup DOMAIN Program[d]
<1> DEFINE Goal == /\ ThreadTypes' /\ MainInv' /\ PollInv' /\ TaskInv'
                   /\ DOMAIN pos' = Tasks
                   /\ \A d \in Tasks : pos'[d] \in {Fresh, 0} \cup DOMAIN Program[d]
<1> USE DEF Threads, Entering, sq, coroutines, bounds, past
<1>0. /\ TypeOK /\ ThreadTypes /\ MainInv /\ PollInv /\ TaskInv /\ QueueInv /\ PlacesInv
      /\ sqTail \in Nat
      /\ DOMAIN pos = Tasks /\ \A d \in Tasks : pos[d] \in {Fresh, 0} \cup DOMAIN Program[d]
  BY DEF IInv, TypeOK
<1>1. ASSUME NEW t \in Threads, GetSqe(t) PROVE Goal
  <2>1. ThreadTypes'
    BY <1>0, <1>1 DEF GetSqe, ThreadTypes
  <2>2. MainInv' /\ PollInv' /\ TaskInv'
    BY <1>0, <1>1 DEF GetSqe, ThreadTypes, MainInv, PollInv, TaskInv, Active
  <2> QED
    BY <1>0, <1>1, <2>1, <2>2 DEF GetSqe
<1>2. ASSUME NEW t \in Threads, QueueFull(t) PROVE Goal
  <2>1. task[t] \in Tasks /\ Active(task[t]) /\ pc[t] = "get" /\ GoOn(t, task[t], "EAGAIN")
    BY <1>0, <1>2 DEF QueueFull, ThreadTypes, TaskInv
  <2>2. \A u \in Threads \ {t} : task[u] # task[t]
    BY <1>0, <1>2 DEF QueueFull, TaskInv
  <2> QED
    BY <1>0, <1>2, <2>1, <2>2, GoOnThreads DEF QueueFull
<1>3. ASSUME NEW t \in Threads, Prepare(t) PROVE Goal
  <2>1. ThreadTypes'
    BY <1>0, <1>3 DEF Prepare, ThreadTypes
  <2>2. MainInv' /\ PollInv' /\ TaskInv'
    BY <1>0, <1>3 DEF Prepare, ThreadTypes, MainInv, PollInv, TaskInv, Active
  <2> QED
    BY <1>0, <1>3, <2>1, <2>2 DEF Prepare
<1>4. ASSUME NEW t \in Threads, Submit(t) PROVE Goal
  <2>0. pc[t] = "submit" /\ Return(t) /\ next' = [next EXCEPT ![t] = 0] /\ pos' = pos
    BY <1>4 DEF Submit
  <2>1. /\ pc' \in [Threads -> {"idle", "none", "loop", "wait", "seen", "join", "ended"}
                                 \cup Entering]
        /\ task' \in [Threads -> Tasks \cup {Nop}]
        /\ \A u \in Threads : u # t => pc'[u] = pc[u] /\ task'[u] = task[u]
        /\ task'[t] = Nop
        /\ t = "poll" => pc'[t] = "seen" /\ call' = call
        /\ t = "main" => \/ call = "launch" /\ pc'[t] = "idle" /\ call' = "none"
                         \/ call = "poll" /\ pc'[t] = "seen" /\ call' = call
                         \/ call = "stop" /\ pc'[t] = "join" /\ call' = call
    BY <1>0, <1>4, <2>0, ReturnIs
  <2>2. ThreadTypes'
    BY <1>0, <2>0, <2>1 DEF ThreadTypes
  <2>3. MainInv' /\ PollInv' /\ TaskInv'
    BY <1>0, <2>0, <2>1 DEF ThreadTypes, MainInv, PollInv, TaskInv, Active
  <2> QED
    BY <1>0, <2>0, <2>2, <2>3
<1>5. ASSUME NEW t \in Threads, CallBack(t) PROVE Goal
  <2>1. /\ Head(cq).data[1] \in Tasks /\ Active(Head(cq).data[1])
        /\ \A u \in Threads : task[u] # Head(cq).data[1]
    BY <1>0, <1>5, CallBackResumes
  <2>2. /\ pc[t] = "wait" /\ Called = {}
        /\ GoOn(t, Head(cq).data[1], Head(cq).res) /\ UNCHANGED next
    BY <1>5 DEF CallBack
  <2> QED
    BY <1>0, <1>5, <2>1, <2>2, GoOnThreads
<1>6. ASSUME NEW t \in Threads, NoCallback(t) PROVE Goal
  <2>1. ThreadTypes'
    BY <1>0, <1>6 DEF NoCallback, ThreadTypes
  <2>2. MainInv' /\ PollInv' /\ TaskInv'
    BY <1>0, <1>6 DEF NoCallback, ThreadTypes, MainInv, PollInv, TaskInv, Active, Called
  <2> QED
    BY <1>0, <1>6, <2>1, <2>2 DEF NoCallback
<1>7. ASSUME NEW t \in Threads, Seen(t) PROVE Goal
  <2>1. ThreadTypes'
    BY <1>0, <1>7 DEF Seen, ThreadTypes
  <2>2. MainInv' /\ PollInv' /\ TaskInv'
    BY <1>0, <1>7 DEF Seen, ThreadTypes, MainInv, PollInv, TaskInv, Active
  <2> QED
    BY <1>0, <1>7, <2>1, <2>2 DEF Seen
<1>8. ASSUME PrepareNop PROVE Goal
  <2>1. ThreadTypes'
    BY <1>0, <1>8 DEF PrepareNop, ThreadTypes
  <2>2. MainInv' /\ PollInv' /\ TaskInv'
    BY <1>0, <1>8 DEF PrepareNop, ThreadTypes, MainInv, PollInv, TaskInv, Active
  <2> QED
    BY <1>0, <1>8, <2>1, <2>2 DEF PrepareNop
<1>9. ASSUME NoNop PROVE Goal
  <2>1. ThreadTypes'
    BY <1>0, <1>9 DEF NoNop, ThreadTypes
  <2>2. MainInv' /\ PollInv' /\ TaskInv'
    BY <1>0, <1>9 DEF NoNop, ThreadTypes, MainInv, PollInv, TaskInv, Active
  <2> QED
    BY <1>0, <1>9, <2>1, <2>2 DEF NoNop
<1>10. ASSUME Join PROVE Goal
  <2>1. ThreadTypes'
    BY <1>0, <1>10 DEF Join, ThreadTypes
  <2>2. MainInv' /\ PollInv' /\ TaskInv'
    BY <1>0, <1>10 DEF Join, ThreadTypes, MainInv, PollInv, TaskInv, Active
  <2> QED
    BY <1>0, <1>10, <2>1, <2>2 DEF Join
<1>11. ASSUME Complete PROVE Goal
  <2>1. ThreadTypes'
    BY <1>0, <1>11 DEF Complete, ThreadTypes
  <2>2. MainInv' /\ PollInv' /\ TaskInv'
    BY <1>0, <1>11 DEF Complete, ThreadTypes, MainInv, PollInv, TaskInv, Active
  <2> QED
    BY <1>0, <1>11, <2>1, <2>2 DEF Complete
<1>12. ASSUME Loop PROVE Goal
  <2>1. ThreadTypes'
    BY <1>0, <1>12 DEF Loop, ThreadTypes
  <2>2. MainInv' /\ PollInv' /\ TaskInv'
    BY <1>0, <1>12 DEF Loop, ThreadTypes, MainInv, PollInv, TaskInv, Active
  <2> QED
    BY <1>0, <1>12, <2>1, <2>2 DEF Loop
<1>13. ASSUME WaitFails PROVE Goal
  <2>1. ThreadTypes'
    BY <1>0, <1>13 DEF WaitFails, ThreadTypes
  <2>2. MainInv' /\ PollInv' /\ TaskInv'
    BY <1>0, <1>13 DEF WaitFails, ThreadTypes, MainInv, PollInv, TaskInv, Active
  <2> QED
    BY <1>0, <1>13, <2>1, <2>2 DEF WaitFails
<1>14. ASSUME Start PROVE Goal
  <2>1. ThreadTypes'
    BY <1>0, <1>14 DEF Start, ThreadTypes
  <2>2. MainInv' /\ PollInv' /\ TaskInv'
    BY <1>0, <1>14 DEF Start, ThreadTypes, MainInv, PollInv, TaskInv, Active
  <2> QED
    BY <1>0, <1>14, <2>1, <2>2 DEF Start
<1>15. ASSUME Stop PROVE Goal
  <2>1. ThreadTypes'
    BY <1>0, <1>15 DEF Stop, ThreadTypes
  <2>2. MainInv' /\ PollInv' /\ TaskInv'
    BY <1>0, <1>15 DEF Stop, ThreadTypes, MainInv, PollInv, TaskInv, Active
  <2> QED
    BY <1>0, <1>15, <2>1, <2>2 DEF Stop
<1>16. ASSUME PollCompletions PROVE Goal
  <2>1. ThreadTypes'
    BY <1>0, <1>16 DEF PollCompletions, ThreadTypes
  <2>2. MainInv' /\ PollInv' /\ TaskInv'
    BY <1>0, <1>16 DEF PollCompletions, ThreadTypes, MainInv, PollInv, TaskInv, Active
  <2> QED
    BY <1>0, <1>16, <2>1, <2>2 DEF PollCompletions
<1>17. ASSUME Peeked PROVE Goal
  <2>1. ThreadTypes'
    BY <1>0, <1>17 DEF Peeked, ThreadTypes
  <2>2. MainInv' /\ PollInv' /\ TaskInv'
    BY <1>0, <1>17 DEF Peeked, ThreadTypes, MainInv, PollInv, TaskInv, Active
  <2> QED
    BY <1>0, <1>17, <2>1, <2>2 DEF Peeked
<1>18. ASSUME NEW c \in Tasks, Launch(c) PROVE Goal
  <2>1. ThreadTypes'
    BY <1>0, <1>18 DEF Launch, ThreadTypes
  <2>2. DOMAIN Program[c] = 1 .. Len(Program[c]) /\ 1 \in DOMAIN Program[c]
    BY ProgramAssumption, EmptySeq, LenProperties
  <2>3. /\ pc["main"] = "idle" /\ pos[c] = Fresh /\ pos' = [pos EXCEPT ![c] = 1]
        /\ \A u \in Threads : pc'[u] = IF u = "main" THEN "get" ELSE pc[u]
        /\ \A u \in Threads : task'[u] = IF u = "main" THEN c ELSE task[u]
        /\ call' = "launch"
    BY <1>0, <1>18 DEF Launch, ThreadTypes
  <2>4. DOMAIN pos' = Tasks /\ \A d \in Tasks : pos'[d] = IF d = c THEN 1 ELSE pos[d]
    BY <1>0, <2>3
  <2>5. MainInv' /\ PollInv'
    BY <1>0, <2>3, NopAssumption DEF MainInv, PollInv
  <2>6. TaskInv'
    BY <1>0, <2>3, <2>4, NopAssumption DEF TaskInv, Active, Fresh, ThreadTypes
  <2> QED
    BY <1>0, <2>1, <2>2, <2>4, <2>5, <2>6
<1> HIDE DEF Goal, Threads
<1>19. Goal
  BY <1>1, <1>2, <1>3, <1>4, <1>5, <1>6, <1>7, <1>8, <1>9, <1>10, <1>11, <1>12, <1>13, <1>14,
     <1>15, <1>16, <1>17, <1>18, Zenon DEF Work
<1> QED
  BY <1>19 DEF Goal

-----------------------------------------------------------------------------
(* Every step keeps the types of the rings, and no more is in the queue than *)
(* it holds.                                                                 *)
LEMMA RingStep ==
  ASSUME IInv, Sane, Work
  PROVE  TypeOK' /\ Bounded'
<1> DEFINE Entry == [req : Ops \cup {Null}, data : Ops \cup {Null}]
           Completion == [data : Ops \cup {Null}, res : {"ok", "err"}]
           Goal == /\ sqes' \in [0 .. Entries - 1 -> Entry]
                   /\ sqHead' \in Nat /\ sqTail' \in Nat
                   /\ inflight' \in Seq(Entry) /\ cq' \in Seq(Completion)
                   /\ running' \in BOOLEAN /\ looping' \in BOOLEAN /\ clears' \in BOOLEAN
                   /\ callbacks' \subseteq Ops
                   /\ Bounded'
<1> USE DEF sq, coroutines, bounds, past
<1>0. /\ sqes \in [0 .. Entries - 1 -> Entry] /\ sqHead \in Nat /\ sqTail \in Nat
      /\ inflight \in Seq(Entry) /\ cq \in Seq(Completion)
      /\ running \in BOOLEAN /\ looping \in BOOLEAN /\ clears \in BOOLEAN
      /\ callbacks \subseteq Ops
      /\ Bounded
  BY DEF IInv, TypeOK
<1>01. \A t \in Threads : /\ task[t] # Nop => Current(t) \in Ops
                          /\ Slot(next[t]) \in 0 .. Entries - 1
  <2> TAKE t \in Threads
  <2>1. ASSUME task[t] # Nop PROVE Current(t) \in Ops
    <3>1. task[t] \in Tasks /\ Active(task[t])
      BY <2>1 DEF IInv, ThreadTypes, TaskInv
    <3>2. pos[task[t]] \in 1 .. Len(Program[task[t]])
      BY <3>1, ProgramAssumption, LenProperties DEF IInv, TypeOK, Active
    <3> QED
      BY <3>1, <3>2, OpsAre DEF Current
  <2>2. Slot(next[t]) \in 0 .. Entries - 1
    BY SlotRange DEF IInv, ThreadTypes
  <2> QED
    BY <2>1, <2>2
<1>02. ASSUME UNCHANGED <<sq, inflight, cq, running, looping, clears, callbacks>> PROVE Goal
  BY <1>0, <1>02 DEF Bounded
<1>1. ASSUME NEW t \in Threads, GetSqe(t) PROVE Goal
  <2> HIDE DEF Entry, Completion
  <2>1. sqTail' = sqTail + 1 /\ sqHead' = sqHead /\ sqTail - sqHead < Entries
    BY <1>1 DEF GetSqe, Room
  <2>2. sqTail' \in Nat /\ Bounded'
    BY <1>0, <2>1, EntriesAssumption DEF Bounded
  <2> QED
    BY <1>0, <1>1, <2>2 DEF GetSqe
<1>2. ASSUME NEW t \in Threads, QueueFull(t) PROVE Goal
  BY <1>02, <1>2 DEF QueueFull
<1>3. ASSUME NEW t \in Threads, Prepare(t) PROVE Goal
  <2>1. [req |-> Current(t), data |-> Current(t)] \in Entry /\ Current(t) \in Ops
    BY <1>01, <1>3 DEF Prepare
  <2> HIDE DEF Entry, Completion
  <2> QED
    BY <1>0, <1>01, <1>3, <2>1 DEF Prepare, Bounded
<1>4. ASSUME NEW t \in Threads, Submit(t) PROVE Goal
  <2>1. PICK n \in sqHead .. sqTail :
          /\ inflight' = inflight \o [i \in 1 .. n - sqHead |-> sqes[Slot(sqHead + i - 1)]]
          /\ sqHead' = n
    BY <1>4 DEF Submit
  <2>2. [i \in 1 .. n - sqHead |-> sqes[Slot(sqHead + i - 1)]] \in Seq(Entry)
    <3>1. \A i \in 1 .. n - sqHead : sqes[Slot(sqHead + i - 1)] \in Entry
      BY <1>0, SlotRange, SMTT(30)
    <3>2. n - sqHead \in Nat
      BY <1>0
    <3> HIDE DEF Entry
    <3> QED
      BY <3>1, <3>2, IsASeq
  <2>3. inflight' \in Seq(Entry)
    <3> HIDE DEF Entry
    <3> QED
      BY <1>0, <2>1, <2>2, ConcatProperties
  <2>4. sqHead' \in Nat /\ sqTail' = sqTail /\ Bounded'
    <3>1. sqTail' = sqTail /\ sqHead' = n
      BY <1>4, <2>1, Zenon DEF Submit
    <3>2. sqTail \in Nat /\ sqHead \in Nat /\ sqTail - sqHead \in 0 .. Entries
      BY <1>0 DEF Bounded
    <3> QED
      BY <3>1, <3>2, EntriesAssumption DEF Bounded
  <2> HIDE DEF Entry, Completion
  <2> QED
    BY <1>0, <1>4, <2>3, <2>4 DEF Submit
<1>5. ASSUME NEW t \in Threads, CallBack(t) PROVE Goal
  BY <1>02, <1>5 DEF CallBack
<1>6. ASSUME NEW t \in Threads, NoCallback(t) PROVE Goal
  BY <1>02, <1>6 DEF NoCallback
<1>7. ASSUME NEW t \in Threads, Seen(t) PROVE Goal
  <2>1. cq # <<>>
    <3>1. Called = {1}
      BY <1>7, WhoHandles DEF Seen, IInv
    <3> QED
      BY <3>1 DEF IInv, CalledInv
  <2> HIDE DEF Entry, Completion
  <2>2. cq' \in Seq(Completion)
    BY <1>0, <1>7, <2>1, HeadTailProperties DEF Seen
  <2> QED
    BY <1>0, <1>7, <2>2 DEF Seen, Bounded
<1>8. ASSUME PrepareNop PROVE Goal
  <2> DEFINE slot == Slot(next["main"])
             data == IF clears THEN Null ELSE sqes[slot].data
  <2>1. slot \in 0 .. Entries - 1 /\ sqes[slot] \in Entry
    BY <1>0, <1>01 DEF Threads
  <2>2. [req |-> Null, data |-> data] \in Entry
    BY <2>1
  <2>3. sqes' = [sqes EXCEPT ![slot] = [req |-> Null, data |-> data]]
    BY <1>8 DEF PrepareNop
  <2> HIDE DEF Entry, Completion, slot, data
  <2>4. sqes' \in [0 .. Entries - 1 -> Entry]
    BY <1>0, <2>1, <2>2, <2>3
  <2> QED
    BY <1>0, <1>8, <2>4 DEF PrepareNop, Bounded
<1>9. ASSUME NoNop PROVE Goal
  BY <1>02, <1>9 DEF NoNop
<1>10. ASSUME Join PROVE Goal
  <2> HIDE DEF Entry, Completion
  <2> QED
    BY <1>0, <1>10 DEF Join, Bounded
<1>11. ASSUME Complete PROVE Goal
  <2>1. PICK i \in DOMAIN inflight, res \in {"ok", "err"} :
          /\ inflight' = RemoveAt(inflight, i)
          /\ cq' = Append(cq, [data |-> inflight[i].data, res |-> res])
          /\ UNCHANGED <<sq, running, looping, pc, call, task, next, coroutines, bounds, past>>
    BY <1>11 DEF Complete
  <2>2. i \in 1 .. Len(inflight) /\ inflight[i] \in Entry
    <3> HIDE DEF Entry
    <3> QED
      BY <1>0, LenProperties, ElementOfSeq
  <2>3. [data |-> inflight[i].data, res |-> res] \in Completion
    BY <2>2
  <2> HIDE DEF Entry, Completion
  <2>4. inflight' \in Seq(Entry) /\ cq' \in Seq(Completion)
    BY <1>0, <2>1, <2>2, <2>3, RemoveAtIs, AppendProperties
  <2> QED
    BY <1>0, <2>1, <2>4 DEF Bounded
<1>12. ASSUME Loop PROVE Goal
  BY <1>02, <1>12 DEF Loop
<1>13. ASSUME WaitFails PROVE Goal
  BY <1>02, <1>13 DEF WaitFails
<1>14. ASSUME Start PROVE Goal
  <2> HIDE DEF Entry, Completion
  <2> QED
    BY <1>0, <1>14 DEF Start, Bounded
<1>15. ASSUME Stop PROVE Goal
  <2> HIDE DEF Entry, Completion
  <2> QED
    BY <1>0, <1>15 DEF Stop, Bounded
<1>16. ASSUME PollCompletions PROVE Goal
  BY <1>02, <1>16 DEF PollCompletions
<1>17. ASSUME Peeked PROVE Goal
  BY <1>02, <1>17 DEF Peeked
<1>18. ASSUME NEW c \in Tasks, Launch(c) PROVE Goal
  BY <1>02, <1>18 DEF Launch
<1> HIDE DEF Goal
<1>19. Goal
  BY <1>1, <1>2, <1>3, <1>4, <1>5, <1>6, <1>7, <1>8, <1>9, <1>10, <1>11, <1>12, <1>13, <1>14,
     <1>15, <1>16, <1>17, <1>18, Zenon DEF Work
<1> QED
  BY <1>19, ControlStep, Zenon DEF Goal, TypeOK

-----------------------------------------------------------------------------
(* The position of a coroutine only moves on once it has begun, and never    *)
(* from the end.                                                             *)
LEMMA PositionsMove ==
  ASSUME IInv, Sane, Work, NEW c \in Tasks
  PROVE  /\ pos[c] \in Int /\ pos[c] >= -1
         /\ \/ pos'[c] = pos[c]
            \/ pos[c] = Fresh /\ pos'[c] = 1 /\ \E d \in Tasks : Launch(d)
            \/ Active(c) /\ (pos'[c] = 0 \/ pos'[c] > pos[c])
<1> DEFINE Goal == \/ pos'[c] = pos[c]
                   \/ pos[c] = Fresh /\ pos'[c] = 1 /\ \E d \in Tasks : Launch(d)
                   \/ Active(c) /\ (pos'[c] = 0 \/ pos'[c] > pos[c])
<1>0. /\ TypeOK /\ ThreadTypes /\ MainInv /\ PollInv /\ TaskInv /\ QueueInv /\ PlacesInv
      /\ DOMAIN pos = Tasks
  BY DEF IInv, TypeOK
<1>01. pos[c] \in Int /\ pos[c] >= -1
  <2>1. DOMAIN Program[c] = 1 .. Len(Program[c]) /\ Len(Program[c]) \in Nat
    BY ProgramAssumption, LenProperties
  <2>2. pos[c] \in {Fresh, 0} \cup DOMAIN Program[c]
    BY <1>0 DEF TypeOK
  <2> QED
    BY <2>1, <2>2 DEF Fresh
<1>02. ASSUME NEW t \in Threads, NEW d \in Tasks, NEW res, Active(d), GoOn(t, d, res),
              pc[t] \in Entering \cup {"wait"}
       PROVE  Goal
  <2>1. \E to : pos' = [pos EXCEPT ![d] = to] /\ (to = 0 \/ to > pos[d])
    BY <1>0, <1>02, GoOnIs
  <2> QED
    BY <1>0, <1>02, <2>1
<1>1. ASSUME NEW t \in Threads, GetSqe(t) PROVE Goal
  BY <1>1, Zenon DEF GetSqe, coroutines
<1>2. ASSUME NEW t \in Threads, QueueFull(t) PROVE Goal
  BY <1>0, <1>02, <1>2 DEF QueueFull, ThreadTypes, TaskInv, Entering
<1>3. ASSUME NEW t \in Threads, Prepare(t) PROVE Goal
  BY <1>3, Zenon DEF Prepare, coroutines
<1>4. ASSUME NEW t \in Threads, Submit(t) PROVE Goal
  BY <1>4, Zenon DEF Submit, coroutines
<1>5. ASSUME NEW t \in Threads, CallBack(t) PROVE Goal
  BY <1>0, <1>02, <1>5, CallBackResumes DEF CallBack
<1>6. ASSUME NEW t \in Threads, NoCallback(t) PROVE Goal
  BY <1>6, Zenon DEF NoCallback, coroutines
<1>7. ASSUME NEW t \in Threads, Seen(t) PROVE Goal
  BY <1>7, Zenon DEF Seen, coroutines
<1>8. ASSUME PrepareNop PROVE Goal
  BY <1>8, Zenon DEF PrepareNop, coroutines
<1>9. ASSUME NoNop PROVE Goal
  BY <1>9, Zenon DEF NoNop, coroutines
<1>10. ASSUME Join PROVE Goal
  BY <1>10, Zenon DEF Join, coroutines
<1>11. ASSUME Complete PROVE Goal
  BY <1>11, Zenon DEF Complete, coroutines
<1>12. ASSUME Loop PROVE Goal
  BY <1>12, Zenon DEF Loop, coroutines
<1>13. ASSUME WaitFails PROVE Goal
  BY <1>13, Zenon DEF WaitFails, coroutines
<1>14. ASSUME Start PROVE Goal
  BY <1>14, Zenon DEF Start, coroutines
<1>15. ASSUME Stop PROVE Goal
  BY <1>15, Zenon DEF Stop, coroutines
<1>16. ASSUME PollCompletions PROVE Goal
  BY <1>16, Zenon DEF PollCompletions, coroutines
<1>17. ASSUME Peeked PROVE Goal
  BY <1>17, Zenon DEF Peeked, coroutines
<1>18. ASSUME NEW d \in Tasks, Launch(d) PROVE Goal
  BY <1>0, <1>18 DEF Launch
<1> HIDE DEF Goal
<1>19. Goal
  BY <1>1, <1>2, <1>3, <1>4, <1>5, <1>6, <1>7, <1>8, <1>9, <1>10, <1>11, <1>12, <1>13, <1>14,
     <1>15, <1>16, <1>17, <1>18, Zenon DEF Work
<1> QED
  BY <1>01, <1>19 DEF Goal

-----------------------------------------------------------------------------
(* Every step that leaves a completion in hand, or takes one in hand, has it *)
(* at the front, and its coroutine has gone on.                              *)
LEMMA CalledStep ==
  ASSUME IInv, Sane, Work
  PROVE  CalledInv'
<1> DEFINE Goal == CalledInv'
<1> USE DEF Threads, Entering, coroutines
<1>0. /\ TypeOK /\ ThreadTypes /\ MainInv /\ PollInv /\ TaskInv /\ QueueInv /\ PlacesInv
      /\ CalledInv
  BY DEF IInv
<1>01. ASSUME Called' # {} => Called # {}, cq' = cq
       PROVE  Goal
  <2> SUFFICES ASSUME Called' # {}, NEW o \in Ops, cq'[1].data = o
               PROVE  pos'[o[1]] = 0 \/ pos'[o[1]] > o[2]
    BY <1>0, <1>01 DEF CalledInv
  <2>1. o[1] \in Tasks /\ o[2] \in Nat \ {0}
    BY OpsAre, ProgramAssumption, LenProperties
  <2>2. pos[o[1]] = 0 \/ pos[o[1]] > o[2]
    BY <1>0, <1>01 DEF CalledInv
  <2>3. /\ pos[o[1]] \in Int
        /\ \/ pos'[o[1]] = pos[o[1]] \/ pos[o[1]] = Fresh
           \/ Active(o[1]) /\ (pos'[o[1]] = 0 \/ pos'[o[1]] > pos[o[1]])
    BY <2>1, PositionsMove
  <2>4. pos'[o[1]] \in Int
    <3>1. pos'[o[1]] \in {Fresh, 0} \cup DOMAIN Program[o[1]]
      BY <2>1, ControlStep
    <3>2. DOMAIN Program[o[1]] = 1 .. Len(Program[o[1]])
      BY <2>1, ProgramAssumption, LenProperties
    <3>3. \A n \in 1 .. Len(Program[o[1]]) : n \in Int
      OBVIOUS
    <3> QED
      BY <3>1, <3>2, <3>3 DEF Fresh
  <2> QED
    BY <2>1, <2>2, <2>3, <2>4 DEF Fresh, Active
<1>1. ASSUME NEW t \in Threads, GetSqe(t) PROVE Goal
  <2>1. Called' # {} => Called # {}
    BY <1>0, <1>1 DEF GetSqe, Called, ThreadTypes, MainInv, PollInv
  <2> QED
    BY <1>01, <1>1, <2>1 DEF GetSqe
<1>2. ASSUME NEW t \in Threads, QueueFull(t) PROVE Goal
  <2>1. Called' # {} => Called # {}
    <3>1. task[t] \in Tasks /\ Active(task[t]) /\ pc[t] = "get" /\ GoOn(t, task[t], "EAGAIN")
      BY <1>0, <1>2 DEF QueueFull, ThreadTypes, TaskInv
    <3>2. \/ Return(t)
          \/ pc' = [pc EXCEPT ![t] = "get"] /\ call' = call
      BY <1>0, <3>1, GoOnIs
    <3>3. CASE Return(t)
      <4>1. /\ \A u \in Threads : u # t => pc'[u] = pc[u]
            /\ t = "poll" => call' = call
            /\ t = "main" => \/ call = "launch" /\ call' = "none"
                             \/ call = "poll" /\ call' = call
                             \/ call = "stop" /\ call' = call
        BY <1>0, <3>1, <3>3, ReturnIs
      <4> QED
        BY <1>0, <3>1, <4>1 DEF Called, MainInv, PollInv
    <3> QED
      BY <1>0, <3>1, <3>2, <3>3 DEF Called, ThreadTypes, MainInv, PollInv
  <2> QED
    BY <1>01, <1>2, <2>1 DEF QueueFull
<1>3. ASSUME NEW t \in Threads, Prepare(t) PROVE Goal
  <2>1. Called' # {} => Called # {}
    BY <1>0, <1>3 DEF Prepare, Called, ThreadTypes, MainInv, PollInv
  <2> QED
    BY <1>01, <1>3, <2>1 DEF Prepare
<1>4. ASSUME NEW t \in Threads, Submit(t) PROVE Goal
  <2>1. Called' # {} => Called # {}
    <3>1. pc[t] = "submit"
      BY <1>4 DEF Submit
    <3>2. Return(t)
      BY <1>4 DEF Submit
    <3>3. CASE Return(t)
      <4>1. /\ \A u \in Threads : u # t => pc'[u] = pc[u]
            /\ t = "poll" => call' = call
            /\ t = "main" => \/ call = "launch" /\ call' = "none"
                             \/ call = "poll" /\ call' = call
                             \/ call = "stop" /\ call' = call
        BY <1>0, <3>1, <3>3, ReturnIs
      <4> QED
        BY <1>0, <3>1, <4>1 DEF Called, MainInv, PollInv
    <3> QED
      BY <1>0, <3>1, <3>2, <3>3 DEF Called, ThreadTypes, MainInv, PollInv
  <2> QED
    BY <1>01, <1>4, <2>1 DEF Submit
<1>5. ASSUME NEW t \in Threads, CallBack(t) PROVE Goal
  <2> DEFINE o == Head(cq).data
  <2>1. /\ o \in Ops /\ o[1] \in Tasks /\ pos[o[1]] = o[2] /\ Active(o[1])
    BY <1>0, <1>5, CallBackResumes
  <2>2. pc[t] = "wait" /\ cq # <<>> /\ cq' = cq /\ GoOn(t, o[1], Head(cq).res)
    BY <1>5 DEF CallBack
  <2>3. cq[1].data = o
    BY <1>0, <2>2, FirstCompletion
  <2> HIDE DEF o
  <2>4. \E to : pos' = [pos EXCEPT ![o[1]] = to] /\ (to = 0 \/ to > pos[o[1]])
    BY <1>0, <2>1, <2>2, GoOnIs
  <2>5. pos'[o[1]] = 0 \/ pos'[o[1]] > o[2]
    BY <1>0, <2>1, <2>4 DEF TypeOK
  <2> QED
    BY <2>2, <2>3, <2>5 DEF CalledInv
<1>6. ASSUME NEW t \in Threads, NoCallback(t) PROVE Goal
  <2>1. cq # <<>> /\ cq' = cq /\ cq[1].data = Null
    BY <1>0, <1>6, FirstCompletion DEF NoCallback
  <2> QED
    BY <2>1, OpsAre DEF CalledInv
<1>7. ASSUME NEW t \in Threads, Seen(t) PROVE Goal
  <2>1. Called' = {}
    BY <1>0, <1>7 DEF Seen, Called, ThreadTypes, MainInv, PollInv
  <2> QED
    BY <2>1 DEF CalledInv
<1>8. ASSUME PrepareNop PROVE Goal
  <2>1. Called' # {} => Called # {}
    BY <1>0, <1>8 DEF PrepareNop, Called, ThreadTypes, MainInv, PollInv
  <2> QED
    BY <1>01, <1>8, <2>1 DEF PrepareNop
<1>9. ASSUME NoNop PROVE Goal
  <2>1. Called' # {} => Called # {}
    BY <1>0, <1>9 DEF NoNop, Called, ThreadTypes, MainInv, PollInv
  <2> QED
    BY <1>01, <1>9, <2>1 DEF NoNop
<1>10. ASSUME Join PROVE Goal
  <2>1. Called' # {} => Called # {}
    BY <1>0, <1>10 DEF Join, Called, ThreadTypes, MainInv, PollInv
  <2> QED
    BY <1>01, <1>10, <2>1 DEF Join
<1>11. ASSUME Complete PROVE Goal
  <2>1. Called' = Called /\ pos' = pos
    BY <1>11 DEF Complete, Called
  <2>2. \E e \in [data : Ops \cup {Null}, res : {"ok", "err"}] : cq' = Append(cq, e)
    <3>1. PICK i \in DOMAIN inflight, res \in {"ok", "err"} :
            cq' = Append(cq, [data |-> inflight[i].data, res |-> res])
      BY <1>11 DEF Complete
    <3>2. inflight[i] \in [req : Ops \cup {Null}, data : Ops \cup {Null}]
      BY <1>0, LenProperties, ElementOfSeq, ZenonT(30) DEF TypeOK
    <3> QED
      BY <3>1, <3>2
  <2>3. cq # <<>> => cq' # <<>> /\ cq'[1] = cq[1]
    <3>1. cq \in Seq([data : Ops \cup {Null}, res : {"ok", "err"}])
      BY <1>0 DEF TypeOK
    <3>2. cq # <<>> => 1 \in 1 .. Len(cq)
      BY <1>0, FirstCompletion
    <3> QED
      BY <2>2, <3>1, <3>2, AppendProperties
  <2> QED
    BY <1>0, <2>1, <2>3 DEF CalledInv
<1>12. ASSUME Loop PROVE Goal
  <2>1. Called' # {} => Called # {}
    BY <1>0, <1>12 DEF Loop, Called, ThreadTypes, MainInv, PollInv
  <2> QED
    BY <1>01, <1>12, <2>1 DEF Loop
<1>13. ASSUME WaitFails PROVE Goal
  <2>1. Called' # {} => Called # {}
    BY <1>0, <1>13 DEF WaitFails, Called, ThreadTypes, MainInv, PollInv
  <2> QED
    BY <1>01, <1>13, <2>1 DEF WaitFails
<1>14. ASSUME Start PROVE Goal
  <2>1. Called' # {} => Called # {}
    BY <1>0, <1>14 DEF Start, Called, ThreadTypes, MainInv, PollInv
  <2> QED
    BY <1>01, <1>14, <2>1 DEF Start
<1>15. ASSUME Stop PROVE Goal
  <2>1. Called' # {} => Called # {}
    BY <1>0, <1>15 DEF Stop, Called, ThreadTypes, MainInv, PollInv
  <2> QED
    BY <1>01, <1>15, <2>1 DEF Stop
<1>16. ASSUME PollCompletions PROVE Goal
  <2>1. Called' # {} => Called # {}
    BY <1>0, <1>16 DEF PollCompletions, Called, ThreadTypes, MainInv, PollInv
  <2> QED
    BY <1>01, <1>16, <2>1 DEF PollCompletions
<1>17. ASSUME Peeked PROVE Goal
  <2>1. Called' # {} => Called # {}
    BY <1>0, <1>17 DEF Peeked, Called, ThreadTypes, MainInv, PollInv
  <2> QED
    BY <1>01, <1>17, <2>1 DEF Peeked
<1>18. ASSUME NEW c \in Tasks, Launch(c) PROVE Goal
  <2>1. Called' # {} => Called # {}
    BY <1>0, <1>18 DEF Launch, Called, ThreadTypes, MainInv, PollInv
  <2> QED
    BY <1>01, <1>18, <2>1 DEF Launch
<1> HIDE DEF Goal, Threads
<1>19. Goal
  BY <1>1, <1>2, <1>3, <1>4, <1>5, <1>6, <1>7, <1>8, <1>9, <1>10, <1>11, <1>12, <1>13, <1>14,
     <1>15, <1>16, <1>17, <1>18, Zenon DEF Work
<1> QED
  BY <1>19 DEF Goal

-----------------------------------------------------------------------------
(* Until the ring has gone round an unfilled entry has no data, and the NOP  *)
(* of stop() inherits none.                                                  *)
LEMMA WraparoundStep ==
  ASSUME IInv, Sane, Work
  PROVE  RingInv' /\ StaleNeedsWraparound'
<1> DEFINE Goal == RingInv' /\ StaleNeedsWraparound'
<1> USE DEF sq, coroutines, bounds, past
<1>0. /\ TypeOK /\ ThreadTypes /\ MainInv /\ PollInv /\ TaskInv /\ QueueInv /\ PlacesInv
      /\ RingInv /\ ~stale /\ sqTail \in Nat /\ sqHead \in Nat
  BY DEF IInv, TypeOK, Sane
<1>01. ASSUME UNCHANGED <<sqes, sqTail, stale, clears>>,
              \A t \in Threads : pc'[t] = "prepare" => pc[t] = "prepare" /\ next'[t] = next[t]
       PROVE  Goal
  BY <1>0, <1>01 DEF RingInv, StaleNeedsWraparound
<1>02. ASSUME NEW t \in Threads, NEW d \in Tasks, NEW res, Active(d), GoOn(t, d, res),
              pc[t] \in {"get", "wait"}
       PROVE  pc'[t] # "prepare" /\ \A u \in Threads \ {t} : pc'[u] = pc[u]
  <2>1. Return(t) \/ pc' = [pc EXCEPT ![t] = "get"]
    BY <1>0, <1>02, GoOnIs DEF Entering
  <2>2. CASE Return(t)
    BY <1>0, <1>02, <2>2, ReturnIs DEF Threads, Entering
  <2>3. CASE pc' = [pc EXCEPT ![t] = "get"]
    BY <1>0, <2>3 DEF ThreadTypes
  <2> QED
    BY <2>1, <2>2, <2>3
<1>1. ASSUME NEW t \in Threads, GetSqe(t) PROVE Goal
  <2>1. /\ sqTail' = sqTail + 1 /\ next' = [next EXCEPT ![t] = sqTail]
        /\ pc' = [pc EXCEPT ![t] = "prepare"] /\ sqes' = sqes /\ stale' = stale
    BY <1>1 DEF GetSqe
  <2>2. \A u \in Threads : /\ pc'[u] = IF u = t THEN "prepare" ELSE pc[u]
                           /\ next'[u] = IF u = t THEN sqTail ELSE next[u]
    BY <1>0, <2>1 DEF ThreadTypes
  <2> QED
    BY <1>0, <2>1, <2>2, EntriesAssumption DEF RingInv, StaleNeedsWraparound
<1>2. ASSUME NEW t \in Threads, QueueFull(t) PROVE Goal
  <2>1. /\ task[t] \in Tasks /\ Active(task[t]) /\ pc[t] = "get"
        /\ GoOn(t, task[t], "EAGAIN") /\ next' = next
    BY <1>0, <1>2 DEF QueueFull, ThreadTypes, TaskInv
  <2>2. pc'[t] # "prepare" /\ \A u \in Threads \ {t} : pc'[u] = pc[u]
    BY <2>1, <1>02
  <2> QED
    BY <1>01, <1>2, <2>1, <2>2 DEF QueueFull
<1>3. ASSUME NEW t \in Threads, Prepare(t) PROVE Goal
  <2>1. /\ sqes' = [sqes EXCEPT ![Slot(next[t])] = [req |-> Current(t), data |-> Current(t)]]
        /\ pc[t] = "prepare" /\ pc' = [pc EXCEPT ![t] = "submit"]
        /\ UNCHANGED <<sqTail, next, stale, clears>>
    BY <1>3 DEF Prepare
  <2>2. next[t] = sqTail - 1 /\ next[t] \in Nat /\ \A u \in Threads \ {t} : pc[u] # "prepare"
    BY <1>0, <2>1 DEF QueueInv, Submitting, ThreadTypes, Threads
  <2>3. \A u \in Threads : pc'[u] # "prepare"
    BY <1>0, <2>1, <2>2 DEF ThreadTypes
  <2>4. ASSUME sqTail <= Entries, NEW s \in 0 .. Entries - 1, s >= sqTail
        PROVE  sqes'[s].data = Null
    <3>1. Slot(next[t]) = next[t]
      BY <1>0, <2>2, <2>4, SlotSmall, EntriesAssumption
    <3>2. sqes'[s] = sqes[s]
      BY <1>0, <2>1, <2>2, <2>4, <3>1 DEF TypeOK
    <3> QED
      BY <1>0, <2>4, <3>2 DEF RingInv
  <2> QED
    BY <1>0, <2>1, <2>3, <2>4 DEF RingInv, StaleNeedsWraparound
<1>4. ASSUME NEW t \in Threads, Submit(t) PROVE Goal
  <2>1. /\ pc[t] = "submit" /\ Return(t) /\ next' = [next EXCEPT ![t] = 0]
        /\ UNCHANGED <<sqes, sqTail, stale, clears>>
    BY <1>4, Zenon DEF Submit
  <2>2. pc'[t] # "prepare" /\ \A u \in Threads \ {t} : pc'[u] = pc[u]
    BY <1>0, <2>1, ReturnIs DEF Threads, Entering
  <2>3. \A u \in Threads \ {t} : next'[u] = next[u]
    BY <1>0, <2>1 DEF ThreadTypes
  <2> QED
    BY <1>01, <2>1, <2>2, <2>3
<1>5. ASSUME NEW t \in Threads, CallBack(t) PROVE Goal
  <2>1. /\ Head(cq).data[1] \in Tasks /\ Active(Head(cq).data[1]) /\ pc[t] = "wait"
        /\ GoOn(t, Head(cq).data[1], Head(cq).res) /\ next' = next
    BY <1>0, <1>5, CallBackResumes DEF CallBack
  <2>2. pc'[t] # "prepare" /\ \A u \in Threads \ {t} : pc'[u] = pc[u]
    BY <2>1, <1>02
  <2> QED
    BY <1>01, <1>5, <2>1, <2>2 DEF CallBack
<1>6. ASSUME NEW t \in Threads, NoCallback(t) PROVE Goal
  <2>1. \A u \in Threads : pc'[u] = "prepare" => pc[u] = "prepare"
    BY <1>0, <1>6 DEF NoCallback, ThreadTypes, Threads
  <2> QED
    BY <1>01, <1>6, <2>1 DEF NoCallback
<1>7. ASSUME NEW t \in Threads, Seen(t) PROVE Goal
  <2>1. \A u \in Threads : pc'[u] = "prepare" => pc[u] = "prepare"
    BY <1>0, <1>7 DEF Seen, ThreadTypes, Threads
  <2> QED
    BY <1>01, <1>7, <2>1 DEF Seen
<1>8. ASSUME PrepareNop PROVE Goal
  <2> DEFINE slot == Slot(next["main"])
             data == IF clears THEN Null ELSE sqes[slot].data
  <2>1. /\ sqes' = [sqes EXCEPT ![slot] = [req |-> Null, data |-> data]]
        /\ pc["main"] = "prepare" /\ pc' = [pc EXCEPT !["main"] = "submit"]
        /\ stale' = (stale \/ data # Null)
        /\ UNCHANGED <<sqTail, next, clears>>
    BY <1>8 DEF PrepareNop
  <2>2. /\ "main" \in Threads /\ next["main"] = sqTail - 1 /\ next["main"] \in Nat
        /\ \A u \in Threads \ {"main"} : pc[u] # "prepare"
    BY <1>0, <2>1 DEF QueueInv, Submitting, ThreadTypes, Threads
  <2>3. \A u \in Threads : pc'[u] # "prepare"
    BY <1>0, <2>1, <2>2 DEF ThreadTypes
  <2>4. ASSUME sqTail <= Entries
        PROVE  slot = next["main"] /\ slot \in 0 .. Entries - 1
    BY <1>0, <2>2, <2>4, SlotSmall, EntriesAssumption
  <2> HIDE DEF slot
  <2>5. sqTail <= Entries => data = Null
    BY <1>0, <2>1, <2>2, <2>4 DEF RingInv
  <2> HIDE DEF data
  <2>6. ASSUME sqTail <= Entries, NEW s \in 0 .. Entries - 1, s >= sqTail
        PROVE  sqes'[s].data = Null
    <3>1. sqes'[s] = sqes[s]
      BY <1>0, <2>1, <2>2, <2>4, <2>6 DEF TypeOK
    <3> QED
      BY <1>0, <2>6, <3>1 DEF RingInv
  <2>7. RingInv'
    BY <1>0, <2>1, <2>3, <2>6 DEF RingInv
  <2>8. ASSUME stale' PROVE ~clears /\ sqTail > Entries
    <3>1. data # Null
      BY <1>0, <2>1, <2>8, Zenon
    <3>2. ~clears
      BY <3>1, Zenon DEF data
    <3> QED
      BY <1>0, <2>5, <3>1, <3>2, EntriesAssumption
  <2> QED
    BY <2>1, <2>7, <2>8 DEF StaleNeedsWraparound
<1>9. ASSUME NoNop PROVE Goal
  <2>1. \A u \in Threads : pc'[u] = "prepare" => pc[u] = "prepare"
    BY <1>0, <1>9 DEF NoNop, ThreadTypes, Threads
  <2> QED
    BY <1>01, <1>9, <2>1 DEF NoNop
<1>10. ASSUME Join PROVE Goal
  <2>1. \A u \in Threads : pc'[u] = "prepare" => pc[u] = "prepare"
    BY <1>0, <1>10 DEF Join, ThreadTypes, Threads
  <2> QED
    BY <1>01, <1>10, <2>1 DEF Join
<1>11. ASSUME Complete PROVE Goal
  <2>1. \A u \in Threads : pc'[u] = "prepare" => pc[u] = "prepare"
    BY <1>0, <1>11 DEF Complete, ThreadTypes, Threads
  <2> QED
    BY <1>01, <1>11, <2>1 DEF Complete
<1>12. ASSUME Loop PROVE Goal
  <2>1. \A u \in Threads : pc'[u] = "prepare" => pc[u] = "prepare"
    BY <1>0, <1>12 DEF Loop, ThreadTypes, Threads
  <2> QED
    BY <1>01, <1>12, <2>1 DEF Loop
<1>13. ASSUME WaitFails PROVE Goal
  <2>1. \A u \in Threads : pc'[u] = "prepare" => pc[u] = "prepare"
    BY <1>0, <1>13 DEF WaitFails, ThreadTypes, Threads
  <2> QED
    BY <1>01, <1>13, <2>1 DEF WaitFails
<1>14. ASSUME Start PROVE Goal
  <2>1. \A u \in Threads : pc'[u] = "prepare" => pc[u] = "prepare"
    BY <1>0, <1>14 DEF Start, ThreadTypes, Threads
  <2> QED
    BY <1>01, <1>14, <2>1 DEF Start
<1>15. ASSUME Stop PROVE Goal
  <2>1. \A u \in Threads : pc'[u] = "prepare" => pc[u] = "prepare"
    BY <1>0, <1>15 DEF Stop, ThreadTypes, Threads
  <2> QED
    BY <1>01, <1>15, <2>1 DEF Stop
<1>16. ASSUME PollCompletions PROVE Goal
  <2>1. \A u \in Threads : pc'[u] = "prepare" => pc[u] = "prepare"
    BY <1>0, <1>16 DEF PollCompletions, ThreadTypes, Threads
  <2> QED
    BY <1>01, <1>16, <2>1 DEF PollCompletions
<1>17. ASSUME Peeked PROVE Goal
  <2>1. \A u \in Threads : pc'[u] = "prepare" => pc[u] = "prepare"
    BY <1>0, <1>17 DEF Peeked, ThreadTypes, Threads
  <2> QED
    BY <1>01, <1>17, <2>1 DEF Peeked
<1>18. ASSUME NEW c \in Tasks, Launch(c) PROVE Goal
  <2>1. \A u \in Threads : pc'[u] = "prepare" => pc[u] = "prepare"
    BY <1>0, <1>18 DEF Launch, ThreadTypes, Threads
  <2> QED
    BY <1>01, <1>18, <2>1 DEF Launch
<1> HIDE DEF Goal
<1>19. Goal
  BY <1>1, <1>2, <1>3, <1>4, <1>5, <1>6, <1>7, <1>8, <1>9, <1>10, <1>11, <1>12, <1>13, <1>14,
     <1>15, <1>16, <1>17, <1>18, Zenon DEF Work
<1> QED
  BY <1>19 DEF Goal
-----------------------------------------------------------------------------
(* One coroutine at a time stays so, and then no two threads are in the      *)
(* queue at once.                                                            *)
LEMMA SerialStep ==
  ASSUME IInv, Sane, Work
  PROVE  SerialInv' /\ SerialUseIsSafe'
<1> DEFINE Goal == SerialInv' /\ SerialUseIsSafe'
           Calm == /\ call' = "stop" => call = "stop"
                   /\ pc["poll"] = "none" => pc'["poll"] = "none"
                   /\ \A d \in Tasks : Active(d)' => Active(d)
<1> USE DEF Threads, bounds, past, coroutines
<1>0. /\ TypeOK /\ ThreadTypes /\ MainInv /\ PollInv /\ TaskInv /\ QueueInv /\ PlacesInv
      /\ SerialInv /\ SerialUseIsSafe /\ ~raced
  BY DEF IInv, Sane
<1>01. ASSUME UNCHANGED <<serial, starts, raced>>, Calm PROVE Goal
  BY <1>0, <1>01 DEF SerialInv, SerialUseIsSafe
<1>02. ASSUME UNCHANGED pos, call' \in {call, "none", "poll"},
              pc' = pc \/ \E t \in Threads : \E a : pc' = [pc EXCEPT ![t] = a] /\ pc[t] # "none"
       PROVE  Calm
  BY <1>0, <1>02 DEF ThreadTypes, Active
<1>03. ASSUME NEW t \in Threads, NEW c \in Tasks, NEW res, Active(c), GoOn(t, c, res),
              pc[t] \in Entering \cup {"wait"}
       PROVE  Calm
  <2>1. PICK to : /\ pos' = [pos EXCEPT ![c] = to]
                  /\ Return(t) \/ (pc' = [pc EXCEPT ![t] = "get"] /\ call' = call)
    BY <1>0, <1>03, GoOnIs
  <2>2. \A d \in Tasks : Active(d)' => Active(d)
    BY <1>0, <1>03, <2>1 DEF TypeOK, Active
  <2>3. CASE Return(t)
    BY <1>0, <1>03, <2>2, <2>3, ReturnIs DEF Entering
  <2>4. CASE pc' = [pc EXCEPT ![t] = "get"] /\ call' = call
    BY <1>0, <1>03, <2>2, <2>4 DEF ThreadTypes, Entering
  <2> QED
    BY <2>1, <2>3, <2>4
<1>1. ASSUME NEW t \in Threads, GetSqe(t) PROVE Goal
  <2>1. /\ pc[t] = "get" /\ UNCHANGED <<serial, starts, call, pos>>
        /\ pc' = [pc EXCEPT ![t] = "prepare"]
        /\ raced' = (raced \/ \E u \in Threads \ {t} : pc[u] \in Submitting)
    BY <1>1, Zenon DEF GetSqe
  <2>2. ASSUME NEW u \in Threads \ {t}, pc[u] \in Submitting PROVE ~serial /\ starts # 0
    <3>1. pc["main"] \in Entering /\ pc["poll"] \in Entering
      BY <2>1, <2>2 DEF Submitting, Entering
    <3>2. starts # 0
      BY <1>0, <3>1 DEF SerialInv, Entering
    <3>3. task["poll"] \in Tasks /\ Active(task["poll"])
      BY <1>0, <3>1 DEF PollInv, TaskInv, ThreadTypes
    <3>4. CASE task["main"] # Nop
      <4>1. task["main"] \in Tasks /\ Active(task["main"]) /\ task["main"] # task["poll"]
        BY <1>0, <3>4 DEF TaskInv, ThreadTypes
      <4> QED
        BY <1>0, <3>2, <3>3, <4>1 DEF SerialInv
    <3>5. CASE task["main"] = Nop
      <4>1. call = "stop"
        BY <1>0, <3>1, <3>5 DEF MainInv, ThreadTypes, Entering
      <4> QED
        BY <1>0, <3>2, <3>3, <4>1 DEF SerialInv
    <3> QED
      BY <3>4, <3>5
  <2>3. SerialInv'
    <3>1. Calm
      BY <1>02, <2>1
    <3> QED
      BY <1>0, <2>1, <3>1 DEF SerialInv
  <2>4. SerialUseIsSafe'
    BY <1>0, <2>1, <2>2, Zenon DEF SerialUseIsSafe
  <2> QED
    BY <2>3, <2>4
<1>2. ASSUME NEW t \in Threads, QueueFull(t) PROVE Goal
  <2>1. /\ task[t] \in Tasks /\ Active(task[t]) /\ pc[t] \in Entering
        /\ GoOn(t, task[t], "EAGAIN")
    BY <1>0, <1>2 DEF QueueFull, ThreadTypes, TaskInv, Entering
  <2>2. UNCHANGED <<serial, starts, raced>>
    BY <1>2 DEF QueueFull
  <2>3. Calm
    BY <1>03, <2>1
  <2> QED
    BY <1>01, <2>2, <2>3
<1>5. ASSUME NEW t \in Threads, CallBack(t) PROVE Goal
  <2>1. /\ Head(cq).data[1] \in Tasks /\ Active(Head(cq).data[1]) /\ pc[t] = "wait"
        /\ GoOn(t, Head(cq).data[1], Head(cq).res)
    BY <1>0, <1>5, CallBackResumes DEF CallBack
  <2>2. UNCHANGED <<serial, starts, raced>>
    BY <1>5 DEF CallBack
  <2>3. Calm
    BY <1>03, <2>1
  <2> QED
    BY <1>01, <2>2, <2>3
<1>4. ASSUME NEW t \in Threads, Submit(t) PROVE Goal
  <2>1. pc[t] = "submit" /\ Return(t) /\ UNCHANGED <<serial, starts, raced, pos>>
    BY <1>4, Zenon DEF Submit
  <2>2. Calm
    BY <1>0, <2>1, ReturnIs DEF Entering, Active
  <2> QED
    BY <1>01, <2>1, <2>2
<1>3. ASSUME NEW t \in Threads, Prepare(t) PROVE Goal
  <2>1. Calm
    BY <1>02, <1>3 DEF Prepare
  <2> QED
    BY <1>01, <1>3, <2>1 DEF Prepare
<1>6. ASSUME NEW t \in Threads, NoCallback(t) PROVE Goal
  <2>1. Calm
    BY <1>02, <1>6 DEF NoCallback
  <2> QED
    BY <1>01, <1>6, <2>1 DEF NoCallback
<1>7. ASSUME NEW t \in Threads, Seen(t) PROVE Goal
  <2>1. Calm
    BY <1>02, <1>7 DEF Seen
  <2> QED
    BY <1>01, <1>7, <2>1 DEF Seen
<1>8. ASSUME PrepareNop PROVE Goal
  <2>1. Calm
    BY <1>02, <1>8 DEF PrepareNop
  <2> QED
    BY <1>01, <1>8, <2>1 DEF PrepareNop
<1>9. ASSUME NoNop PROVE Goal
  <2>1. Calm
    BY <1>02, <1>9 DEF NoNop
  <2> QED
    BY <1>01, <1>9, <2>1 DEF NoNop
<1>11. ASSUME Complete PROVE Goal
  <2>1. Calm
    BY <1>02, <1>11 DEF Complete
  <2> QED
    BY <1>01, <1>11, <2>1 DEF Complete
<1>12. ASSUME Loop PROVE Goal
  <2>1. Calm
    BY <1>02, <1>12 DEF Loop
  <2> QED
    BY <1>01, <1>12, <2>1 DEF Loop
<1>13. ASSUME WaitFails PROVE Goal
  <2>1. Calm
    BY <1>02, <1>13 DEF WaitFails
  <2> QED
    BY <1>01, <1>13, <2>1 DEF WaitFails
<1>16. ASSUME PollCompletions PROVE Goal
  <2>1. Calm
    BY <1>02, <1>16 DEF PollCompletions
  <2> QED
    BY <1>01, <1>16, <2>1 DEF PollCompletions
<1>17. ASSUME Peeked PROVE Goal
  <2>1. Calm
    BY <1>02, <1>17 DEF Peeked
  <2> QED
    BY <1>01, <1>17, <2>1 DEF Peeked
<1>10. ASSUME Join PROVE Goal
  <2>1. Calm
    BY <1>10 DEF Join, Active
  <2> QED
    BY <1>01, <1>10, <2>1 DEF Join
<1>14. ASSUME Start PROVE Goal
  <2>1. /\ UNCHANGED <<serial, raced, pos, call>> /\ starts' = starts + 1
    BY <1>14, Zenon DEF Start
  <2>2. \A d \in Tasks : Active(d)' = Active(d)
    BY <2>1 DEF Active
  <2> QED
    BY <1>0, <2>1, <2>2 DEF SerialInv, SerialUseIsSafe
<1>15. ASSUME Stop PROVE Goal
  <2>1. /\ pc["main"] = "idle" /\ pc' = [pc EXCEPT !["main"] = "get"]
        /\ serial' = (serial /\ ~\E c \in Tasks : Active(c))
        /\ UNCHANGED <<raced, pos, starts>>
    BY <1>15, Zenon DEF Stop
  <2>2. pc'["poll"] = pc["poll"] /\ \A d \in Tasks : Active(d)' = Active(d)
    BY <1>0, <2>1 DEF ThreadTypes, Active
  <2> QED
    BY <1>0, <2>1, <2>2 DEF SerialInv, SerialUseIsSafe
<1>18. ASSUME NEW c \in Tasks, Launch(c) PROVE Goal
  <2>1. /\ pc["main"] = "idle" /\ pc' = [pc EXCEPT !["main"] = "get"] /\ call' = "launch"
        /\ serial' = (serial /\ ~\E d \in Tasks : Active(d))
        /\ pos' = [pos EXCEPT ![c] = 1]
        /\ UNCHANGED <<raced, starts>>
    BY <1>18, Zenon DEF Launch
  <2>2. /\ pc'["poll"] = pc["poll"]
        /\ \A d \in Tasks : Active(d)' => Active(d) \/ d = c
    BY <1>0, <2>1 DEF ThreadTypes, TypeOK, Active
  <2> QED
    BY <1>0, <2>1, <2>2 DEF SerialInv, SerialUseIsSafe
<1> HIDE DEF Goal
<1>19. Goal
  BY <1>1, <1>2, <1>3, <1>4, <1>5, <1>6, <1>7, <1>8, <1>9, <1>10, <1>11, <1>12, <1>13, <1>14,
     <1>15, <1>16, <1>17, <1>18, Zenon DEF Work
<1> QED
  BY <1>19 DEF Goal
-----------------------------------------------------------------------------
(* A step that leaves alone the queue and the thread that is in it.          *)
LEMMA QueueStays ==
  ASSUME IInv, Sane, UNCHANGED <<sq, next>>,
         \A t \in Threads : pc[t] \in Submitting \/ pc'[t] \in Submitting =>
           pc'[t] = pc[t] /\ task'[t] = task[t] /\ Current(t)' = Current(t)
  PROVE  /\ QueueInv'
         /\ \A o \in Ops, n \in Nat : InQueue(o, n)' <=> InQueue(o, n)
<1>1. QueueInv /\ UNCHANGED <<sqes, sqHead, sqTail, next>>
  BY DEF IInv, sq
<1>2. QueueInv'
  BY <1>1 DEF QueueInv, Submitting, Threads
<1>3. \A t \in Threads : (pc'[t] = "prepare") <=> (pc[t] = "prepare")
  BY DEF Submitting
<1>4. Filled' = Filled
  BY <1>1, <1>3 DEF Filled
<1> QED
  BY <1>1, <1>2, <1>4 DEF InQueue

(* A step after which every operation is where it was.                       *)
LEMMA PlacesStay ==
  ASSUME PlacesInv,
         \A o \in Ops : Suspended(o)' <=> Suspended(o),
         \A o \in Ops, n \in Nat : InQueue(o, n)' <=> InQueue(o, n),
         \A o \in Ops, n \in Nat : /\ InKernel(o, n)' <=> InKernel(o, n)
                                   /\ InCompletions(o, n)' <=> InCompletions(o, n)
  PROVE  PlacesInv'
<1> SUFFICES ASSUME NEW o \in Ops PROVE NowhereTwice(o)' /\ (Somewhere(o)' <=> Suspended(o)')
  BY DEF PlacesInv
<1>1. NowhereTwice(o) /\ (Somewhere(o) <=> Suspended(o))
  BY DEF PlacesInv
<1>2. \A n \in Nat : /\ InQueue(o, n)' <=> InQueue(o, n)
                     /\ InKernel(o, n)' <=> InKernel(o, n)
                     /\ InCompletions(o, n)' <=> InCompletions(o, n)
  OBVIOUS
<1>3. NowhereTwice(o)'
  BY <1>1, <1>2, Zenon DEF NowhereTwice
<1>4. Somewhere(o)' <=> Somewhere(o)
  BY <1>2, Zenon DEF Somewhere
<1> QED
  BY <1>1, <1>3, <1>4

(* A step that moves only threads that execute no coroutine.                 *)
LEMMA QuietStep ==
  ASSUME IInv, Sane, UNCHANGED <<sq, next, inflight, cq, task, coroutines>>, Called' = Called,
         \A t \in Threads : pc[t] \in Submitting \/ pc'[t] \in Submitting \/ task[t] # Nop =>
           pc'[t] = pc[t]
  PROVE  QueueInv' /\ PlacesInv' /\ HandlersInv'
<1>1. PlacesInv /\ HandlersInv /\ UNCHANGED <<pos, callbacks>>
  BY DEF IInv, coroutines
<1>2. \A t \in Threads : Current(t)' = Current(t)
  BY <1>1 DEF Current
<1>3. /\ QueueInv'
      /\ \A o \in Ops, n \in Nat : InQueue(o, n)' <=> InQueue(o, n)
  BY <1>2, QueueStays
<1>4. \A o \in Ops : Suspended(o)' <=> Suspended(o)
  BY <1>1, OpsAre, NopAssumption DEF Suspended
<1>5. \A o \in Ops, n \in Nat : /\ InKernel(o, n)' <=> InKernel(o, n)
                                /\ InCompletions(o, n)' <=> InCompletions(o, n)
  BY DEF InKernel, InCompletions
<1>6. \A o \in Ops : Handled(o)' <=> Handled(o)
  BY DEF Handled
<1>7. PlacesInv'
  BY <1>1, <1>3, <1>4, <1>5, PlacesStay, Zenon
<1>8. HandlersInv'
  BY <1>1, <1>4, <1>6, Zenon DEF HandlersInv
<1> QED
  BY <1>3, <1>7, <1>8
-----------------------------------------------------------------------------
(* The actions that move operations, one lemma each.  An entry is taken: the *)
(* queue has one more, which is not filled.                                  *)
LEMMA GetSqePlaces ==
  ASSUME IInv, Sane, Sane', NEW t \in Threads, GetSqe(t)
  PROVE  QueueInv' /\ PlacesInv' /\ HandlersInv'
<1>1. /\ ThreadTypes /\ MainInv /\ PollInv /\ QueueInv /\ PlacesInv /\ HandlersInv
      /\ sqTail \in Nat /\ sqHead \in Nat /\ sqTail - sqHead \in 0 .. Entries
  BY DEF IInv, TypeOK, Bounded
<1>2. /\ pc[t] = "get" /\ pc' = [pc EXCEPT ![t] = "prepare"]
      /\ next' = [next EXCEPT ![t] = sqTail] /\ sqTail' = sqTail + 1
      /\ UNCHANGED <<sqes, sqHead, inflight, cq, call, task, pos, callbacks>>
      /\ \A u \in Threads \ {t} : pc[u] \notin Submitting
  BY Zenon DEF GetSqe, coroutines, Sane
<1>3. \A u \in Threads : /\ pc'[u] = IF u = t THEN "prepare" ELSE pc[u]
                         /\ next'[u] = IF u = t THEN sqTail ELSE next[u]
  BY <1>1, <1>2 DEF ThreadTypes
<1>4. QueueInv'
  BY <1>1, <1>2, <1>3, EntriesAssumption DEF QueueInv, Submitting, Threads
<1>5. Filled' = Filled
  BY <1>1, <1>2, <1>3 DEF Filled, Submitting
<1>6. Called' = Called
  BY <1>1, <1>2, <1>3 DEF Called, Threads, MainInv
<1>7. \A o \in Ops : Suspended(o)' <=> Suspended(o)
  BY <1>2, <1>3 DEF Suspended
<1>8. /\ \A o \in Ops, n \in Nat : InQueue(o, n)' <=> InQueue(o, n)
      /\ \A o \in Ops, n \in Nat : /\ InKernel(o, n)' <=> InKernel(o, n)
                                   /\ InCompletions(o, n)' <=> InCompletions(o, n)
      /\ \A o \in Ops : Handled(o)' <=> Handled(o)
  BY <1>2, <1>5, <1>6 DEF InQueue, InKernel, InCompletions, Handled
<1>9. PlacesInv'
  BY <1>1, <1>7, <1>8, PlacesStay, Zenon
<1>10. HandlersInv'
  BY <1>1, <1>2, <1>7, <1>8, Zenon DEF HandlersInv
<1> QED
  BY <1>4, <1>9, <1>10

(* The queue is full: the coroutine did not wait and does not.               *)
LEMMA QueueFullPlaces ==
  ASSUME IInv, Sane, NEW t \in Threads, QueueFull(t)
  PROVE  QueueInv' /\ PlacesInv' /\ HandlersInv'
<1> DEFINE c == task[t]
<1>1. /\ TypeOK /\ ThreadTypes /\ MainInv /\ PollInv /\ TaskInv
      /\ QueueInv /\ PlacesInv /\ HandlersInv
  BY DEF IInv
<1>2. /\ c \in Tasks /\ Active(c) /\ pc[t] = "get" /\ GoOn(t, c, "EAGAIN")
      /\ UNCHANGED <<sq, next, inflight, cq, callbacks>>
      /\ \A u \in Threads : u # t => task[u] # c
  BY <1>1 DEF QueueFull, ThreadTypes, TaskInv, Threads
<1> HIDE DEF c
<1>3. PICK to \in {0} \cup DOMAIN Program[c] :
        /\ pos' = [pos EXCEPT ![c] = to]
        /\ \/ to = 0 /\ Return(t)
           \/ /\ to # 0
              /\ pc' = [pc EXCEPT ![t] = "get"] /\ task' = [task EXCEPT ![t] = c]
              /\ call' = call
  BY <1>1, <1>2, GoOnIs DEF Entering
<1>4. /\ \A d \in Tasks : d # c => pos'[d] = pos[d]
      /\ pos'[c] = to
  BY <1>1, <1>2, <1>3 DEF TypeOK
<1>5. /\ \A u \in Threads : u # t => pc'[u] = pc[u] /\ task'[u] = task[u]
      /\ pc'[t] \notin Submitting
      /\ task'[t] \in {c, Nop}
      /\ to # 0 => pc'[t] = "get" /\ task'[t] = c
      /\ t = "poll" => pc'[t] \in {"get", "seen"} /\ call' = call
      /\ t = "main" => /\ (call' = "poll") <=> (call = "poll")
                       /\ call = "poll" => pc'[t] # "wait"
  <2>1. CASE to = 0
    BY <1>1, <1>2, <1>3, <2>1, ReturnIs DEF Threads, Entering, Submitting
  <2>2. CASE to # 0
    BY <1>1, <1>3, <2>2 DEF ThreadTypes, Threads, Submitting
  <2> QED
    BY <2>1, <2>2
<1>6. \A u \in Threads : pc[u] \in Submitting \/ pc'[u] \in Submitting =>
        pc'[u] = pc[u] /\ task'[u] = task[u] /\ Current(u)' = Current(u)
  <2> TAKE u \in Threads
  <2>1. ASSUME pc[u] \in Submitting \/ pc'[u] \in Submitting
        PROVE  u # t /\ pc'[u] = pc[u] /\ task'[u] = task[u] /\ task[u] # c
    BY <1>2, <1>5, <2>1 DEF Submitting
  <2>2. ASSUME task[u] \notin Tasks PROVE pos'[task[u]] = pos[task[u]]
    BY <1>1, <1>3, <1>2, <2>2 DEF TypeOK
  <2> QED
    BY <1>4, <2>1, <2>2 DEF Current
<1>7. /\ QueueInv'
      /\ \A o \in Ops, n \in Nat : InQueue(o, n)' <=> InQueue(o, n)
  BY <1>2, <1>6, QueueStays
<1>8. Called' = Called
  <2>1. t = "poll" => Called = {1} /\ Called' = {1}
    BY <1>2, <1>5 DEF Called
  <2>2. t = "main" => Called' = Called
    BY <1>2, <1>5 DEF Called, Threads
  <2> QED
    BY <2>1, <2>2 DEF Threads
<1>9. \A o \in Ops : Suspended(o)' <=> Suspended(o)
  <2> TAKE o \in Ops
  <2>1. o[1] \in Tasks /\ o[2] # 0 /\ o[1] # Nop
    BY OpsAre, NopAssumption, ProgramAssumption, LenProperties
  <2>2. CASE o[1] = c
    BY <1>2, <1>4, <1>5, <2>1, <2>2 DEF Suspended, c
  <2>3. CASE o[1] # c
    BY <1>2, <1>4, <1>5, <2>1, <2>3 DEF Suspended, c
  <2> QED
    BY <2>2, <2>3
<1>10. /\ \A o \in Ops, n \in Nat : /\ InKernel(o, n)' <=> InKernel(o, n)
                                    /\ InCompletions(o, n)' <=> InCompletions(o, n)
       /\ \A o \in Ops : Handled(o)' <=> Handled(o)
  BY <1>2, <1>8 DEF InKernel, InCompletions, Handled
<1>11. PlacesInv'
  BY <1>1, <1>7, <1>9, <1>10, PlacesStay, Zenon
<1>12. HandlersInv'
  BY <1>1, <1>2, <1>9, <1>10, Zenon DEF HandlersInv
<1> QED
  BY <1>7, <1>11, <1>12

(* The entry is filled: the operation is in the queue, and waits.            *)
LEMMA PreparePlaces ==
  ASSUME IInv, Sane, NEW t \in Threads, Prepare(t)
  PROVE  QueueInv' /\ PlacesInv' /\ HandlersInv'
<1> DEFINE e == Current(t)
           last == sqTail - 1
<1>1. /\ TypeOK /\ ThreadTypes /\ MainInv /\ PollInv /\ TaskInv
      /\ QueueInv /\ PlacesInv /\ HandlersInv
      /\ sqTail \in Nat /\ sqHead \in Nat /\ sqTail - sqHead \in 0 .. Entries
      /\ DOMAIN sqes = 0 .. Entries - 1
  BY DEF IInv, TypeOK, Bounded
<1>2. /\ pc[t] = "prepare" /\ task[t] # Nop /\ pc' = [pc EXCEPT ![t] = "submit"]
      /\ sqes' = [sqes EXCEPT ![Slot(next[t])] = [req |-> e, data |-> e]]
      /\ callbacks' = callbacks \cup {e}
      /\ UNCHANGED <<sqHead, sqTail, inflight, cq, call, task, next, pos>>
  BY Zenon DEF Prepare
<1>3. /\ next[t] = last /\ last \in Nat /\ sqHead <= last
      /\ \A u \in Threads : u # t => pc[u] \notin Submitting
  BY <1>1, <1>2 DEF QueueInv, Submitting, Threads
<1>4. \A u \in Threads : pc'[u] = IF u = t THEN "submit" ELSE pc[u]
  BY <1>1, <1>2 DEF ThreadTypes
<1>5. /\ task[t] \in Tasks /\ Active(task[t]) /\ \A u \in Threads : u # t => task[u] # task[t]
  BY <1>1, <1>2 DEF TaskInv, ThreadTypes, Threads
<1>6. e \in Ops /\ e[1] = task[t] /\ e[2] = pos[task[t]] /\ e = <<task[t], pos[task[t]]>>
  <2>1. pos[task[t]] \in 1 .. Len(Program[task[t]])
    BY <1>1, <1>5, ProgramAssumption, LenProperties DEF TypeOK, Active
  <2> QED
    BY <1>5, <2>1, OpsAre DEF Current
<1>7. /\ \A u \in Threads : Current(u)' = Current(u)
      /\ Slot(last) \in 0 .. Entries - 1 /\ sqes'[Slot(last)].data = e
  BY <1>1, <1>2, <1>3, SlotRange DEF Current
<1> HIDE DEF e, last
<1>8. QueueInv'
  <2>1. \A u \in Threads : pc'[u] \in Submitting => u = t
    BY <1>3, <1>4 DEF Submitting
  <2>2. next'[t] = sqTail' - 1 /\ sqHead' < sqTail'
    BY <1>1, <1>2, <1>3 DEF last
  <2>3. sqes'[Slot(next'[t])].data = Current(t)'
    BY <1>2, <1>3, <1>7 DEF e
  <2> QED
    BY <2>1, <2>2, <2>3 DEF QueueInv, Submitting, Threads
<1>9. Filled = sqHead .. last - 1 /\ Filled' = sqHead .. last
  BY <1>1, <1>2, <1>3, <1>4 DEF Filled, Submitting, last
<1>10. \A n \in sqHead .. last - 1 : sqes'[Slot(n)] = sqes[Slot(n)]
  <2> TAKE n \in sqHead .. last - 1
  <2>1. Slot(n) # Slot(last)
    BY <1>1, <1>3, SlotInjective, EntriesAssumption DEF last
  <2>2. Slot(n) \in 0 .. Entries - 1
    BY <1>1, <1>3, SlotRange
  <2> QED
    BY <1>1, <1>2, <1>3, <2>1, <2>2
<1>11. Called' = Called
  BY <1>2, <1>4 DEF Called, Threads
<1>12. \A o \in Ops : (Suspended(o)' <=> (Suspended(o) \/ o = e)) /\ ~Suspended(e)
  <2> TAKE o \in Ops
  <2>1. o = <<o[1], o[2]>> /\ o[1] \in Tasks
    BY OpsAre
  <2>2. ~Suspended(e)
    BY <1>2, <1>6 DEF Suspended
  <2>3. CASE o = e
    BY <1>2, <1>4, <1>5, <1>6, <2>3 DEF Suspended
  <2>4. CASE o # e /\ o[1] = task[t]
    BY <1>2, <1>6, <2>1, <2>4 DEF Suspended
  <2>5. CASE o[1] # task[t]
    BY <1>2, <1>4, <1>6, <2>1, <2>5 DEF Suspended
  <2> QED
    BY <2>2, <2>3, <2>4, <2>5
<1>13. \A o \in Ops, n \in Nat : InQueue(o, n)' <=> (InQueue(o, n) \/ (n = last /\ o = e))
  <2> TAKE o \in Ops, n \in Nat
  <2>1. CASE n = last
    <3>1. n \in Filled' /\ n \notin Filled
      BY <1>1, <1>3, <1>9, <2>1
    <3> QED
      BY <1>7, <2>1, <3>1 DEF InQueue
  <2>2. CASE n \in sqHead .. last - 1
    <3>1. n \in Filled' /\ n \in Filled /\ n # last
      BY <1>1, <1>3, <1>9, <2>2
    <3> QED
      BY <1>10, <2>2, <3>1 DEF InQueue
  <2>3. CASE n # last /\ n \notin sqHead .. last - 1
    <3>1. n \notin Filled' /\ n \notin Filled
      BY <1>1, <1>3, <1>9, <2>3
    <3> QED
      BY <2>3, <3>1 DEF InQueue
  <2> QED
    BY <2>1, <2>2, <2>3
<1>14. \A o \in Ops : /\ Handled(o)' <=> Handled(o)
                      /\ \A n \in Nat : /\ InKernel(o, n)' <=> InKernel(o, n)
                                        /\ InCompletions(o, n)' <=> InCompletions(o, n)
  BY <1>2, <1>11 DEF InKernel, InCompletions, Handled
<1>15. PlacesInv'
  <2> SUFFICES ASSUME NEW o \in Ops PROVE NowhereTwice(o)' /\ (Somewhere(o)' <=> Suspended(o)')
    BY DEF PlacesInv
  <2>1. NowhereTwice(o) /\ (Somewhere(o) <=> Suspended(o))
    BY <1>1 DEF PlacesInv
  <2>2. CASE o # e
    <3>1. \A n \in Nat : /\ InQueue(o, n)' <=> InQueue(o, n)
                         /\ InKernel(o, n)' <=> InKernel(o, n)
                         /\ InCompletions(o, n)' <=> InCompletions(o, n)
      BY <1>13, <1>14, <2>2
    <3>2. NowhereTwice(o)'
      BY <2>1, <3>1, Zenon DEF NowhereTwice
    <3>3. Somewhere(o)' <=> Somewhere(o)
      BY <3>1, Zenon DEF Somewhere
    <3> QED
      BY <1>12, <2>1, <2>2, <3>2, <3>3
  <2>3. CASE o = e
    <3>1. Suspended(o)' /\ ~Suspended(o)
      BY <1>12, <2>3
    <3>2. \A n \in Nat : ~InQueue(o, n) /\ ~InKernel(o, n) /\ ~InCompletions(o, n)
      BY <2>1, <3>1 DEF Somewhere
    <3>3. \A n \in Nat : (InQueue(o, n)' <=> n = last) /\ ~InKernel(o, n)' /\ ~InCompletions(o, n)'
      BY <1>13, <1>14, <2>3, <3>2
    <3>4. NowhereTwice(o)'
      BY <3>3, Zenon DEF NowhereTwice
    <3>5. Somewhere(o)'
      BY <1>3, <3>3, Zenon DEF Somewhere
    <3> QED
      BY <3>1, <3>4, <3>5
  <2> QED
    BY <2>2, <2>3
<1>16. HandlersInv'
  BY <1>1, <1>2, <1>12, <1>14, Zenon DEF HandlersInv
<1> QED
  BY <1>8, <1>15, <1>16

(* The entry is filled with a NOP that inherits no data: no operation moves. *)
LEMMA PrepareNopPlaces ==
  ASSUME IInv, Sane, Sane', PrepareNop
  PROVE  QueueInv' /\ PlacesInv' /\ HandlersInv'
<1> DEFINE last == sqTail - 1
           t == "main"
           data == IF clears THEN Null ELSE sqes[Slot(next[t])].data
<1>1. /\ ThreadTypes /\ QueueInv /\ PlacesInv /\ HandlersInv
      /\ sqTail \in Nat /\ sqHead \in Nat /\ sqTail - sqHead \in 0 .. Entries
      /\ DOMAIN sqes = 0 .. Entries - 1 /\ t \in Threads
  BY DEF IInv, TypeOK, Bounded, Threads
<1>2. /\ pc[t] = "prepare" /\ task[t] = Nop /\ pc' = [pc EXCEPT ![t] = "submit"]
      /\ sqes' = [sqes EXCEPT ![Slot(next[t])] = [req |-> Null, data |-> data]]
      /\ UNCHANGED <<sqHead, sqTail, inflight, cq, call, task, next, pos, callbacks>>
  BY Zenon DEF PrepareNop, coroutines
<1>3. data = Null
  BY Zenon DEF PrepareNop, Sane
<1>4. /\ next[t] = last /\ last \in Nat /\ sqHead <= last
      /\ \A u \in Threads : u # t => pc[u] \notin Submitting
  BY <1>1, <1>2 DEF QueueInv, Submitting, Threads
<1>5. \A u \in Threads : pc'[u] = IF u = t THEN "submit" ELSE pc[u]
  BY <1>1, <1>2 DEF ThreadTypes
<1>6. Slot(last) \in 0 .. Entries - 1 /\ sqes'[Slot(last)].data = Null
  BY <1>1, <1>2, <1>3, <1>4, SlotRange
<1> HIDE DEF data, last
<1>7. QueueInv'
  <2>1. \A u \in Threads : pc'[u] \in Submitting => u = t
    BY <1>4, <1>5 DEF Submitting
  <2>2. next'[t] = sqTail' - 1 /\ sqHead' < sqTail' /\ task'[t] = Nop
    BY <1>1, <1>2, <1>4 DEF last
  <2> QED
    BY <2>1, <2>2 DEF QueueInv, Submitting, Threads
<1>8. Filled = sqHead .. last - 1 /\ Filled' = sqHead .. last
  BY <1>1, <1>2, <1>4, <1>5 DEF Filled, Submitting, last
<1>9. \A n \in sqHead .. last - 1 : sqes'[Slot(n)] = sqes[Slot(n)]
  <2> TAKE n \in sqHead .. last - 1
  <2>1. Slot(n) # Slot(last)
    BY <1>1, <1>4, SlotInjective, EntriesAssumption DEF last
  <2>2. Slot(n) \in 0 .. Entries - 1
    BY <1>1, <1>4, SlotRange, SMTT(30)
  <2> QED
    BY <1>1, <1>2, <1>4, <2>1, <2>2
<1>10. Called' = Called
  BY <1>2, <1>5 DEF Called, Threads
<1>11. \A o \in Ops : Suspended(o)' <=> Suspended(o)
  BY <1>2, <1>5, OpsAre, NopAssumption DEF Suspended
<1>12. \A o \in Ops, n \in Nat : InQueue(o, n)' <=> InQueue(o, n)
  <2> TAKE o \in Ops, n \in Nat
  <2>1. CASE n = last
    <3>1. n \notin Filled /\ o # Null
      BY <1>1, <1>4, <1>8, <2>1, OpsAre
    <3> QED
      BY <1>6, <2>1, <3>1 DEF InQueue
  <2>2. CASE n \in sqHead .. last - 1
    <3>1. n \in Filled' /\ n \in Filled
      BY <1>1, <1>4, <1>8, <2>2
    <3> QED
      BY <1>9, <2>2, <3>1 DEF InQueue
  <2>3. CASE n # last /\ n \notin sqHead .. last - 1
    <3>1. n \notin Filled' /\ n \notin Filled
      BY <1>1, <1>4, <1>8, <2>3
    <3> QED
      BY <3>1 DEF InQueue
  <2> QED
    BY <2>1, <2>2, <2>3
<1>13. /\ \A o \in Ops, n \in Nat : /\ InKernel(o, n)' <=> InKernel(o, n)
                                    /\ InCompletions(o, n)' <=> InCompletions(o, n)
       /\ \A o \in Ops : Handled(o)' <=> Handled(o)
  BY <1>2, <1>10 DEF InKernel, InCompletions, Handled
<1>14. PlacesInv'
  BY <1>1, <1>11, <1>12, <1>13, PlacesStay, Zenon
<1>15. HandlersInv'
  BY <1>1, <1>2, <1>11, <1>13, Zenon DEF HandlersInv
<1> QED
  BY <1>7, <1>14, <1>15

(* The kernel takes entries from the head, in order.                         *)
LEMMA SubmitPlaces ==
  ASSUME IInv, Sane, NEW t \in Threads, Submit(t)
  PROVE  QueueInv' /\ PlacesInv' /\ HandlersInv'
<1> DEFINE Entry == [req : Ops \cup {Null}, data : Ops \cup {Null}]
           k == Len(inflight)
<1>1. /\ TypeOK /\ ThreadTypes /\ MainInv /\ PollInv /\ TaskInv
      /\ QueueInv /\ PlacesInv /\ HandlersInv
      /\ sqTail \in Nat /\ sqHead \in Nat /\ sqTail - sqHead \in 0 .. Entries
      /\ sqes \in [0 .. Entries - 1 -> Entry] /\ inflight \in Seq(Entry)
  BY DEF IInv, TypeOK, Bounded
<1>2. PICK n \in sqHead .. sqTail :
        /\ inflight' = inflight \o [i \in 1 .. n - sqHead |-> sqes[Slot(sqHead + i - 1)]]
        /\ sqHead' = n
  BY DEF Submit
<1>3. /\ pc[t] = "submit" /\ next' = [next EXCEPT ![t] = 0] /\ Return(t)
      /\ UNCHANGED <<sqes, sqTail, cq, pos, callbacks>>
  BY Zenon DEF Submit, coroutines
<1>4. /\ \A u \in Threads : u # t => pc'[u] = pc[u] /\ task'[u] = task[u]
      /\ pc'[t] \notin Entering
      /\ task'[t] = Nop
      /\ t = "poll" => pc'[t] = "seen" /\ call' = call
      /\ t = "main" => /\ (call' = "poll") <=> (call = "poll")
                       /\ call = "poll" => pc'[t] # "wait"
  BY <1>1, <1>3, ReturnIs DEF Threads, Entering
<1>5. \A u \in Threads : u # t => pc[u] \notin Submitting /\ pc'[u] \notin Submitting
  BY <1>1, <1>3, <1>4 DEF QueueInv, Submitting, Threads
<1>6. QueueInv'
  BY <1>4, <1>5 DEF QueueInv, Submitting, Entering, Threads
<1>7. Filled = sqHead .. sqTail - 1 /\ Filled' = n .. sqTail - 1
  <2>1. \A u \in Threads : pc[u] # "prepare" /\ pc'[u] # "prepare"
    BY <1>3, <1>4, <1>5 DEF Submitting, Entering
  <2> QED
    BY <1>2, <1>3, <2>1 DEF Filled
<1>8. Called' = Called
  <2>1. t = "poll" => Called = {1} /\ Called' = {1}
    BY <1>3, <1>4 DEF Called
  <2>2. t = "main" => Called' = Called
    BY <1>3, <1>4 DEF Called, Threads
  <2> QED
    BY <2>1, <2>2 DEF Threads
<1>9. \A o \in Ops : Suspended(o)' <=> Suspended(o)
  <2> TAKE o \in Ops
  <2>1. o[1] # Nop
    BY OpsAre, NopAssumption
  <2> QED
    BY <1>3, <1>4, <2>1 DEF Suspended
<1>10. \A o \in Ops, m \in Nat : InQueue(o, m)' <=> (InQueue(o, m) /\ m >= n)
  BY <1>1, <1>2, <1>3, <1>7 DEF InQueue
<1>11. k \in Nat /\ DOMAIN inflight = 1 .. k
  BY <1>1, LenProperties
<1>12. /\ DOMAIN inflight' = 1 .. k + (n - sqHead)
       /\ \A i \in 1 .. k + (n - sqHead) :
            inflight'[i] = IF i <= k THEN inflight[i] ELSE sqes[Slot(sqHead + (i - k) - 1)]
  <2> DEFINE taken == [i \in 1 .. n - sqHead |-> sqes[Slot(sqHead + i - 1)]]
  <2>1. \A i \in 1 .. n - sqHead : sqes[Slot(sqHead + i - 1)] \in Entry
    BY <1>1, SlotRange, SMTT(30)
  <2>2. n - sqHead \in Nat
    BY <1>1
  <2> HIDE DEF Entry, k
  <2>3. /\ taken \in Seq(Entry) /\ Len(taken) = n - sqHead
        /\ \A i \in 1 .. n - sqHead : taken[i] = sqes[Slot(sqHead + i - 1)]
    BY <2>1, <2>2, IsASeq
  <2> HIDE DEF taken
  <2>4. /\ inflight \o taken \in Seq(Entry)
        /\ Len(inflight \o taken) = Len(inflight) + Len(taken)
        /\ \A i \in 1 .. Len(inflight) + Len(taken) :
             (inflight \o taken)[i] = IF i <= Len(inflight) THEN inflight[i]
                                                            ELSE taken[i - Len(inflight)]
    BY <1>1, <2>3, ConcatProperties
  <2>5. /\ inflight' \in Seq(Entry) /\ Len(inflight') = k + (n - sqHead)
        /\ \A i \in 1 .. k + (n - sqHead) :
             inflight'[i] = IF i <= k THEN inflight[i] ELSE taken[i - k]
    <3>1. inflight' = inflight \o taken /\ Len(inflight) = k /\ Len(taken) = n - sqHead
      BY <1>2, <2>3 DEF taken, k
    <3> QED
      BY <2>4, <3>1
  <2>6. DOMAIN inflight' = 1 .. k + (n - sqHead)
    BY <2>5, LenProperties
  <2>7. \A i \in 1 .. k + (n - sqHead) : i > k => taken[i - k] = sqes[Slot(sqHead + (i - k) - 1)]
    BY <1>11, <2>2, <2>3
  <2> QED
    BY <1>11, <2>2, <2>5, <2>6, <2>7, SMTT(30)
<1> HIDE DEF k, Entry
<1>13. \A o \in Ops, i \in Nat :
         InKernel(o, i)' <=> \/ InKernel(o, i) /\ i \in 1 .. k
                             \/ i \in k + 1 .. k + (n - sqHead) /\ InQueue(o, sqHead + (i - k) - 1)
  <2> TAKE o \in Ops, i \in Nat
  <2>1. CASE i \in 1 .. k
    <3>1. i \in DOMAIN inflight /\ i \in DOMAIN inflight' /\ inflight'[i] = inflight[i]
      BY <1>1, <1>2, <1>11, <1>12, <2>1
    <3>2. i \notin k + 1 .. k + (n - sqHead)
      BY <1>11, <2>1
    <3> QED
      BY <2>1, <3>1, <3>2, Zenon DEF InKernel
  <2>2. CASE i \in k + 1 .. k + (n - sqHead)
    <3>1. /\ i \notin 1 .. k /\ i \in DOMAIN inflight'
          /\ inflight'[i] = sqes[Slot(sqHead + (i - k) - 1)]
      BY <1>1, <1>11, <1>12, <2>2
    <3>2. sqHead + (i - k) - 1 \in Filled
      BY <1>1, <1>2, <1>7, <1>11, <2>2
    <3> QED
      BY <2>2, <3>1, <3>2, Zenon DEF InKernel, InQueue
  <2>3. CASE i \notin 1 .. k /\ i \notin k + 1 .. k + (n - sqHead)
    <3>1. i \notin DOMAIN inflight'
      BY <1>1, <1>11, <1>12, <2>3
    <3> QED
      BY <2>3, <3>1, Zenon DEF InKernel
  <2> QED
    BY <2>1, <2>2, <2>3
<1>14. \A o \in Ops : /\ Handled(o)' <=> Handled(o)
                      /\ \A i \in Nat : InCompletions(o, i)' <=> InCompletions(o, i)
  BY <1>3, <1>8 DEF InCompletions, Handled
<1>15. PlacesInv'
  <2> SUFFICES ASSUME NEW o \in Ops PROVE NowhereTwice(o)' /\ (Somewhere(o)' <=> Suspended(o)')
    BY DEF PlacesInv
  <2>1. NowhereTwice(o) /\ (Somewhere(o) <=> Suspended(o))
    BY <1>1 DEF PlacesInv
  <2>2. \A i \in Nat : i \in k + 1 .. k + (n - sqHead) =>
          sqHead + (i - k) - 1 \in Nat /\ sqHead + (i - k) - 1 < n
    BY <1>1, <1>11
  <2>3. NowhereTwice(o)'
    <3>1. ASSUME NEW i \in Nat, NEW j \in Nat, InKernel(o, i)', InKernel(o, j)' PROVE i = j
      <4>1. CASE InKernel(o, i) /\ InKernel(o, j)
        BY <2>1, <4>1 DEF NowhereTwice
      <4>2. CASE /\ i \in k + 1 .. k + (n - sqHead) /\ InQueue(o, sqHead + (i - k) - 1)
                 /\ j \in k + 1 .. k + (n - sqHead) /\ InQueue(o, sqHead + (j - k) - 1)
        <5>1. sqHead + (i - k) - 1 = sqHead + (j - k) - 1
          BY <2>1, <2>2, <4>2 DEF NowhereTwice
        <5> QED
          BY <1>1, <1>11, <5>1
      <4> QED
        BY <1>13, <2>1, <2>2, <3>1, <4>1, <4>2 DEF NowhereTwice
    <3>2. ASSUME NEW i \in Nat, NEW j \in Nat, InQueue(o, i)', InKernel(o, j)' PROVE FALSE
      <4>1. InQueue(o, i) /\ i >= n
        BY <1>10, <3>2
      <4>2. CASE InKernel(o, j)
        BY <2>1, <4>1, <4>2 DEF NowhereTwice
      <4>3. CASE j \in k + 1 .. k + (n - sqHead) /\ InQueue(o, sqHead + (j - k) - 1)
        <5>1. i = sqHead + (j - k) - 1
          BY <2>1, <2>2, <4>1, <4>3 DEF NowhereTwice
        <5> QED
          BY <1>1, <2>2, <4>1, <4>3, <5>1
      <4> QED
        BY <1>13, <3>2, <4>2, <4>3
    <3>3. ASSUME NEW i \in Nat, NEW j \in Nat, InKernel(o, i)', InCompletions(o, j)' PROVE FALSE
      BY <1>13, <1>14, <2>1, <2>2, <3>3 DEF NowhereTwice
    <3>4. ASSUME NEW i \in Nat, NEW j \in Nat
          PROVE  /\ InQueue(o, i)' /\ InQueue(o, j)' => i = j
                 /\ InCompletions(o, i)' /\ InCompletions(o, j)' => i = j
                 /\ ~(InQueue(o, i)' /\ InCompletions(o, j)')
      BY <1>10, <1>14, <2>1 DEF NowhereTwice
    <3> QED
      BY <3>1, <3>2, <3>3, <3>4, Zenon DEF NowhereTwice
  <2>4. Somewhere(o)' => Somewhere(o)
    BY <1>10, <1>13, <1>14, <2>2 DEF Somewhere
  <2>5. ASSUME Somewhere(o) PROVE Somewhere(o)'
    <3>1. ASSUME NEW m \in Nat, InQueue(o, m) PROVE Somewhere(o)'
      <4>1. CASE m >= n
        BY <1>10, <3>1, <4>1 DEF Somewhere
      <4>2. CASE m < n
        <5>1. m >= sqHead
          BY <1>7, <3>1 DEF InQueue
        <5>2. PICK i \in k + 1 .. k + (n - sqHead) : sqHead + (i - k) - 1 = m
          <6>1. /\ m - sqHead + k + 1 \in k + 1 .. k + (n - sqHead)
                /\ sqHead + ((m - sqHead + k + 1) - k) - 1 = m
            BY <1>1, <1>2, <1>11, <4>2, <5>1
          <6> QED
            BY <6>1
        <5>3. i \in Nat
          BY <1>11, <5>2
        <5>4. InKernel(o, i)'
          BY <1>13, <3>1, <5>2, <5>3
        <5> QED
          BY <5>3, <5>4 DEF Somewhere
      <4> QED
        BY <1>1, <4>1, <4>2
    <3>2. ASSUME NEW i \in Nat, InKernel(o, i) PROVE Somewhere(o)'
      <4>1. i \in 1 .. k
        BY <1>11, <3>2 DEF InKernel
      <4> QED
        BY <1>13, <3>2, <4>1 DEF Somewhere
    <3>3. ASSUME NEW i \in Nat, InCompletions(o, i) PROVE Somewhere(o)'
      BY <1>14, <3>3 DEF Somewhere
    <3> QED
      BY <2>5, <3>1, <3>2, <3>3 DEF Somewhere
  <2> QED
    BY <1>9, <2>1, <2>3, <2>4, <2>5
<1>16. HandlersInv'
  BY <1>1, <1>3, <1>9, <1>14, Zenon DEF HandlersInv
<1> QED
  BY <1>6, <1>15, <1>16

(* The kernel completes one of its requests: the completion is the last.     *)
LEMMA CompletePlaces ==
  ASSUME IInv, Sane, Complete
  PROVE  QueueInv' /\ PlacesInv' /\ HandlersInv'
<1> DEFINE Entry == [req : Ops \cup {Null}, data : Ops \cup {Null}]
           Completion == [data : Ops \cup {Null}, res : {"ok", "err"}]
           m == Len(cq) + 1
<1>1. /\ TypeOK /\ QueueInv /\ PlacesInv /\ HandlersInv /\ CalledInv
      /\ inflight \in Seq(Entry) /\ cq \in Seq(Completion)
  BY DEF IInv, TypeOK
<1>2. PICK x \in DOMAIN inflight, res \in {"ok", "err"} :
        /\ inflight' = RemoveAt(inflight, x)
        /\ cq' = Append(cq, [data |-> inflight[x].data, res |-> res])
        /\ UNCHANGED <<sq, running, looping, pc, call, task, next, coroutines, bounds, past>>
  BY DEF Complete
<1>3. UNCHANGED <<sq, next, pc, call, task, pos, callbacks>>
  BY <1>2 DEF coroutines
<1>4. DOMAIN inflight = 1 .. Len(inflight) /\ Len(inflight) \in Nat /\ inflight[x] \in Entry
  <2> HIDE DEF Entry
  <2> QED
    BY <1>1, LenProperties, ElementOfSeq
<1>5. /\ DOMAIN inflight' = 1 .. Len(inflight) - 1
      /\ \A j \in 1 .. Len(inflight) - 1 :
           inflight'[j] = IF j < x THEN inflight[j] ELSE inflight[j + 1]
  <2> HIDE DEF Entry
  <2>1. x \in 1 .. Len(inflight)
    BY <1>4
  <2>2. /\ inflight' \in Seq(Entry) /\ Len(inflight') = Len(inflight) - 1
        /\ \A j \in 1 .. Len(inflight) - 1 :
             inflight'[j] = IF j < x THEN inflight[j] ELSE inflight[j + 1]
    BY <1>1, <1>2, <2>1, RemoveAtIs
  <2> QED
    BY <2>2, LenProperties
<1>6. /\ m \in Nat \ {0} /\ DOMAIN cq = 1 .. m - 1 /\ DOMAIN cq' = 1 .. m
      /\ cq'[m].data = inflight[x].data /\ \A j \in 1 .. m - 1 : cq'[j] = cq[j]
  <2>1. [data |-> inflight[x].data, res |-> res] \in Completion
    BY <1>4
  <2> HIDE DEF Completion
  <2>2. /\ cq' \in Seq(Completion) /\ Len(cq') = Len(cq) + 1
        /\ \A j \in 1 .. Len(cq) : cq'[j] = cq[j]
        /\ cq'[Len(cq) + 1] = [data |-> inflight[x].data, res |-> res]
    BY <1>1, <1>2, <2>1, AppendProperties
  <2>3. Len(cq) \in Nat /\ DOMAIN cq = 1 .. Len(cq) /\ DOMAIN cq' = 1 .. Len(cq')
    BY <1>1, <2>2, LenProperties
  <2> QED
    BY <2>2, <2>3
<1>7. Called' = Called /\ Called \subseteq 1 .. m - 1
  <2>1. Called' = Called /\ Called \subseteq {1}
    BY <1>3 DEF Called
  <2>2. Called # {} => m - 1 >= 1
    BY <1>1, <1>6, FirstCompletion DEF CalledInv
  <2> QED
    BY <1>6, <2>1, <2>2
<1> HIDE DEF Entry, Completion, m
<1>8. \A t \in Threads : Current(t)' = Current(t)
  BY <1>3 DEF Current
<1>9. /\ QueueInv'
      /\ \A o \in Ops, n \in Nat : InQueue(o, n)' <=> InQueue(o, n)
  BY <1>3, <1>8, QueueStays
<1>10. \A o \in Ops : Suspended(o)' <=> Suspended(o)
  BY <1>3 DEF Suspended
<1>11. \A o \in Ops, j \in Nat :
         InKernel(o, j)' <=> (j < x /\ InKernel(o, j)) \/ (j >= x /\ InKernel(o, j + 1))
  <2> TAKE o \in Ops, j \in Nat
  <2>1. CASE j \in DOMAIN inflight'
    <3>1. j < x => j \in DOMAIN inflight /\ inflight'[j] = inflight[j]
      BY <1>4, <1>5, <2>1
    <3>2. j >= x => j + 1 \in DOMAIN inflight /\ inflight'[j] = inflight[j + 1]
      BY <1>4, <1>5, <2>1
    <3>3. (j < x \/ j >= x) /\ ~(j < x /\ j >= x)
      BY <1>4
    <3> QED
      BY <2>1, <3>1, <3>2, <3>3, Zenon DEF InKernel
  <2>2. CASE j \notin DOMAIN inflight'
    <3>1. (j < x => j \notin DOMAIN inflight) /\ (j >= x => j + 1 \notin DOMAIN inflight)
      BY <1>4, <1>5, <2>2
    <3> QED
      BY <2>2, <3>1, Zenon DEF InKernel
  <2> QED
    BY <2>1, <2>2
<1>12. \A o \in Ops, j \in Nat :
         InCompletions(o, j)' <=> InCompletions(o, j) \/ (j = m /\ InKernel(o, x))
  <2> TAKE o \in Ops, j \in Nat
  <2>1. CASE j = m
    <3>1. m \in DOMAIN cq' \ Called' /\ m \notin DOMAIN cq
      BY <1>6, <1>7
    <3> QED
      BY <1>2, <1>6, <2>1, <3>1, Zenon DEF InCompletions, InKernel
  <2>2. CASE j # m
    <3>1. /\ j \in DOMAIN cq' <=> j \in DOMAIN cq
          /\ j \in DOMAIN cq => cq'[j] = cq[j]
      BY <1>6, <2>2
    <3> QED
      BY <1>7, <2>2, <3>1, Zenon DEF InCompletions
  <2> QED
    BY <2>1, <2>2
<1>13. \A o \in Ops : Handled(o)' <=> Handled(o)
  BY <1>6, <1>7 DEF Handled
<1>14. x \in Nat /\ m \in Nat /\ \A o \in Ops, j \in Nat : InKernel(o, j) => j >= 1
  BY <1>4, <1>6 DEF InKernel
<1>15. PlacesInv'
  <2> SUFFICES ASSUME NEW o \in Ops PROVE NowhereTwice(o)' /\ (Somewhere(o)' <=> Suspended(o)')
    BY DEF PlacesInv
  <2>1. NowhereTwice(o) /\ (Somewhere(o) <=> Suspended(o))
    BY <1>1 DEF PlacesInv
  <2>2. \A j \in Nat : InKernel(o, j)' => \E i \in Nat : InKernel(o, i) /\ i # x
    BY <1>11, <1>14
  <2>3. NowhereTwice(o)'
    <3>1. ASSUME NEW i \in Nat, NEW j \in Nat, InKernel(o, i)', InKernel(o, j)' PROVE i = j
      <4>1. PICK p \in Nat : InKernel(o, p) /\ ((p = i /\ i < x) \/ (p = i + 1 /\ i >= x))
        BY <1>11, <3>1
      <4>2. PICK q \in Nat : InKernel(o, q) /\ ((q = j /\ j < x) \/ (q = j + 1 /\ j >= x))
        BY <1>11, <3>1
      <4>3. p = q
        BY <2>1, <4>1, <4>2, Zenon DEF NowhereTwice
      <4> QED
        BY <1>14, <4>1, <4>2, <4>3
    <3>2. ASSUME NEW i \in Nat, NEW j \in Nat, InKernel(o, i)', InCompletions(o, j)' PROVE FALSE
      <4>1. PICK p \in Nat : InKernel(o, p) /\ p # x
        BY <2>2, <3>2
      <4>2. InCompletions(o, j) \/ InKernel(o, x)
        BY <1>12, <3>2
      <4> QED
        BY <1>14, <2>1, <4>1, <4>2, Zenon DEF NowhereTwice
    <3>3. ASSUME NEW i \in Nat, NEW j \in Nat, InCompletions(o, i)', InCompletions(o, j)' PROVE i = j
      <4>1. /\ InCompletions(o, i) \/ (i = m /\ InKernel(o, x))
            /\ InCompletions(o, j) \/ (j = m /\ InKernel(o, x))
        BY <1>12, <3>3
      <4> QED
        BY <1>14, <2>1, <4>1, Zenon DEF NowhereTwice
    <3>4. ASSUME NEW i \in Nat, NEW j \in Nat, InQueue(o, i)'
          PROVE  /\ InQueue(o, j)' => i = j
                 /\ ~InKernel(o, j)' /\ ~InCompletions(o, j)'
      <4>1. InQueue(o, i) /\ (InQueue(o, j)' <=> InQueue(o, j))
        BY <1>9, <3>4
      <4>2. InKernel(o, j)' => \E p \in Nat : InKernel(o, p)
        BY <2>2
      <4>3. InCompletions(o, j)' => InCompletions(o, j) \/ InKernel(o, x)
        BY <1>12
      <4> QED
        BY <1>14, <2>1, <4>1, <4>2, <4>3, Zenon DEF NowhereTwice
    <3> QED
      BY <3>1, <3>2, <3>3, <3>4, Zenon DEF NowhereTwice
  <2>4. Somewhere(o)' => Somewhere(o)
    <3>1. \A j \in Nat : InQueue(o, j)' => InQueue(o, j)
      BY <1>9
    <3>2. \A j \in Nat : InCompletions(o, j)' => InCompletions(o, j) \/ InKernel(o, x)
      BY <1>12
    <3> QED
      BY <1>14, <2>2, <3>1, <3>2, Zenon DEF Somewhere
  <2>5. ASSUME Somewhere(o) PROVE Somewhere(o)'
    <3>1. ASSUME NEW i \in Nat, InQueue(o, i) PROVE Somewhere(o)'
      <4>1. InQueue(o, i)'
        BY <1>9, <3>1
      <4> QED
        BY <4>1, Zenon DEF Somewhere
    <3>2. ASSUME NEW i \in Nat, InCompletions(o, i) PROVE Somewhere(o)'
      <4>1. InCompletions(o, i)'
        BY <1>12, <3>2
      <4> QED
        BY <4>1, Zenon DEF Somewhere
    <3>3. ASSUME NEW i \in Nat, InKernel(o, i) PROVE Somewhere(o)'
      <4>1. CASE i = x
        <5>1. PICK j \in Nat : j = m
          BY <1>14
        <5>2. InCompletions(o, j)'
          BY <1>12, <3>3, <4>1, <5>1
        <5> QED
          BY <5>2, Zenon DEF Somewhere
      <4>2. CASE i < x
        <5>1. InKernel(o, i)'
          BY <1>11, <3>3, <4>2
        <5> QED
          BY <5>1, Zenon DEF Somewhere
      <4>3. CASE i > x
        <5>1. i - 1 \in Nat /\ i - 1 >= x /\ (i - 1) + 1 = i
          BY <1>14, <4>3
        <5>2. \E j \in Nat : j >= x /\ j + 1 = i
          BY <5>1
        <5>3. PICK j \in Nat : j >= x /\ j + 1 = i
          BY <5>2
        <5>4. InKernel(o, j)'
          BY <1>11, <3>3, <5>3
        <5> QED
          BY <5>4, Zenon DEF Somewhere
      <4> QED
        BY <1>14, <4>1, <4>2, <4>3
    <3> QED
      BY <2>5, <3>1, <3>2, <3>3, Zenon DEF Somewhere
  <2> QED
    BY <1>10, <2>1, <2>3, <2>4, <2>5
<1>16. HandlersInv'
  BY <1>1, <1>3, <1>10, <1>13, Zenon DEF HandlersInv
<1> QED
  BY <1>9, <1>15, <1>16

(* The callback of the first completion resumes the coroutine, whose         *)
(* operation is nowhere any more.                                            *)
LEMMA CallBackPlaces ==
  ASSUME IInv, Sane, NEW t \in Threads, CallBack(t)
  PROVE  QueueInv' /\ PlacesInv' /\ HandlersInv'
<1> DEFINE e == Head(cq).data
           c == e[1]
<1>1. /\ TypeOK /\ ThreadTypes /\ MainInv /\ PollInv /\ TaskInv
      /\ QueueInv /\ PlacesInv /\ HandlersInv
  BY DEF IInv
<1>2. /\ e \in Ops /\ InCompletions(e, 1) /\ Called = {}
      /\ pos[c] = e[2] /\ Active(c) /\ c \in Tasks
      /\ \A u \in Threads : task[u] # c
  BY <1>1, CallBackResumes
<1>3. /\ pc[t] = "wait" /\ cq # <<>> /\ GoOn(t, c, Head(cq).res)
      /\ UNCHANGED <<sq, next, inflight, cq, callbacks>>
  BY DEF CallBack
<1>4. cq[1].data = e /\ 1 \in DOMAIN cq
  BY <1>1, <1>3, FirstCompletion
<1> HIDE DEF e, c
<1>5. PICK to \in {0} \cup DOMAIN Program[c] :
        /\ to = 0 \/ to > pos[c]
        /\ pos' = [pos EXCEPT ![c] = to]
        /\ \/ to = 0 /\ Return(t)
           \/ /\ to # 0
              /\ pc' = [pc EXCEPT ![t] = "get"] /\ task' = [task EXCEPT ![t] = c]
              /\ call' = call
  BY <1>1, <1>2, <1>3, GoOnIs
<1>6. /\ \A d \in Tasks : d # c => pos'[d] = pos[d]
      /\ pos'[c] = to
  BY <1>1, <1>2, <1>5 DEF TypeOK
<1>7. t = "main" => call = "poll"
  BY <1>1, <1>3 DEF MainInv, ThreadTypes, Entering
<1>8. /\ \A u \in Threads : u # t => pc'[u] = pc[u] /\ task'[u] = task[u]
      /\ pc'[t] \in {"get", "seen"} /\ call' = call
      /\ task'[t] \in {c, Nop}
      /\ to # 0 => pc'[t] = "get" /\ task'[t] = c
  <2>1. CASE to = 0
    BY <1>1, <1>3, <1>5, <1>7, <2>1, ReturnIs DEF Threads
  <2>2. CASE to # 0
    BY <1>1, <1>5, <2>2 DEF ThreadTypes, Threads
  <2> QED
    BY <2>1, <2>2
<1>9. \A u \in Threads : pc[u] \in Submitting \/ pc'[u] \in Submitting =>
        pc'[u] = pc[u] /\ task'[u] = task[u] /\ Current(u)' = Current(u)
  <2> TAKE u \in Threads
  <2>1. ASSUME pc[u] \in Submitting \/ pc'[u] \in Submitting
        PROVE  u # t /\ pc'[u] = pc[u] /\ task'[u] = task[u] /\ task[u] # c
    BY <1>2, <1>3, <1>8, <2>1 DEF Submitting
  <2>2. ASSUME task[u] \notin Tasks PROVE pos'[task[u]] = pos[task[u]]
    BY <1>1, <1>2, <1>5, <2>2 DEF TypeOK
  <2> QED
    BY <1>6, <2>1, <2>2 DEF Current
<1>10. /\ QueueInv'
       /\ \A o \in Ops, n \in Nat : InQueue(o, n)' <=> InQueue(o, n)
  BY <1>3, <1>9, QueueStays
<1>11. Called' = {1}
  BY <1>1, <1>7, <1>8 DEF Called, Threads, MainInv
<1>12. \A o \in Ops : Suspended(o)' <=> (Suspended(o) /\ o # e)
  <2> TAKE o \in Ops
  <2>0. o = <<o[1], o[2]>> /\ e = <<e[1], e[2]>>
    BY <1>2, OpsAre, Zenon
  <2>01. o[1] \in Tasks /\ o[2] # 0 /\ o[1] # Nop
    BY OpsAre, NopAssumption, ProgramAssumption, LenProperties
  <2>1. /\ o = <<o[1], o[2]>> /\ o[1] \in Tasks /\ o[2] # 0 /\ o[1] # Nop
        /\ e = <<e[1], e[2]>>
    BY <2>0, <2>01
  <2>2. CASE o[1] = c
    <3>1. ~Suspended(o)'
      BY <1>6, <1>8, <2>1, <2>2 DEF Suspended
    <3>2. Suspended(o) => o = e
      BY <1>2, <2>1, <2>2 DEF Suspended, c
    <3> QED
      BY <3>1, <3>2
  <2>3. CASE o[1] # c
    <3>1. o # e
      BY <2>3 DEF c
    <3>2. /\ \A u \in Threads : (task'[u] = o[1] /\ pc'[u] \in {"get", "prepare"})
                             => (task[u] = o[1] /\ pc[u] \in {"get", "prepare"})
          /\ \A u \in Threads : (task[u] = o[1] /\ pc[u] \in {"get", "prepare"})
                             => (task'[u] = o[1] /\ pc'[u] \in {"get", "prepare"})
      BY <1>3, <1>8, <2>1, <2>3
    <3> QED
      BY <1>6, <2>1, <2>3, <3>1, <3>2 DEF Suspended
  <2> QED
    BY <2>2, <2>3
<1>13. \A o \in Ops, n \in Nat : /\ InKernel(o, n)' <=> InKernel(o, n)
                                 /\ InCompletions(o, n)' <=> (InCompletions(o, n) /\ n # 1)
  BY <1>2, <1>3, <1>11 DEF InKernel, InCompletions
<1>14. Suspended(e)
  BY <1>1, <1>2 DEF PlacesInv, Somewhere
<1>15. PlacesInv'
  <2> SUFFICES ASSUME NEW o \in Ops PROVE NowhereTwice(o)' /\ (Somewhere(o)' <=> Suspended(o)')
    BY DEF PlacesInv
  <2>1. NowhereTwice(o) /\ (Somewhere(o) <=> Suspended(o))
    BY <1>1 DEF PlacesInv
  <2>2. \A n \in Nat : /\ InQueue(o, n)' <=> InQueue(o, n)
                       /\ InKernel(o, n)' <=> InKernel(o, n)
                       /\ InCompletions(o, n)' <=> (InCompletions(o, n) /\ n # 1)
    BY <1>10, <1>13
  <2>3. NowhereTwice(o)'
    BY <2>1, <2>2, Zenon DEF NowhereTwice
  <2>4. CASE o = e
    <3>1. InCompletions(o, 1) /\ 1 \in Nat
      BY <1>2, <2>4
    <3>2. \A n \in Nat : /\ ~InQueue(o, n) /\ ~InKernel(o, n)
                         /\ InCompletions(o, n) => n = 1
      BY <2>1, <3>1, Zenon DEF NowhereTwice
    <3>3. ~Somewhere(o)'
      BY <2>2, <3>2, Zenon DEF Somewhere
    <3> QED
      BY <1>12, <2>3, <2>4, <3>3
  <2>5. CASE o # e
    <3>1. ~InCompletions(o, 1)
      BY <1>4, <2>5 DEF InCompletions
    <3>2. Somewhere(o)' <=> Somewhere(o)
      BY <2>2, <3>1, Zenon DEF Somewhere
    <3> QED
      BY <1>12, <2>1, <2>3, <2>5, <3>2
  <2> QED
    BY <2>4, <2>5
<1>16. HandlersInv'
  <2>1. \A o \in Ops : (Handled(o)' <=> o = e) /\ ~Handled(o)
    BY <1>2, <1>3, <1>4, <1>11 DEF Handled
  <2> QED
    BY <1>1, <1>3, <1>12, <1>14, <2>1, Zenon DEF HandlersInv
<1> QED
  BY <1>10, <1>15, <1>16

(* A completion without data is that of no operation.                        *)
LEMMA NoCallbackPlaces ==
  ASSUME IInv, Sane, NEW t \in Threads, NoCallback(t)
  PROVE  QueueInv' /\ PlacesInv' /\ HandlersInv'
<1>1. /\ TypeOK /\ ThreadTypes /\ MainInv /\ PollInv /\ TaskInv
      /\ QueueInv /\ PlacesInv /\ HandlersInv
  BY DEF IInv
<1>2. /\ pc[t] = "wait" /\ cq # <<>> /\ Head(cq).data = Null /\ Called = {}
      /\ pc' = [pc EXCEPT ![t] = "seen"]
      /\ UNCHANGED <<sq, next, inflight, cq, call, task, pos, callbacks>>
  BY Zenon DEF NoCallback, coroutines
<1>3. \A u \in Threads : pc'[u] = IF u = t THEN "seen" ELSE pc[u]
  BY <1>1, <1>2 DEF ThreadTypes
<1>4. Called = {} /\ cq[1].data = Null
  BY <1>1, <1>2, FirstCompletion
<1>5. Called' \subseteq {1}
  BY DEF Called
<1>6. \A u \in Threads : pc[u] \in Submitting \/ pc'[u] \in Submitting =>
        pc'[u] = pc[u] /\ task'[u] = task[u] /\ Current(u)' = Current(u)
  BY <1>2, <1>3 DEF Submitting, Current
<1>7. /\ QueueInv'
      /\ \A o \in Ops, n \in Nat : InQueue(o, n)' <=> InQueue(o, n)
  BY <1>2, <1>6, QueueStays
<1>8. \A o \in Ops : Suspended(o)' <=> Suspended(o)
  BY <1>2, <1>3 DEF Suspended
<1>9. \A o \in Ops, n \in Nat : /\ InKernel(o, n)' <=> InKernel(o, n)
                                /\ InCompletions(o, n)' <=> InCompletions(o, n)
  BY <1>2, <1>4, <1>5, OpsAre DEF InKernel, InCompletions
<1>10. \A o \in Ops : ~Handled(o) /\ ~Handled(o)'
  BY <1>2, <1>4, <1>5, OpsAre DEF Handled
<1>11. PlacesInv'
  BY <1>1, <1>7, <1>8, <1>9, PlacesStay, Zenon
<1>12. HandlersInv'
  BY <1>1, <1>2, <1>8, <1>10, Zenon DEF HandlersInv
<1> QED
  BY <1>7, <1>11, <1>12

(* The first completion is done with: the callback goes, and its coroutine   *)
(* does not wait for it.                                                     *)
LEMMA SeenPlaces ==
  ASSUME IInv, Sane, NEW t \in Threads, Seen(t)
  PROVE  QueueInv' /\ PlacesInv' /\ HandlersInv'
<1> DEFINE Completion == [data : Ops \cup {Null}, res : {"ok", "err"}]
           d == Head(cq).data
           k == Len(cq)
<1>1. /\ TypeOK /\ ThreadTypes /\ MainInv /\ PollInv /\ TaskInv
      /\ QueueInv /\ PlacesInv /\ HandlersInv /\ CalledInv /\ cq \in Seq(Completion)
  BY DEF IInv, TypeOK
<1>2. /\ pc[t] = "seen" /\ pc' = [pc EXCEPT ![t] = IF t = "poll" THEN "loop" ELSE "wait"]
      /\ callbacks' = callbacks \ {d} /\ cq' = Tail(cq)
      /\ UNCHANGED <<sq, next, inflight, call, task, pos>>
  BY Zenon DEF Seen
<1>3. \A u \in Threads : pc'[u] = IF u = t THEN (IF t = "poll" THEN "loop" ELSE "wait") ELSE pc[u]
  BY <1>1, <1>2 DEF ThreadTypes
<1>4. Called = {1} /\ Called' = {}
  <2>1. Called = {1}
    BY <1>1, <1>2, WhoHandles
  <2>2. Called' = {}
    BY <1>1, <1>2, <1>3 DEF Called, Threads, MainInv, PollInv, ThreadTypes, Entering
  <2> QED
    BY <2>1, <2>2
<1>5. cq # <<>> /\ cq[1].data = d
  BY <1>1, <1>4, FirstCompletion DEF CalledInv
<1>6. /\ k \in Nat \ {0} /\ DOMAIN cq = 1 .. k /\ DOMAIN cq' = 1 .. k - 1
      /\ \A i \in 1 .. k - 1 : cq'[i] = cq[i + 1]
  <2> HIDE DEF Completion
  <2>1. cq' \in Seq(Completion) /\ Len(cq') = Len(cq) - 1 /\ \A i \in 1 .. Len(Tail(cq)) : cq'[i] = cq[i + 1]
    BY <1>1, <1>2, <1>5, HeadTailProperties
  <2>2. k \in Nat \ {0} /\ DOMAIN cq = 1 .. k
    BY <1>1, <1>5, FirstCompletion
  <2>3. DOMAIN cq' = 1 .. Len(cq')
    BY <2>1, LenProperties
  <2> QED
    BY <1>2, <2>1, <2>2, <2>3
<1> HIDE DEF Completion, d, k
<1>7. \A u \in Threads : pc[u] \in Submitting \/ pc'[u] \in Submitting =>
        pc'[u] = pc[u] /\ task'[u] = task[u] /\ Current(u)' = Current(u)
  BY <1>2, <1>3 DEF Submitting, Current
<1>8. /\ QueueInv'
      /\ \A o \in Ops, n \in Nat : InQueue(o, n)' <=> InQueue(o, n)
  BY <1>2, <1>7, QueueStays
<1>9. \A o \in Ops : Suspended(o)' <=> Suspended(o)
  BY <1>2, <1>3 DEF Suspended
<1>10. \A o \in Ops, n \in Nat :
         /\ InKernel(o, n)' <=> InKernel(o, n)
         /\ InCompletions(o, n)' <=> (InCompletions(o, n + 1) /\ n >= 1)
  <2> TAKE o \in Ops, n \in Nat
  <2>1. InKernel(o, n)' <=> InKernel(o, n)
    BY <1>2 DEF InKernel
  <2>2. CASE n \in 1 .. k - 1
    <3>1. /\ n \in DOMAIN cq' \ Called' /\ cq'[n] = cq[n + 1] /\ n >= 1
          /\ n + 1 \in DOMAIN cq \ Called
      BY <1>4, <1>6, <2>2
    <3> QED
      BY <2>1, <3>1, Zenon DEF InCompletions
  <2>3. CASE n \notin 1 .. k - 1
    <3>1. n \notin DOMAIN cq' /\ (n >= 1 => n + 1 \notin DOMAIN cq)
      BY <1>6, <2>3
    <3> QED
      BY <2>1, <3>1, Zenon DEF InCompletions
  <2> QED
    BY <2>2, <2>3
<1>11. \A o \in Ops, n \in Nat : InCompletions(o, n) => n # 1 /\ n # 0
  BY <1>4, <1>6 DEF InCompletions
<1>12. PlacesInv'
  <2> SUFFICES ASSUME NEW o \in Ops PROVE NowhereTwice(o)' /\ (Somewhere(o)' <=> Suspended(o)')
    BY DEF PlacesInv
  <2>1. NowhereTwice(o) /\ (Somewhere(o) <=> Suspended(o))
    BY <1>1 DEF PlacesInv
  <2>2. \A n \in Nat : /\ InQueue(o, n)' <=> InQueue(o, n)
                       /\ InKernel(o, n)' <=> InKernel(o, n)
                       /\ InCompletions(o, n)' <=> (InCompletions(o, n + 1) /\ n >= 1)
                       /\ n + 1 \in Nat
    BY <1>8, <1>10
  <2>3. NowhereTwice(o)'
    <3>1. \A i, j \in Nat : InCompletions(o, i)' /\ InCompletions(o, j)' => i = j
      <4> TAKE i, j \in Nat
      <4>1. InCompletions(o, i)' /\ InCompletions(o, j)' => i + 1 = j + 1
        BY <2>1, <2>2, Zenon DEF NowhereTwice
      <4> QED
        BY <4>1
    <3> QED
      BY <2>1, <2>2, <3>1, Zenon DEF NowhereTwice
  <2>4. Somewhere(o)' => Somewhere(o)
    BY <2>2, Zenon DEF Somewhere
  <2>5. \A i \in Nat : InCompletions(o, i) => \E n \in Nat : InCompletions(o, n)'
    <3> SUFFICES ASSUME NEW i \in Nat, InCompletions(o, i)
                 PROVE  \E n \in Nat : InCompletions(o, n)'
      OBVIOUS
    <3>1. \E n \in Nat : n + 1 = i /\ n >= 1
      <4>1. i - 1 \in Nat /\ (i - 1) + 1 = i /\ i - 1 >= 1
        BY <1>11
      <4> QED
        BY <4>1
    <3> QED
      BY <2>2, <3>1
  <2>6. Somewhere(o) => Somewhere(o)'
    BY <2>2, <2>5, Zenon DEF Somewhere
  <2> QED
    BY <1>9, <2>1, <2>3, <2>4, <2>6
<1>13. HandlersInv'
  <2>1. \A o \in Ops : (Handled(o) <=> o = d) /\ ~Handled(o)'
    BY <1>4, <1>5 DEF Handled
  <2>2. \A o \in Ops : o = d => ~Suspended(o)
    <3> SUFFICES ASSUME NEW o \in Ops, o = d PROVE ~Suspended(o)
      OBVIOUS
    <3>1. pos[o[1]] = 0 \/ pos[o[1]] > o[2]
      BY <1>1, <1>4, <1>5 DEF CalledInv
    <3>2. o[2] \in Nat \ {0}
      BY OpsAre, ProgramAssumption, LenProperties
    <3> QED
      BY <3>1, <3>2 DEF Suspended
  <2>3. \A o \in Ops : (o \in callbacks') <=> (o \in callbacks /\ o # d)
    BY <1>2
  <2> QED
    BY <1>1, <1>9, <2>1, <2>2, <2>3, Zenon DEF HandlersInv
<1> QED
  BY <1>8, <1>12, <1>13

(* A coroutine starts: it does not wait yet.                                 *)
LEMMA LaunchPlaces ==
  ASSUME IInv, Sane, NEW c \in Tasks, Launch(c)
  PROVE  QueueInv' /\ PlacesInv' /\ HandlersInv'
<1>1. /\ TypeOK /\ ThreadTypes /\ MainInv /\ PollInv /\ TaskInv
      /\ QueueInv /\ PlacesInv /\ HandlersInv
  BY DEF IInv
<1>2. /\ pc["main"] = "idle" /\ pos[c] = Fresh /\ pos' = [pos EXCEPT ![c] = 1]
      /\ task' = [task EXCEPT !["main"] = c] /\ call' = "launch"
      /\ pc' = [pc EXCEPT !["main"] = "get"]
      /\ UNCHANGED <<sq, next, inflight, cq, callbacks>>
  BY Zenon DEF Launch
<1>3. /\ \A u \in Threads : /\ pc'[u] = IF u = "main" THEN "get" ELSE pc[u]
                            /\ task'[u] = IF u = "main" THEN c ELSE task[u]
      /\ \A d \in Tasks : pos'[d] = IF d = c THEN 1 ELSE pos[d]
      /\ "main" \in Threads
  BY <1>1, <1>2 DEF ThreadTypes, TypeOK, Threads
<1>4. call = "none" /\ task["main"] = Nop /\ \A u \in Threads : task[u] # c
  BY <1>1, <1>2, NopAssumption DEF MainInv, TaskInv, Active, Entering, Threads
<1>5. \A u \in Threads : pc[u] \in Submitting \/ pc'[u] \in Submitting =>
        pc'[u] = pc[u] /\ task'[u] = task[u] /\ Current(u)' = Current(u)
  <2> TAKE u \in Threads
  <2>1. ASSUME pc[u] \in Submitting \/ pc'[u] \in Submitting
        PROVE  u # "main" /\ pc'[u] = pc[u] /\ task'[u] = task[u] /\ task[u] # c
    BY <1>2, <1>3, <1>4, <2>1 DEF Submitting
  <2>2. ASSUME task[u] \notin Tasks PROVE pos'[task[u]] = pos[task[u]]
    BY <1>1, <1>2, <2>2 DEF TypeOK
  <2> QED
    BY <1>3, <2>1, <2>2 DEF Current
<1>6. /\ QueueInv'
      /\ \A o \in Ops, n \in Nat : InQueue(o, n)' <=> InQueue(o, n)
  BY <1>2, <1>5, QueueStays
<1>7. Called' = Called
  BY <1>2, <1>3, <1>4 DEF Called, Threads
<1>8. \A o \in Ops : Suspended(o)' <=> Suspended(o)
  <2> TAKE o \in Ops
  <2>1. o[1] \in Tasks /\ o[2] \in Nat /\ o[1] # Nop
    BY OpsAre, NopAssumption, ProgramAssumption, LenProperties, SMTT(30)
  <2>2. CASE o[1] = c
    BY <1>2, <1>3, <2>1, <2>2 DEF Suspended, Fresh
  <2>3. CASE o[1] # c
    BY <1>2, <1>3, <1>4, <2>1, <2>3 DEF Suspended
  <2> QED
    BY <2>2, <2>3
<1>9. /\ \A o \in Ops, n \in Nat : /\ InKernel(o, n)' <=> InKernel(o, n)
                                   /\ InCompletions(o, n)' <=> InCompletions(o, n)
      /\ \A o \in Ops : Handled(o)' <=> Handled(o)
  BY <1>2, <1>7 DEF InKernel, InCompletions, Handled
<1>10. PlacesInv'
  BY <1>1, <1>6, <1>8, <1>9, PlacesStay, Zenon
<1>11. HandlersInv'
  BY <1>1, <1>2, <1>8, <1>9, Zenon DEF HandlersInv
<1> QED
  BY <1>6, <1>10, <1>11

(* Together: until two threads meet in the queue, every step keeps it.       *)
LEMMA PlacesStep ==
  ASSUME IInv, Sane, Work, Sane'
  PROVE  QueueInv' /\ PlacesInv' /\ HandlersInv'
<1> DEFINE Goal == QueueInv' /\ PlacesInv' /\ HandlersInv'
<1>0. ThreadTypes /\ MainInv /\ PollInv /\ TaskInv
  BY DEF IInv
<1>1. ASSUME NEW t \in Threads, Submit(t) PROVE Goal
  BY <1>1, SubmitPlaces
<1>2. ASSUME NEW t \in Threads,
             GetSqe(t) \/ QueueFull(t) \/ Prepare(t) \/ CallBack(t) \/ NoCallback(t) \/ Seen(t)
      PROVE  Goal
  BY <1>2, GetSqePlaces, QueueFullPlaces, PreparePlaces, CallBackPlaces, NoCallbackPlaces,
     SeenPlaces
<1>3. ASSUME PrepareNop PROVE Goal
  BY <1>3, PrepareNopPlaces
<1>4. ASSUME Complete PROVE Goal
  BY <1>4, CompletePlaces
<1>5. ASSUME NEW c \in Tasks, Launch(c) PROVE Goal
  BY <1>5, LaunchPlaces
<1> USE DEF Threads, Entering, Submitting
<1>6. ASSUME NoNop PROVE Goal
  <2>1. UNCHANGED <<sq, next, inflight, cq, task, coroutines>>
    BY <1>6, Zenon DEF NoNop
  <2>2. Called' = Called
    BY <1>0, <1>6 DEF NoNop, Called, ThreadTypes, MainInv, PollInv
  <2>3. \A t \in Threads : pc[t] \in Submitting \/ pc'[t] \in Submitting \/ task[t] # Nop =>
          pc'[t] = pc[t]
    BY <1>0, <1>6 DEF NoNop, ThreadTypes, MainInv, PollInv, TaskInv
  <2> QED
    BY <2>1, <2>2, <2>3, QuietStep
<1>7. ASSUME Join PROVE Goal
  <2>1. UNCHANGED <<sq, next, inflight, cq, task, coroutines>>
    BY <1>7, Zenon DEF Join
  <2>2. Called' = Called
    BY <1>0, <1>7 DEF Join, Called, ThreadTypes, MainInv, PollInv
  <2>3. \A t \in Threads : pc[t] \in Submitting \/ pc'[t] \in Submitting \/ task[t] # Nop =>
          pc'[t] = pc[t]
    BY <1>0, <1>7 DEF Join, ThreadTypes, MainInv, PollInv, TaskInv
  <2> QED
    BY <2>1, <2>2, <2>3, QuietStep
<1>8. ASSUME Loop PROVE Goal
  <2>1. UNCHANGED <<sq, next, inflight, cq, task, coroutines>>
    BY <1>8, Zenon DEF Loop
  <2>2. Called' = Called
    BY <1>0, <1>8 DEF Loop, Called, ThreadTypes, MainInv, PollInv
  <2>3. \A t \in Threads : pc[t] \in Submitting \/ pc'[t] \in Submitting \/ task[t] # Nop =>
          pc'[t] = pc[t]
    BY <1>0, <1>8 DEF Loop, ThreadTypes, MainInv, PollInv, TaskInv
  <2> QED
    BY <2>1, <2>2, <2>3, QuietStep
<1>9. ASSUME WaitFails PROVE Goal
  <2>1. UNCHANGED <<sq, next, inflight, cq, task, coroutines>>
    BY <1>9, Zenon DEF WaitFails
  <2>2. Called' = Called
    BY <1>0, <1>9 DEF WaitFails, Called, ThreadTypes, MainInv, PollInv
  <2>3. \A t \in Threads : pc[t] \in Submitting \/ pc'[t] \in Submitting \/ task[t] # Nop =>
          pc'[t] = pc[t]
    BY <1>0, <1>9 DEF WaitFails, ThreadTypes, MainInv, PollInv, TaskInv
  <2> QED
    BY <2>1, <2>2, <2>3, QuietStep
<1>10. ASSUME Start PROVE Goal
  <2>1. UNCHANGED <<sq, next, inflight, cq, task, coroutines>>
    BY <1>10, Zenon DEF Start
  <2>2. Called' = Called
    BY <1>0, <1>10 DEF Start, Called, ThreadTypes, MainInv, PollInv
  <2>3. \A t \in Threads : pc[t] \in Submitting \/ pc'[t] \in Submitting \/ task[t] # Nop =>
          pc'[t] = pc[t]
    BY <1>0, <1>10 DEF Start, ThreadTypes, MainInv, PollInv, TaskInv
  <2> QED
    BY <2>1, <2>2, <2>3, QuietStep
<1>11. ASSUME Stop PROVE Goal
  <2>1. UNCHANGED <<sq, next, inflight, cq, task, coroutines>>
    BY <1>11, Zenon DEF Stop
  <2>2. Called' = Called
    BY <1>0, <1>11 DEF Stop, Called, ThreadTypes, MainInv, PollInv
  <2>3. \A t \in Threads : pc[t] \in Submitting \/ pc'[t] \in Submitting \/ task[t] # Nop =>
          pc'[t] = pc[t]
    BY <1>0, <1>11 DEF Stop, ThreadTypes, MainInv, PollInv, TaskInv
  <2> QED
    BY <2>1, <2>2, <2>3, QuietStep
<1>12. ASSUME PollCompletions PROVE Goal
  <2>1. UNCHANGED <<sq, next, inflight, cq, task, coroutines>>
    BY <1>12, Zenon DEF PollCompletions
  <2>2. Called' = Called
    BY <1>0, <1>12 DEF PollCompletions, Called, ThreadTypes, MainInv, PollInv
  <2>3. \A t \in Threads : pc[t] \in Submitting \/ pc'[t] \in Submitting \/ task[t] # Nop =>
          pc'[t] = pc[t]
    BY <1>0, <1>12 DEF PollCompletions, ThreadTypes, MainInv, PollInv, TaskInv
  <2> QED
    BY <2>1, <2>2, <2>3, QuietStep
<1>13. ASSUME Peeked PROVE Goal
  <2>1. UNCHANGED <<sq, next, inflight, cq, task, coroutines>>
    BY <1>13, Zenon DEF Peeked
  <2>2. Called' = Called
    BY <1>0, <1>13 DEF Peeked, Called, ThreadTypes, MainInv, PollInv
  <2>3. \A t \in Threads : pc[t] \in Submitting \/ pc'[t] \in Submitting \/ task[t] # Nop =>
          pc'[t] = pc[t]
    BY <1>0, <1>13 DEF Peeked, ThreadTypes, MainInv, PollInv, TaskInv
  <2> QED
    BY <2>1, <2>2, <2>3, QuietStep
<1> HIDE DEF Goal, Threads
<1>14. Goal
  BY <1>1, <1>2, <1>3, <1>4, <1>5, <1>6, <1>7, <1>8, <1>9, <1>10, <1>11, <1>12, <1>13, Zenon
     DEF Work
<1> QED
  BY <1>14 DEF Goal
-----------------------------------------------------------------------------
(* None of these steps takes a completion twice.                             *)
LEMMA ConsumerStep == ASSUME Work PROVE UNCHANGED twice
<1> DEFINE Goal == UNCHANGED twice
<1>1. ASSUME NEW t \in Threads,
             GetSqe(t) \/ QueueFull(t) \/ Prepare(t) \/ Submit(t) \/ CallBack(t) \/ NoCallback(t)
               \/ Seen(t)
      PROVE  Goal
  BY <1>1, Zenon DEF past, GetSqe, QueueFull, Prepare, Submit, CallBack, NoCallback, Seen
<1>2. ASSUME PrepareNop \/ NoNop \/ Join \/ Complete \/ Loop \/ WaitFails PROVE Goal
  BY <1>2, Zenon DEF past, PrepareNop, NoNop, Join, Complete, Loop, WaitFails
<1>3. ASSUME Start \/ Stop \/ PollCompletions \/ Peeked \/ \E c \in Tasks : Launch(c) PROVE Goal
  BY <1>3, Zenon DEF past, Start, Stop, PollCompletions, Peeked, Launch
<1> HIDE DEF Goal
<1>4. Goal
  BY <1>1, <1>2, <1>3, Zenon DEF Work
<1> QED
  BY <1>4 DEF Goal

(* A completion is taken twice by the owner and the polling thread.          *)
LEMMA TakenTwiceIs ==
  ASSUME IInv, NEW t \in Threads, TakenTwice(t)
  PROVE  call = "poll" /\ pc["poll"] # "none"
<1>1. /\ pc[t] = "wait" /\ Called # {}
      /\ MainInv /\ PollInv /\ ThreadTypes
  BY DEF TakenTwice, IInv
<1>2. \/ pc["poll"] \in {"get", "prepare", "submit", "seen"}
      \/ call = "poll" /\ pc["main"] # "wait"
  BY <1>1 DEF Called
<1>3. CASE t = "main"
  BY <1>1, <1>2, <1>3 DEF MainInv, ThreadTypes, Entering
<1>4. CASE t = "poll"
  BY <1>1, <1>2, <1>4
<1> QED
  BY <1>3, <1>4 DEF Threads

(* Where only the event loop, or the note that a completion was taken twice, *)
(* may have changed, the rest of the invariant stays.                        *)
LEMMA NothingElse ==
  ASSUME IInv, looping' \in BOOLEAN,
         UNCHANGED <<sqes, sqHead, sqTail, inflight, cq, running, pc, call, task, next, pos,
                     callbacks, clears, starts, raced, stale, serial>>,
         Sane' => Sane, OneConsumer'
  PROVE  IInv'
<1>2. TypeOK' /\ ThreadTypes' /\ MainInv' /\ PollInv' /\ TaskInv'
  BY DEF IInv, TypeOK, ThreadTypes, MainInv, PollInv, TaskInv, Active
<1>3. Called' = Called /\ Filled' = Filled
  BY DEF Called, Filled
<1>4. CalledInv' /\ RingInv' /\ SerialInv'
  BY <1>3 DEF IInv, CalledInv, RingInv, SerialInv, Active
<1>5. Bounded' /\ SerialUseIsSafe' /\ StaleNeedsWraparound'
  BY DEF IInv, Bounded, SerialUseIsSafe, StaleNeedsWraparound
<1>6. ASSUME Sane' PROVE QueueInv' /\ PlacesInv' /\ HandlersInv'
  <2>1. Sane /\ UNCHANGED <<sq, next, inflight, cq, task, coroutines>>
    BY <1>6 DEF sq, coroutines
  <2> QED
    BY <1>3, <2>1, QuietStep
<1> QED
  BY <1>2, <1>4, <1>5, <1>6, Zenon DEF IInv

(* IInv is inductive, for all coroutines, rings and bounds.                  *)
THEOREM Invariance == Spec => []IInv
<1>1. IInv /\ [Next]_vars => IInv'
  <2> SUFFICES ASSUME IInv, [Next]_vars PROVE IInv'
    OBVIOUS
  <2>1. CASE Sane /\ Work
    <3>2. ThreadTypes' /\ MainInv' /\ PollInv' /\ TaskInv' /\ TypeOK' /\ Bounded'
      BY <2>1, ControlStep, RingStep
    <3>3. CalledInv' /\ RingInv' /\ StaleNeedsWraparound' /\ SerialInv' /\ SerialUseIsSafe'
      BY <2>1, CalledStep, WraparoundStep, SerialStep
    <3>4. Sane' => QueueInv' /\ PlacesInv' /\ HandlersInv'
      BY <2>1, PlacesStep
    <3>5. OneConsumer'
      BY <2>1, ConsumerStep DEF Sane, OneConsumer
    <3> QED
      BY <3>2, <3>3, <3>4, <3>5, Zenon DEF IInv
  <2>2. CASE RunLoop
    <3>1. /\ looping' = TRUE
          /\ UNCHANGED <<sqes, sqHead, sqTail, inflight, cq, running, pc, call, task, next, pos,
                         callbacks, clears, starts, raced, stale, serial, twice>>
      BY <2>2, Zenon DEF RunLoop, sq, coroutines, bounds, past
    <3>2. (Sane' => Sane) /\ OneConsumer'
      BY <3>1 DEF Sane, IInv, OneConsumer
    <3> QED
      BY <3>1, <3>2, NothingElse
  <2>3. ASSUME NEW t \in Threads, TakenTwice(t) PROVE IInv'
    <3>1. /\ looping' = looping /\ twice' = TRUE
          /\ UNCHANGED <<sqes, sqHead, sqTail, inflight, cq, running, pc, call, task, next, pos,
                         callbacks, clears, starts, raced, stale, serial>>
      BY <2>3, Zenon DEF TakenTwice, sq, coroutines, bounds, past
    <3>2. (Sane' => Sane) /\ OneConsumer' /\ looping' \in BOOLEAN
      BY <2>3, <3>1, TakenTwiceIs DEF Sane, OneConsumer, IInv, TypeOK
    <3> QED
      BY <3>1, <3>2, NothingElse
  <2>4. CASE UNCHANGED vars
    <3>1. UNCHANGED <<sqes, sqHead, sqTail, inflight, cq, running, looping, pc, call, task, next,
                      pos, callbacks, clears, starts, raced, stale, serial, twice>>
      BY <2>4, Zenon DEF vars, sq, coroutines, bounds, past
    <3>2. (Sane' => Sane) /\ OneConsumer' /\ looping' \in BOOLEAN
      BY <3>1 DEF Sane, IInv, OneConsumer, TypeOK
    <3> QED
      BY <3>1, <3>2, NothingElse
  <2> QED
    BY <2>1, <2>2, <2>3, <2>4 DEF Next, Step
<1> QED
  BY <1>1, IInvInit, PTL DEF Spec

(* What is nowhere twice is in at most one place.                            *)
LEMMA PlacesCounted ==
  ASSUME TypeOK, PlacesInv, NEW o \in Ops
  PROVE  Cardinality(Places(o)) = IF Suspended(o) THEN 1 ELSE 0
<1>1. NowhereTwice(o) /\ (Somewhere(o) <=> Suspended(o))
  BY DEF PlacesInv
<1>2. \A x : x \in Places(o) <=> \/ (\E n \in Nat : x = <<"sq", n>> /\ InQueue(o, n))
                                \/ (\E n \in Nat : x = <<"kernel", n>> /\ InKernel(o, n))
                                \/ (\E n \in Nat : x = <<"cq", n>> /\ InCompletions(o, n))
  <2>1. /\ \A n \in Filled : n \in Nat
        /\ \A n \in DOMAIN inflight : n \in Nat
        /\ \A n \in DOMAIN cq : n \in Nat
    <3>1. /\ DOMAIN inflight = 1 .. Len(inflight) /\ DOMAIN cq = 1 .. Len(cq)
          /\ sqHead \in Nat /\ sqTail \in Nat
      BY LenProperties DEF TypeOK
    <3> QED
      BY <3>1 DEF Filled
  <2> QED
    BY <2>1, Zenon DEF Places, InQueue, InKernel, InCompletions
<1>3. CASE Suspended(o)
  <2>1. PICK x : x \in Places(o)
    BY <1>1, <1>2, <1>3, Zenon DEF Somewhere
  <2>2. ASSUME NEW y, y \in Places(o) PROVE y = x
    <3> DEFINE Either(z) == \/ \E n \in Nat : z = <<"sq", n>> /\ InQueue(o, n)
                            \/ \E n \in Nat : z = <<"kernel", n>> /\ InKernel(o, n)
                            \/ \E n \in Nat : z = <<"cq", n>> /\ InCompletions(o, n)
    <3>0. Either(x) /\ Either(y)
      BY <1>2, <2>1, <2>2, Zenon
    <3>1. CASE \E n \in Nat : x = <<"sq", n>> /\ InQueue(o, n)
      BY <1>1, <3>0, <3>1 DEF NowhereTwice
    <3>2. CASE \E n \in Nat : x = <<"kernel", n>> /\ InKernel(o, n)
      BY <1>1, <3>0, <3>2 DEF NowhereTwice
    <3>3. CASE \E n \in Nat : x = <<"cq", n>> /\ InCompletions(o, n)
      BY <1>1, <3>0, <3>3 DEF NowhereTwice
    <3> QED
      BY <3>0, <3>1, <3>2, <3>3
  <2>3. Places(o) = {x}
    BY <2>1, <2>2
  <2> QED
    BY <1>3, <2>3, FS_Singleton
<1>4. CASE ~Suspended(o)
  <2>1. Places(o) = {}
    BY <1>1, <1>2, <1>4, Zenon DEF Somewhere
  <2> QED
    BY <1>4, <2>1, FS_EmptySet
<1> QED
  BY <1>3, <1>4

(* A coroutine that waits has its operation in exactly one place and its     *)
(* callback alive, one that does not has neither; the ring never holds more  *)
(* than its entries; one coroutine at a time, or no polling thread, never    *)
(* has two threads in the queue; two take completions at once only if        *)
(* poll_completions() is called beside the polling thread; stop() inherits   *)
(* no data before the ring has gone round: UringInv of the run, for all coroutines, rings and bounds.    *)
THEOREM UringCorrect == Spec => []UringInv
<1>1. IInv => UringInv
  <2> SUFFICES ASSUME IInv PROVE UringInv
    OBVIOUS
  <2>1. OnePlace
    BY PlacesCounted, Zenon DEF OnePlace, IInv
  <2>2. CallbacksAlive
    <3> SUFFICES ASSUME Sane
                 PROVE  callbacks = {o \in Ops : Suspended(o)}
                                      \cup ({cq[i].data : i \in Called} \ {Null})
      BY DEF CallbacksAlive
    <3>1. HandlersInv /\ callbacks \subseteq Ops
      BY DEF IInv, TypeOK
    <3>2. ASSUME NEW i \in Called PROVE cq[i].data \in Ops \cup {Null}
      <4>1. i = 1 /\ cq # <<>>
        BY DEF Called, IInv, CalledInv
      <4> QED
        BY <4>1, FirstCompletion DEF IInv
    <3>3. Null \notin Ops
      BY OpsAre
    <3>4. \A x : x \in callbacks =>
            x \in {o \in Ops : Suspended(o)} \cup ({cq[i].data : i \in Called} \ {Null})
      BY <3>1, <3>3, Zenon DEF HandlersInv, Handled
    <3>5. \A x : x \in {o \in Ops : Suspended(o)} \cup ({cq[i].data : i \in Called} \ {Null}) =>
            x \in callbacks
      BY <3>1, <3>2, Zenon DEF HandlersInv, Handled
    <3> QED
      BY <3>4, <3>5
  <2> QED
    BY <2>1, <2>2, Zenon DEF IInv, UringInv
<1> QED
  BY <1>1, Invariance, PTL
=============================================================================
