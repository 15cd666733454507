---------------------------- MODULE ToolboxProofs ----------------------------
(***************************************************************************)
(* What holds of the toolbox's components for all their inputs, beside its *)
(* containers: the generators, the subscriptions of the event bus, the     *)
(* terminal, the talkers, the downloads, the combined file, ducpp and the  *)
(* argument parser.  They share no state, so that what a component does in *)
(* Toolbox is a behaviour of the component.                                *)
(***************************************************************************)
EXTENDS Generator, Subscriptions, Logger, Downloader, Tools, Ducpp, ArgParser,
        ContainerProofs

-----------------------------------------------------------------------------
(* Generators: who owns a frame, and what loops have seen of it.             *)

\* OneOwner for each frame: as long as it lives it has an owner, and no two.
OwnedOnce ==
  /\ \A o, o2 \in Owners : handle[o] = handle[o2] /\ handle[o] # NoFrame => o = o2
  /\ \A f \in Frames : (frame[f] \in {"suspended", "done"}) <=> (\E o \in Owners : handle[o] = f)
  /\ \A f \in Frames : destroyed[f] = IF frame[f] = "destroyed" THEN 1 ELSE 0

GenInv ==
  /\ GenTypeOK /\ OwnedOnce /\ SeesAllInOrder
  /\ loop = "body" => iterator \in Frames
  /\ destroyed \in [Frames -> Int]

(* The numbers up to n, and one more.                                        *)
LEMMA CountingUp ==
  ASSUME NEW n \in Nat, NEW M \in Nat
  PROVE  /\ n <= M => [i \in 1 .. n |-> i] \in Seq(1 .. M)
         /\ Append([i \in 1 .. n |-> i], n + 1) = [i \in 1 .. n + 1 |-> i]
<1> DEFINE s == [i \in 1 .. n |-> i]
<1>1. n <= M => s \in Seq(1 .. M)
  BY IsASeq
<1>2. s \in Seq(Nat) /\ Len(s) = n
  BY IsASeq
<1>3. Append(s, n + 1) = [i \in 1 .. n + 1 |-> IF i = n + 1 THEN n + 1 ELSE s[i]]
  BY <1>2
<1> QED
  BY <1>1, <1>3

(* Before there is a generator the invariant holds.                          *)
LEMMA GenInitInv == GenInit => GenInv
<1> SUFFICES ASSUME GenInit PROVE GenInv
  OBVIOUS
<1>1. \A f \in Frames : f # NoFrame
  BY GeneratorAssumption
<1>2. /\ handle = [o \in Owners |-> NoFrame] /\ frame = [f \in Frames |-> "unborn"]
      /\ currentValue = [f \in Frames |-> 0] /\ exception = [f \in Frames |-> FALSE]
      /\ iterator = NoFrame /\ loop = "none" /\ seen = [f \in Frames |-> <<>>]
      /\ destroyed = [f \in Frames |-> 0]
  BY DEF GenInit
<1>3. GenTypeOK
  <2>1. seen \in [Frames -> Seq(1 .. MaxYields)]
    BY <1>2, EmptySeq
  <2> QED
    BY <1>2, <2>1, GeneratorAssumption DEF GenTypeOK
<1>4. OwnedOnce
  BY <1>1, <1>2 DEF OwnedOnce
<1>5. SeesAllInOrder
  <2>1. [i \in 1 .. 0 |-> i] = <<>>
    OBVIOUS
  <2> QED
    BY <1>2, <2>1 DEF SeesAllInOrder
<1> QED
  BY <1>2, <1>3, <1>4, <1>5 DEF GenInv

(* What begin() and ++ do to a frame that is suspended.                      *)
LEMMA ArriveStep ==
  ASSUME GenInv, NEW f \in Frames, frame[f] = "suspended", Arrive(f),
         UNCHANGED <<handle, destroyed>>
  PROVE  GenInv'
<1>1. /\ GenTypeOK /\ OwnedOnce /\ SeesAllInOrder /\ destroyed \in [Frames -> Int]
      /\ ~exception[f] /\ MaxYields \in Nat
  BY GeneratorAssumption DEF GenInv, SeesAllInOrder, GenTypeOK
<1>2. /\ loop' = IF exception'[f] THEN "threw" ELSE IF frame'[f] = "done" THEN "over" ELSE "body"
      /\ iterator' = IF exception'[f] THEN iterator
                                      ELSE IF frame'[f] = "done" THEN NoFrame ELSE f
      /\ seen' = IF loop' = "body" THEN [seen EXCEPT ![f] = Append(@, currentValue'[f])] ELSE seen
  BY DEF Arrive
<1>3. CASE /\ currentValue[f] < MaxYields
           /\ currentValue' = [currentValue EXCEPT ![f] = @ + 1]
           /\ UNCHANGED <<frame, exception>>
  <2> DEFINE n == currentValue[f]
  <2>1. n \in Nat /\ n + 1 <= MaxYields /\ seen[f] = [i \in 1 .. n |-> i]
    BY <1>1, <1>3 DEF GenTypeOK, SeesAllInOrder
  <2>2. /\ loop' = "body" /\ iterator' = f
        /\ currentValue'[f] = n + 1
        /\ seen' = [seen EXCEPT ![f] = Append(seen[f], n + 1)]
    BY <1>1, <1>2, <1>3 DEF GenTypeOK
  <2> HIDE DEF n
  <2>3. /\ Append(seen[f], n + 1) = [i \in 1 .. n + 1 |-> i]
        /\ Append(seen[f], n + 1) \in Seq(1 .. MaxYields)
    <3>1. Append([i \in 1 .. n |-> i], n + 1) = [i \in 1 .. n + 1 |-> i]
      BY <1>1, <2>1, CountingUp
    <3>2. [i \in 1 .. n + 1 |-> i] \in Seq(1 .. MaxYields)
      BY <1>1, <2>1, CountingUp
    <3> QED
      BY <2>1, <3>1, <3>2
  <2>4. GenTypeOK'
    BY <1>1, <1>3, <2>1, <2>2, <2>3 DEF GenTypeOK, n
  <2>5. OwnedOnce'
    BY <1>1, <1>3 DEF OwnedOnce
  <2>6. SeesAllInOrder'
    <3>1. \A g \in Frames : seen'[g] = [i \in 1 .. currentValue'[g] |-> i]
      <4> TAKE g \in Frames
      <4>1. CASE g = f
        BY <1>1, <2>2, <2>3, <4>1, Zenon DEF GenTypeOK
      <4>2. CASE g # f
        <5>1. seen'[g] = seen[g] /\ currentValue'[g] = currentValue[g]
          BY <1>1, <1>3, <2>2, <4>2 DEF GenTypeOK
        <5> QED
          BY <1>1, <5>1 DEF SeesAllInOrder
      <4> QED
        BY <4>1, <4>2
    <3>2. \A g \in Frames : exception'[g] => frame'[g] \in {"done", "destroyed"}
      BY <1>1, <1>3 DEF SeesAllInOrder
    <3> QED
      BY <1>1, <1>3, <2>2, <3>1, <3>2 DEF SeesAllInOrder
  <2> QED
    BY <1>1, <2>2, <2>4, <2>5, <2>6 DEF GenInv
<1>4. CASE /\ frame' = [frame EXCEPT ![f] = "done"]
           /\ exception' \in {exception, [exception EXCEPT ![f] = TRUE]}
           /\ UNCHANGED currentValue
  <2>1. /\ frame'[f] = "done" /\ \A g \in Frames : g # f => frame'[g] = frame[g]
        /\ \A g \in Frames : g # f => exception'[g] = exception[g]
        /\ loop' \in {"over", "threw"} /\ iterator' \in {iterator, NoFrame}
        /\ seen' = seen
    BY <1>1, <1>2, <1>4 DEF GenTypeOK
  <2>2. GenTypeOK'
    BY <1>1, <1>4, <2>1 DEF GenTypeOK
  <2>3. OwnedOnce'
    BY <1>1, <2>1 DEF OwnedOnce
  <2>4. SeesAllInOrder'
    BY <1>1, <1>4, <2>1 DEF SeesAllInOrder
  <2> QED
    BY <1>1, <2>1, <2>2, <2>3, <2>4 DEF GenInv
<1> QED
  BY <1>3, <1>4 DEF Arrive, Resume

(* A generator that gives up its frame, for another's or for none.           *)
LEMMA GiveUpStep ==
  ASSUME GenInv, NEW o \in Owners, ~InLoop(o),
         (\E o2 \in Owners : MoveAssign(o, o2)) \/ Destroy(o)
  PROVE  GenInv'
<1> DEFINE f == handle[o]
<1>1. /\ GenTypeOK /\ OwnedOnce /\ SeesAllInOrder /\ destroyed \in [Frames -> Int]
      /\ \A g \in Frames : g # NoFrame
  BY GeneratorAssumption DEF GenInv
<1>2. /\ \A g \in Frames : /\ frame'[g] = IF g = f THEN "destroyed" ELSE frame[g]
                           /\ destroyed'[g] = destroyed[g] + IF g = f THEN 1 ELSE 0
      /\ frame' \in [Frames -> {"unborn", "suspended", "done", "destroyed"}]
      /\ destroyed' \in [Frames -> Int]
      /\ UNCHANGED <<currentValue, exception, iterator, loop, seen>>
  <2>1. CASE \E o2 \in Owners : MoveAssign(o, o2)
    BY <1>1, <2>1 DEF MoveAssign, GenTypeOK
  <2>2. CASE Destroy(o)
    <3>1. f \in Frames
      BY <1>1, <2>2 DEF Destroy, GenTypeOK
    <3>2. /\ frame' = [frame EXCEPT ![f] = "destroyed"]
          /\ destroyed' = [destroyed EXCEPT ![f] = destroyed[f] + 1]
          /\ UNCHANGED <<currentValue, exception, iterator, loop, seen>>
      BY <2>2 DEF Destroy
    <3>3. frame \in [Frames -> {"unborn", "suspended", "done", "destroyed"}]
      BY <1>1 DEF GenTypeOK
    <3> HIDE DEF f
    <3> QED
      BY <1>1, <3>1, <3>2, <3>3
  <2> QED
    BY <2>1, <2>2
<1>3. /\ handle' \in [Owners -> Frames \cup {NoFrame}]
      /\ \A g \in Frames : g # f =>
           ((\E x \in Owners : handle'[x] = g) <=> (\E x \in Owners : handle[x] = g))
      /\ f # NoFrame => \A x \in Owners : handle'[x] # f
      /\ \A x, y \in Owners : handle'[x] = handle'[y] /\ handle'[x] # NoFrame => x = y
  <2>1. CASE \E o2 \in Owners : MoveAssign(o, o2)
    <3>1. PICK o2 \in Owners : MoveAssign(o, o2)
      BY <2>1
    <3>2. /\ o # o2 /\ handle' \in [Owners -> Frames \cup {NoFrame}]
          /\ \A x \in Owners : handle'[x] = IF x = o2 THEN NoFrame
                                            ELSE IF x = o THEN handle[o2] ELSE handle[x]
      BY <1>1, <3>1 DEF MoveAssign, GenTypeOK
    <3>3. \A g \in Frames : g # f =>
            ((\E x \in Owners : handle'[x] = g) <=> (\E x \in Owners : handle[x] = g))
      <4> SUFFICES ASSUME NEW g \in Frames, g # f
                   PROVE  (\E x \in Owners : handle'[x] = g) <=> (\E x \in Owners : handle[x] = g)
        OBVIOUS
      <4>1. ASSUME NEW x \in Owners, handle'[x] = g PROVE \E y \in Owners : handle[y] = g
        BY <1>1, <3>2, <4>1
      <4>2. ASSUME NEW x \in Owners, handle[x] = g PROVE \E y \in Owners : handle'[y] = g
        <5>1. CASE x = o2
          BY <3>2, <4>2, <5>1
        <5>2. CASE x # o2
          BY <3>2, <4>2, <5>2
        <5> QED
          BY <5>1, <5>2
      <4> QED
        BY <4>1, <4>2
    <3>4. \A x, y \in Owners : handle'[x] = handle'[y] /\ handle'[x] # NoFrame => x = y
      BY <1>1, <3>2 DEF OwnedOnce
    <3>5. f # NoFrame => \A x \in Owners : handle'[x] # f
      BY <1>1, <3>2 DEF OwnedOnce
    <3> QED
      BY <3>2, <3>3, <3>4, <3>5
  <2>2. CASE Destroy(o)
    <3>1. /\ handle' \in [Owners -> Frames \cup {NoFrame}] /\ f # NoFrame
          /\ \A x \in Owners : handle'[x] = IF x = o THEN NoFrame ELSE handle[x]
      BY <1>1, <2>2 DEF Destroy, GenTypeOK
    <3> QED
      BY <1>1, <3>1 DEF OwnedOnce
  <2> QED
    BY <2>1, <2>2
<1>4. f \in Frames => frame[f] \in {"suspended", "done"}
  BY <1>1 DEF OwnedOnce
<1>5. loop = "body" => iterator # f
  BY DEF InLoop
<1> HIDE DEF f
<1>6. GenTypeOK'
  BY <1>1, <1>2, <1>3 DEF GenTypeOK
<1>7. OwnedOnce'
  <2>1. \A g \in Frames : (frame'[g] \in {"suspended", "done"})
                             <=> (\E x \in Owners : handle'[x] = g)
    BY <1>1, <1>2, <1>3 DEF OwnedOnce
  <2>2. \A g \in Frames : destroyed'[g] = IF frame'[g] = "destroyed" THEN 1 ELSE 0
    BY <1>1, <1>2, <1>4 DEF OwnedOnce
  <2> QED
    BY <1>3, <2>1, <2>2 DEF OwnedOnce
<1>8. SeesAllInOrder'
  <2>1. loop = "body" => iterator \in Frames
    BY DEF GenInv
  <2> QED
    BY <1>1, <1>2, <1>5, <2>1 DEF SeesAllInOrder
<1> QED
  BY <1>2, <1>6, <1>7, <1>8 DEF GenInv

(* Each step of an owner and of the loop preserves it.                       *)
LEMMA GenStep == GenInv /\ (GenNext \/ UNCHANGED genVars) => GenInv'
<1> SUFFICES ASSUME GenInv, GenNext \/ UNCHANGED genVars PROVE GenInv'
  OBVIOUS
<1>0. /\ GenTypeOK /\ OwnedOnce /\ SeesAllInOrder /\ destroyed \in [Frames -> Int]
      /\ loop = "body" => iterator \in Frames
      /\ \A f \in Frames : f # NoFrame
  BY GeneratorAssumption DEF GenInv
<1>1. ASSUME NEW o \in Owners, Create(o) PROVE GenInv'
  <2>1. PICK f \in Frames : /\ frame[f] = "unborn" /\ handle[o] = NoFrame
                            /\ frame' = [frame EXCEPT ![f] = "suspended"]
                            /\ handle' = [handle EXCEPT ![o] = f]
    BY <1>1 DEF Create
  <2>2. UNCHANGED <<currentValue, exception, iterator, loop, seen, destroyed>>
    BY <1>1 DEF Create
  <2>3. /\ \A g \in Frames : frame'[g] = IF g = f THEN "suspended" ELSE frame[g]
        /\ \A x \in Owners : handle'[x] = IF x = o THEN f ELSE handle[x]
    BY <1>0, <2>1 DEF GenTypeOK
  <2>4. GenTypeOK'
    BY <1>0, <2>1, <2>2 DEF GenTypeOK
  <2>5. \A x \in Owners : handle[x] # f
    BY <1>0, <2>1 DEF OwnedOnce
  <2>6. OwnedOnce'
    <3>1. \A x, y \in Owners : handle'[x] = handle'[y] /\ handle'[x] # NoFrame => x = y
      BY <1>0, <2>3, <2>5 DEF OwnedOnce
    <3>2. ASSUME NEW g \in Frames
          PROVE  (frame'[g] \in {"suspended", "done"}) <=> (\E x \in Owners : handle'[x] = g)
      <4>1. CASE g = f
        BY <2>3, <4>1
      <4>2. CASE g # f
        BY <1>0, <2>1, <2>3, <4>2 DEF OwnedOnce
      <4> QED
        BY <4>1, <4>2
    <3>3. \A g \in Frames : destroyed'[g] = IF frame'[g] = "destroyed" THEN 1 ELSE 0
      BY <1>0, <2>1, <2>2, <2>3 DEF OwnedOnce
    <3> QED
      BY <3>1, <3>2, <3>3 DEF OwnedOnce
  <2>7. SeesAllInOrder'
    BY <1>0, <2>1, <2>2, <2>3 DEF SeesAllInOrder
  <2> QED
    BY <1>0, <2>2, <2>4, <2>6, <2>7 DEF GenInv
<1>2. ASSUME NEW o \in Owners, Begin(o) PROVE GenInv'
  <2>1. CASE handle[o] = NoFrame
    <3>1. loop' = "over" /\ UNCHANGED <<handle, frame, currentValue, exception, iterator, seen,
                                        destroyed>>
      BY <1>2, <2>1 DEF Begin
    <3> QED
      BY <1>0, <3>1 DEF GenInv, GenTypeOK, OwnedOnce, SeesAllInOrder
  <2>2. CASE handle[o] # NoFrame
    <3>1. handle[o] \in Frames
      BY <1>0, <2>2 DEF GenTypeOK
    <3>2. frame[handle[o]] = "suspended" /\ Arrive(handle[o]) /\ UNCHANGED <<handle, destroyed>>
      BY <1>2, <2>2 DEF Begin
    <3> QED
      BY <3>1, <3>2, ArriveStep
  <2> QED
    BY <2>1, <2>2
<1>3. ASSUME Advance PROVE GenInv'
  <2>1. loop = "body" /\ Arrive(iterator) /\ UNCHANGED <<handle, destroyed>>
    BY <1>3 DEF Advance
  <2>2. iterator \in Frames /\ frame[iterator] = "suspended"
    BY <1>0, <2>1 DEF SeesAllInOrder
  <2> QED
    BY <2>1, <2>2, ArriveStep
<1>4. ASSUME EndLoop PROVE GenInv'
  BY <1>0, <1>4 DEF EndLoop, GenInv, GenTypeOK, OwnedOnce, SeesAllInOrder
<1>5. ASSUME NEW o \in Owners, Destroy(o) PROVE GenInv'
  BY <1>5, GiveUpStep DEF Destroy
<1>6. ASSUME NEW o \in Owners, NEW o2 \in Owners, ~InLoop(o), MoveAssign(o, o2) PROVE GenInv'
  BY <1>6, GiveUpStep
<1>7. ASSUME UNCHANGED genVars PROVE GenInv'
  BY <1>0, <1>7 DEF genVars, GenInv, GenTypeOK, OwnedOnce, SeesAllInOrder
<1> QED
  BY <1>1, <1>2, <1>3, <1>4, <1>5, <1>6, <1>7 DEF GenNext

(* However generators are created, moved, iterated over and destroyed, a     *)
(* frame that lives has exactly one owner and is destroyed once, and loops   *)
(* see every value that the body yields, once and in order.                  *)
THEOREM GeneratorSafe == GenSpec => []GeneratorCorrect
<1>1. GenInv /\ [GenNext]_genVars => GenInv'
  BY GenStep, Zenon
<1>2. GenInv => GeneratorCorrect
  <2> SUFFICES ASSUME GenInv, NEW f \in Frames, frame[f] \in {"suspended", "done"}
               PROVE  Cardinality({o \in Owners : handle[o] = f}) = 1
    <3>1. GenInv => \A f \in Frames : (frame[f] \in {"unborn", "destroyed"} =>
                                         \A o \in Owners : handle[o] # f)
      BY DEF GenInv, OwnedOnce
    <3> QED
      BY <3>1 DEF GenInv, GeneratorCorrect, OneOwner, OwnedOnce
  <2>1. PICK o \in Owners : handle[o] = f
    BY DEF GenInv, OwnedOnce
  <2>2. {x \in Owners : handle[x] = f} = {o}
    BY <2>1, GeneratorAssumption DEF GenInv, OwnedOnce
  <2> QED
    BY <2>2, FS_Singleton
<1> QED
  BY <1>1, <1>2, GenInitInv, PTL DEF GenSpec

-----------------------------------------------------------------------------
(* Subscriptions: what publications call while the list of handlers grows.   *)

\* The handlers that are left to a publication are those it found, where they were: the list
\* only grows behind them. What was called is a part of them, as long as i says.
CallsUpTo(t) ==
  /\ Len(called[t]) <= Len(handlersBefore[t])
  /\ \A k \in 1 .. Len(called[t]) : called[t][k] = handlersBefore[t][k]
  /\ pc[t] = "idle" => called[t] = handlersBefore[t]
  /\ pc[t] \in {"begin", "end"} => /\ cursor[t].i = 0
                                   /\ called[t] = <<>>
                                   /\ handlersBefore[t] = <<>>
  /\ pc[t] \in {"next", "calling"} =>
       /\ cursor[t].end = Len(handlersBefore[t])
       /\ Len(handlersBefore[t]) <= Len(callbacks)
       /\ \A k \in 1 .. Len(handlersBefore[t]) : callbacks[k] = handlersBefore[t][k]
       /\ cursor[t].i <= cursor[t].end
       /\ pc[t] = "next" => Len(called[t]) = cursor[t].i
       /\ pc[t] = "calling" => Len(called[t]) = cursor[t].i + 1

IterInv == SubTypeOK /\ \A t \in Threads : CallsUpTo(t)

(* Nobody has published, and nobody has subscribed.                          *)
LEMMA IterInitInv == SubInit => IterInv
<1> SUFFICES ASSUME SubInit PROVE IterInv
  OBVIOUS
<1>1. /\ listed = FALSE /\ callbacks = <<>> /\ buffer = 0 /\ capacity = 0
      /\ pc = [t \in Threads |-> "idle"] /\ cursor = [t \in Threads |-> NoIter]
      /\ called = [t \in Threads |-> <<>>] /\ handlersBefore = [t \in Threads |-> <<>>]
      /\ count = [t \in Threads |-> 0]
  BY Zenon DEF SubInit
<1>2. <<>> \in Seq(Handlers) /\ Len(<<>>) = 0
  OBVIOUS
<1>3. NoIter \in [buf : Nat, end : Nat, i : Nat]
  BY DEF NoIter
<1>4. SubTypeOK
  <2>1. listed \in BOOLEAN /\ callbacks \in Seq(Handlers) /\ Len(callbacks) = 0
    BY <1>1, <1>2
  <2>2. buffer \in Nat /\ capacity \in Nat /\ Len(callbacks) <= capacity
    BY <1>1, <2>1
  <2>3. /\ called \in [Threads -> Seq(Handlers)] /\ handlersBefore \in [Threads -> Seq(Handlers)]
        /\ cursor \in [Threads -> [buf : Nat, end : Nat, i : Nat]]
    BY <1>1, <1>2, <1>3, Zenon
  <2>4. /\ pc \in [Threads -> {"idle", "begin", "end", "next", "calling", "undefined"}]
        /\ count \in [Threads -> 0 .. MaxPublish]
    BY <1>1, MaxPublishAssumption
  <2> QED
    BY <2>1, <2>2, <2>3, <2>4 DEF SubTypeOK
<1>5. \A t \in Threads : CallsUpTo(t)
  BY <1>1, <1>2 DEF CallsUpTo
<1> QED
  BY <1>4, <1>5 DEF IterInv

(* A thread's step leaves to the others what they know; a subscription only  *)
(* adds to what they iterate over.                                           *)
LEMMA OthersIterate ==
  ASSUME IterInv, NEW t \in Threads,
         pc'[t] = pc[t], cursor'[t] = cursor[t], called'[t] = called[t],
         handlersBefore'[t] = handlersBefore[t],
         \/ UNCHANGED callbacks
         \/ \E h \in Handlers : callbacks' = Append(callbacks, h)
  PROVE  CallsUpTo(t)'
<1>1. /\ callbacks \in Seq(Handlers) /\ handlersBefore[t] \in Seq(Handlers)
      /\ CallsUpTo(t)
  BY DEF IterInv, SubTypeOK
<1>2. /\ Len(callbacks) <= Len(callbacks')
      /\ \A k \in 1 .. Len(callbacks) : callbacks'[k] = callbacks[k]
  <2>1. CASE UNCHANGED callbacks
    BY <1>1, <2>1
  <2>2. CASE \E h \in Handlers : callbacks' = Append(callbacks, h)
    BY <1>1, <2>2
  <2> QED
    BY <2>1, <2>2
<1>3. Len(callbacks) \in Nat /\ Len(callbacks') \in Nat /\ Len(handlersBefore[t]) \in Nat
  <2>1. callbacks' \in Seq(Handlers)
    BY <1>1, SMTT(30)
  <2> QED
    BY <1>1, <2>1
<1>4. pc[t] \in {"next", "calling"} =>
        /\ Len(handlersBefore[t]) <= Len(callbacks')
        /\ \A k \in 1 .. Len(handlersBefore[t]) : callbacks'[k] = handlersBefore[t][k]
  BY <1>1, <1>2, <1>3 DEF CallsUpTo
<1> QED
  BY <1>1, <1>4 DEF CallsUpTo

(* Every step of a publication, and a subscription, keep it.                 *)
LEMMA IterStep == IterInv /\ (SubNext \/ UNCHANGED subVars) => IterInv'
<1> SUFFICES ASSUME IterInv, SubNext \/ UNCHANGED subVars PROVE IterInv'
  OBVIOUS
<1>0. /\ SubTypeOK /\ \A t \in Threads : CallsUpTo(t)
      /\ MaxPublish \in Nat
  BY MaxPublishAssumption DEF IterInv
<1>a. <<>> \in Seq(Handlers) /\ Len(<<>>) = 0
  OBVIOUS
<1>1. ASSUME NEW t \in Threads, GetHandlers(t) PROVE IterInv'
  <2>1. /\ pc' = [pc EXCEPT ![t] = IF listed THEN "begin" ELSE "idle"]
        /\ count[t] < MaxPublish /\ count' = [count EXCEPT ![t] = @ + 1]
        /\ called' = [called EXCEPT ![t] = <<>>]
        /\ handlersBefore' = [handlersBefore EXCEPT ![t] = <<>>]
        /\ cursor' = [cursor EXCEPT ![t] = NoIter]
        /\ UNCHANGED <<listed, callbacks, buffer, capacity>>
    BY <1>1 DEF GetHandlers, registryVars
  <2>2. NoIter \in [buf : Nat, end : Nat, i : Nat] /\ NoIter.i = 0
    BY DEF NoIter
  <2>3. SubTypeOK'
    <3>1. /\ pc' \in [Threads -> {"idle", "begin", "end", "next", "calling", "undefined"}]
          /\ count' \in [Threads -> 0 .. MaxPublish]
      BY <1>0, <2>1 DEF SubTypeOK
    <3>2. called' \in [Threads -> Seq(Handlers)] /\ handlersBefore' \in [Threads -> Seq(Handlers)]
      BY <1>0, <1>a, <2>1 DEF SubTypeOK
    <3>3. cursor' \in [Threads -> [buf : Nat, end : Nat, i : Nat]]
      BY <1>0, <2>1, <2>2 DEF SubTypeOK
    <3>4. UNCHANGED <<listed, callbacks, buffer, capacity>>
      BY <2>1
    <3> QED
      BY <1>0, <3>1, <3>2, <3>3, <3>4, Zenon DEF SubTypeOK
  <2>4. CallsUpTo(t)'
    <3>1. /\ called'[t] = <<>> /\ handlersBefore'[t] = <<>> /\ cursor'[t].i = 0
          /\ pc'[t] \in {"begin", "idle"}
      BY <1>0, <2>1, <2>2 DEF SubTypeOK
    <3> QED
      BY <1>a, <3>1 DEF CallsUpTo
  <2>5. ASSUME NEW r \in Threads, r # t PROVE CallsUpTo(r)'
    BY <1>0, <2>1, <2>5, OthersIterate DEF SubTypeOK
  <2> QED
    BY <2>3, <2>4, <2>5 DEF IterInv
<1>2. ASSUME NEW t \in Threads, ReadBegin(t) PROVE IterInv'
  <2>1. /\ pc[t] = "begin" /\ pc' = [pc EXCEPT ![t] = "end"]
        /\ cursor' = [cursor EXCEPT ![t].buf = buffer]
        /\ UNCHANGED <<listed, callbacks, buffer, capacity, called, handlersBefore, count>>
    BY <1>2 DEF ReadBegin, registryVars
  <2>2. /\ cursor' \in [Threads -> [buf : Nat, end : Nat, i : Nat]]
        /\ cursor'[t].i = cursor[t].i
    BY <1>0, <2>1 DEF SubTypeOK
  <2>3. SubTypeOK'
    BY <1>0, <2>1, <2>2 DEF SubTypeOK
  <2>4. CallsUpTo(t)'
    <3>1. pc'[t] = "end"
      BY <1>0, <2>1 DEF SubTypeOK
    <3> QED
      BY <1>0, <1>a, <2>1, <2>2, <3>1 DEF CallsUpTo
  <2>5. ASSUME NEW r \in Threads, r # t PROVE CallsUpTo(r)'
    BY <1>0, <2>1, <2>5, OthersIterate DEF SubTypeOK
  <2> QED
    BY <2>3, <2>4, <2>5 DEF IterInv
<1>3. ASSUME NEW t \in Threads, ReadEnd(t) PROVE IterInv'
  <2>1. pc[t] = "end" /\ UNCHANGED <<listed, callbacks, buffer, capacity, called, count>>
    BY <1>3 DEF ReadEnd, registryVars
  <2>2. \/ pc' = [pc EXCEPT ![t] = "undefined"] /\ UNCHANGED <<cursor, handlersBefore>>
        \/ /\ pc' = [pc EXCEPT ![t] = "next"]
           /\ cursor' = [cursor EXCEPT ![t].end = Len(callbacks)]
           /\ handlersBefore' = [handlersBefore EXCEPT ![t] = callbacks]
    BY <1>3 DEF ReadEnd
  <2>3. ASSUME NEW r \in Threads, r # t PROVE CallsUpTo(r)'
    BY <1>0, <2>1, <2>2, <2>3, OthersIterate DEF SubTypeOK
  <2>4. called[t] = <<>> /\ cursor[t].i = 0 /\ Len(callbacks) \in Nat
    BY <1>0, <2>1 DEF CallsUpTo, SubTypeOK
  <2>5. CASE pc' = [pc EXCEPT ![t] = "undefined"] /\ UNCHANGED <<cursor, handlersBefore>>
    <3>1. pc'[t] = "undefined"
      BY <1>0, <2>5 DEF SubTypeOK
    <3>2. SubTypeOK'
      BY <1>0, <2>1, <2>5 DEF SubTypeOK
    <3>3. CallsUpTo(t)'
      BY <1>0, <2>1, <2>5, <3>1 DEF CallsUpTo
    <3> QED
      BY <2>3, <3>2, <3>3 DEF IterInv
  <2>6. CASE /\ pc' = [pc EXCEPT ![t] = "next"]
             /\ cursor' = [cursor EXCEPT ![t].end = Len(callbacks)]
             /\ handlersBefore' = [handlersBefore EXCEPT ![t] = callbacks]
    <3>1. /\ pc'[t] = "next" /\ handlersBefore'[t] = callbacks
          /\ cursor' \in [Threads -> [buf : Nat, end : Nat, i : Nat]]
          /\ cursor'[t].end = Len(callbacks) /\ cursor'[t].i = 0
      BY <1>0, <2>4, <2>6 DEF SubTypeOK
    <3>2. SubTypeOK'
      BY <1>0, <2>1, <2>6, <3>1 DEF SubTypeOK
    <3>3. CallsUpTo(t)'
      BY <1>a, <2>1, <2>4, <3>1 DEF CallsUpTo
    <3> QED
      BY <2>3, <3>2, <3>3 DEF IterInv
  <2> QED
    BY <2>2, <2>5, <2>6
<1>4. ASSUME NEW t \in Threads, StepOrEnd(t) PROVE IterInv'
  <2>1. /\ pc[t] = "next"
        /\ UNCHANGED <<listed, callbacks, buffer, capacity, cursor, handlersBefore, count>>
    BY <1>4 DEF StepOrEnd, registryVars
  <2> DEFINE n == cursor[t].i
  <2>2. \/ pc' = [pc EXCEPT ![t] = "undefined"] /\ UNCHANGED called
        \/ n = cursor[t].end /\ pc' = [pc EXCEPT ![t] = "idle"] /\ UNCHANGED called
        \/ /\ n < cursor[t].end /\ pc' = [pc EXCEPT ![t] = "calling"]
           /\ called' = [called EXCEPT ![t] = Append(called[t], callbacks[n + 1])]
    BY <1>4 DEF StepOrEnd
  <2>3. /\ n \in Nat /\ cursor[t].end \in Nat /\ cursor[t].end = Len(handlersBefore[t])
        /\ called[t] \in Seq(Handlers) /\ handlersBefore[t] \in Seq(Handlers)
        /\ Len(called[t]) = n /\ n <= cursor[t].end
        /\ Len(handlersBefore[t]) <= Len(callbacks) /\ callbacks \in Seq(Handlers)
        /\ \A k \in 1 .. Len(handlersBefore[t]) : callbacks[k] = handlersBefore[t][k]
        /\ \A k \in 1 .. Len(called[t]) : called[t][k] = handlersBefore[t][k]
    BY <1>0, <2>1 DEF CallsUpTo, SubTypeOK
  <2>4. ASSUME NEW r \in Threads, r # t PROVE CallsUpTo(r)'
    BY <1>0, <2>1, <2>2, <2>4, OthersIterate DEF SubTypeOK
  <2> HIDE DEF n
  <2>5. CASE pc' = [pc EXCEPT ![t] = "undefined"] /\ UNCHANGED called
    <3>1. pc'[t] = "undefined"
      BY <1>0, <2>5 DEF SubTypeOK
    <3>2. SubTypeOK'
      BY <1>0, <2>1, <2>5 DEF SubTypeOK
    <3>3. CallsUpTo(t)'
      BY <1>0, <2>1, <2>5, <3>1 DEF CallsUpTo
    <3> QED
      BY <2>4, <3>2, <3>3 DEF IterInv
  <2>6. CASE n = cursor[t].end /\ pc' = [pc EXCEPT ![t] = "idle"] /\ UNCHANGED called
    <3>1. pc'[t] = "idle"
      BY <1>0, <2>6 DEF SubTypeOK
    <3>2. SubTypeOK'
      BY <1>0, <2>1, <2>6 DEF SubTypeOK
    <3>3. called[t] = handlersBefore[t]
      <4>1. Len(called[t]) = Len(handlersBefore[t])
        BY <2>3, <2>6
      <4> QED
        BY <2>3, <4>1, SeqEqual
    <3>4. CallsUpTo(t)'
      BY <2>1, <2>3, <2>6, <3>1, <3>3 DEF CallsUpTo
    <3> QED
      BY <2>4, <3>2, <3>4 DEF IterInv
  <2>7. CASE /\ n < cursor[t].end /\ pc' = [pc EXCEPT ![t] = "calling"]
             /\ called' = [called EXCEPT ![t] = Append(called[t], callbacks[n + 1])]
    <3> DEFINE h == callbacks[n + 1]
    <3>1. h \in Handlers /\ h = handlersBefore[t][n + 1]
      <4>1. n + 1 \in 1 .. Len(handlersBefore[t]) /\ n + 1 \in 1 .. Len(callbacks)
        BY <2>3, <2>7
      <4>2. callbacks[n + 1] \in Handlers
        BY <2>3, <4>1
      <4> QED
        BY <2>3, <4>1, <4>2
    <3>2. /\ pc'[t] = "calling" /\ called'[t] = Append(called[t], h)
          /\ called' = [called EXCEPT ![t] = Append(called[t], h)]
      BY <1>0, <2>7 DEF SubTypeOK
    <3> HIDE DEF h
    <3>3. /\ called'[t] \in Seq(Handlers) /\ Len(called'[t]) = n + 1
          /\ \A k \in 1 .. n + 1 : called'[t][k] = handlersBefore[t][k]
      BY <2>3, <3>1, <3>2
    <3>4. SubTypeOK'
      <4>1. called' \in [Threads -> Seq(Handlers)]
        BY <1>0, <3>2, <3>3 DEF SubTypeOK
      <4> QED
        BY <1>0, <2>1, <2>7, <4>1 DEF SubTypeOK
    <3>5. n + 1 <= Len(handlersBefore[t])
      BY <2>3, <2>7
    <3>6. CallsUpTo(t)'
      BY <2>1, <2>3, <3>2, <3>3, <3>5 DEF CallsUpTo, n
    <3> QED
      BY <2>4, <3>4, <3>6 DEF IterInv
  <2> QED
    BY <2>2, <2>5, <2>6, <2>7
<1>5. ASSUME NEW t \in Threads, HandlerReturns(t) PROVE IterInv'
  <2>1. /\ pc[t] = "calling" /\ pc' = [pc EXCEPT ![t] = "next"]
        /\ cursor' = [cursor EXCEPT ![t].i = @ + 1]
        /\ UNCHANGED <<listed, callbacks, buffer, capacity, called, handlersBefore, count>>
    BY <1>5 DEF HandlerReturns, registryVars
  <2>2. /\ cursor' \in [Threads -> [buf : Nat, end : Nat, i : Nat]]
        /\ cursor'[t].i = cursor[t].i + 1 /\ cursor'[t].end = cursor[t].end
        /\ pc'[t] = "next"
    <3>1. cursor[t] \in [buf : Nat, end : Nat, i : Nat]
      BY <1>0 DEF SubTypeOK
    <3>2. cursor' = [cursor EXCEPT ![t] = [cursor[t] EXCEPT !.i = cursor[t].i + 1]]
      BY <2>1
    <3> DEFINE r == [cursor[t] EXCEPT !.i = cursor[t].i + 1]
    <3>3. /\ r \in [buf : Nat, end : Nat, i : Nat]
          /\ r.i = cursor[t].i + 1 /\ r.end = cursor[t].end
      BY <3>1
    <3> HIDE DEF r
    <3>4. cursor'[t] = r /\ cursor' \in [Threads -> [buf : Nat, end : Nat, i : Nat]]
      BY <1>0, <3>2, <3>3 DEF SubTypeOK, r
    <3> QED
      BY <1>0, <2>1, <3>3, <3>4 DEF SubTypeOK
  <2>3. SubTypeOK'
    BY <1>0, <2>1, <2>2 DEF SubTypeOK
  <2>4. CallsUpTo(t)'
    BY <1>0, <2>1, <2>2 DEF CallsUpTo
  <2>5. ASSUME NEW r \in Threads, r # t PROVE CallsUpTo(r)'
    BY <1>0, <2>1, <2>5, OthersIterate DEF SubTypeOK
  <2> QED
    BY <2>3, <2>4, <2>5 DEF IterInv
<1>6. ASSUME NEW t \in Threads, NEW h \in Handlers, Subscribe(t, h) PROVE IterInv'
  <2>1. /\ callbacks' = Append(callbacks, h) /\ listed' = TRUE
        /\ UNCHANGED <<pc, cursor, called, handlersBefore, count>>
    BY <1>6 DEF Subscribe, AddHandler
  <2>2. IF Len(callbacks) < capacity
          THEN UNCHANGED <<buffer, capacity>>
          ELSE /\ buffer' = buffer + 1
               /\ capacity' = IF capacity = 0 THEN 1 ELSE 2 * capacity
    BY <1>6 DEF Subscribe, AddHandler
  <2>3. SubTypeOK'
    <3>1. /\ callbacks \in Seq(Handlers) /\ capacity \in Nat /\ buffer \in Nat
          /\ Len(callbacks) <= capacity /\ Len(callbacks) \in Nat
      BY <1>0 DEF SubTypeOK
    <3>2. callbacks' \in Seq(Handlers) /\ Len(callbacks') = Len(callbacks) + 1
      BY <2>1, <3>1
    <3>3. buffer' \in Nat /\ capacity' \in Nat /\ Len(callbacks') <= capacity'
      BY <2>2, <3>1, <3>2
    <3> QED
      BY <1>0, <2>1, <3>2, <3>3 DEF SubTypeOK
  <2>4. ASSUME NEW r \in Threads PROVE CallsUpTo(r)'
    BY <2>1, OthersIterate
  <2> QED
    BY <2>3, <2>4 DEF IterInv
<1>7. ASSUME UNCHANGED subVars PROVE IterInv'
  BY <1>0, <1>7, Zenon DEF subVars, IterInv, SubTypeOK, CallsUpTo
<1> QED
  BY <1>1, <1>2, <1>3, <1>4, <1>5, <1>6, <1>7 DEF SubNext

(* Whoever subscribes meanwhile, on another thread or in a handler: unless   *)
(* the list moves under it, a publication calls the handlers there were when *)
(* it began to iterate, all of them, once and in order.                      *)
THEOREM SubscriptionsCorrect == SubSpec => []CallsInv
<1>1. IterInv /\ [SubNext]_subVars => IterInv'
  BY IterStep, Zenon
<1>2. IterInv => CallsInv
  <2> SUFFICES ASSUME IterInv, NEW t \in Threads
               PROVE  /\ Len(called[t]) <= Len(handlersBefore[t])
                      /\ called[t] = SubSeq(handlersBefore[t], 1, Len(called[t]))
                      /\ pc[t] = "idle" => called[t] = handlersBefore[t]
    BY DEF IterInv, CallsInv, CallsAPrefix, CallsAll
  <2> DEFINE c == called[t]
             b == handlersBefore[t]
  <2>1. /\ c \in Seq(Handlers) /\ b \in Seq(Handlers) /\ Len(c) <= Len(b)
        /\ \A k \in 1 .. Len(c) : c[k] = b[k]
        /\ pc[t] = "idle" => c = b
    BY DEF IterInv, SubTypeOK, CallsUpTo
  <2> HIDE DEF c, b
  <2>2. c = SubSeq(b, 1, Len(c))
    <3>1. /\ SubSeq(b, 1, Len(c)) \in Seq(Handlers)
          /\ Len(SubSeq(b, 1, Len(c))) = Len(c)
          /\ \A k \in 1 .. Len(c) : SubSeq(b, 1, Len(c))[k] = b[k]
      BY <2>1
    <3> QED
      BY <2>1, <3>1, SeqEqual
  <2> QED
    BY <2>1, <2>2 DEF c, b
<1> QED
  BY <1>1, <1>2, IterInitInv, PTL DEF SubSpec

-----------------------------------------------------------------------------
(* The terminal: the lock round each piece of output, and the counters.      *)

\* A thread in a piece of output that the lock guards.
Inside(t) == /\ does[t] \notin {"nothing", "dump"}
             /\ writerAt[t] \in {"write", "again", "unlock", "exit"}

\* The results that gTotalTest has still to count, and those that gFailedTest counted early.
Reporting == {t \in Writers : does[t] \in {"pass", "fail"} /\ writerAt[t] \in {"unlock", "total"}}
Failing == {t \in Writers : does[t] = "fail" /\ writerAt[t] \in {"lock", "write"}}

\* The lock is held by the thread inside, and by nobody else.
WriterInv(t) ==
  /\ does[t] = "dump" => writerAt[t] = "write"
  /\ writerAt[t] = "exit" => does[t] \in Exiting
  /\ (t \in log) <=> Inside(t)
  /\ Inside(t) => log = {t}
  /\ Inside(t) /\ writerAt[t] = "again" => does[t] \in Evaluating \cup Exiting

CountInv ==
  /\ failed \in Int /\ total \in Int /\ failedBlocks \in Nat /\ asserts \in Nat
  /\ total = asserts - Cardinality(Reporting)
  /\ failed = failedBlocks + Cardinality(Failing)

LogInv ==
  /\ LogTypeOK
  /\ \A t \in Writers : WriterInv(t)
  /\ CountInv
  /\ VerdictIsHonest

(* Nobody writes.                                                            *)
LEMMA LogInitInv == LogInit => LogInv
<1> SUFFICES ASSUME LogInit PROVE LogInv
  OBVIOUS
<1>1. /\ does = [t \in Writers |-> "nothing"] /\ writerAt = [t \in Writers |-> "count"]
      /\ log = {} /\ failed = 0 /\ total = 0 /\ writes = 0
      /\ failedBlocks = 0 /\ asserts = 0 /\ verdicts = {}
  BY DEF LogInit
<1>2. LogTypeOK
  BY <1>1, LoggerAssumption DEF LogTypeOK, Writings, WriterPlaces
<1>3. \A t \in Writers : WriterInv(t)
  BY <1>1 DEF WriterInv, Inside
<1>4. Reporting = {} /\ Failing = {}
  BY <1>1 DEF Reporting, Failing
<1>5. CountInv
  BY <1>1, <1>4, FS_EmptySet DEF CountInv
<1>6. VerdictIsHonest
  BY <1>1 DEF VerdictIsHonest
<1> QED
  BY <1>2, <1>3, <1>5, <1>6 DEF LogInv

(* A thread that does nothing keeps what it knows while another takes or     *)
(* leaves the lock.                                                          *)
LEMMA OthersWait ==
  ASSUME LogInv, NEW t \in Writers, NEW r \in Writers, r # t,
         does'[r] = does[r], writerAt'[r] = writerAt[r],
         \/ log' = log
         \/ log = {} /\ log' = {t}
         \/ log = {t} /\ log' = {}
  PROVE  WriterInv(r)'
<1>1. WriterInv(r) /\ log \subseteq Writers
  BY DEF LogInv, LogTypeOK
<1>2. Inside(r)' <=> Inside(r)
  BY DEF Inside
<1>3. (r \in log') <=> (r \in log)
  OBVIOUS
<1>4. Inside(r) => log' = {r}
  BY <1>1 DEF WriterInv
<1> QED
  BY <1>1, <1>2, <1>3, <1>4 DEF WriterInv

(* The two sets are finite; a thread that comes to one adds one to its size. *)
LEMMA SetsOfWriters ==
  /\ \A S \in SUBSET Writers : IsFiniteSet(S) /\ Cardinality(S) \in Nat
  /\ \A S \in SUBSET Writers : \A t \in Writers :
       /\ t \notin S => Cardinality(S \cup {t}) = Cardinality(S) + 1
       /\ t \in S => Cardinality(S \ {t}) = Cardinality(S) - 1
<1>1. \A S \in SUBSET Writers : IsFiniteSet(S)
  BY FS_Subset, LoggerAssumption
<1>2. \A S \in SUBSET Writers : Cardinality(S) \in Nat
  BY <1>1, FS_CardinalityType
<1>3. \A S \in SUBSET Writers : \A t \in Writers :
       t \notin S => Cardinality(S \cup {t}) = Cardinality(S) + 1
  BY <1>1, FS_AddElement
<1>4. \A S \in SUBSET Writers : \A t \in Writers :
       t \in S => Cardinality(S \ {t}) = Cardinality(S) - 1
  BY <1>1, FS_RemoveElement
<1> QED
  BY <1>1, <1>2, <1>3, <1>4

(* Every step of a thread keeps it.                                          *)
LEMMA LogStep == LogInv /\ (LogNext \/ UNCHANGED logVars) => LogInv'
<1> SUFFICES ASSUME LogInv, LogNext \/ UNCHANGED logVars PROVE LogInv'
  OBVIOUS
<1>0. /\ LogTypeOK /\ CountInv /\ VerdictIsHonest
      /\ \A t \in Writers : WriterInv(t)
      /\ MaxWrites \in Nat
      /\ does \in [Writers -> Writings \cup {"nothing"}]
      /\ writerAt \in [Writers -> WriterPlaces]
  BY LoggerAssumption DEF LogInv, LogTypeOK
<1>a. Reporting \in SUBSET Writers /\ Failing \in SUBSET Writers
  BY DEF Reporting, Failing
<1>1. ASSUME NEW t \in Writers, NEW w \in Writings, BeginWrite(t, w) PROVE LogInv'
  <2> DEFINE place == IF w = "fail" THEN "count" ELSE IF w = "dump" THEN "write" ELSE "lock"
  <2>1. /\ does[t] = "nothing" /\ writes < MaxWrites /\ writes' = writes + 1
        /\ does' = [does EXCEPT ![t] = w]
        /\ writerAt' = [writerAt EXCEPT ![t] = place]
        /\ UNCHANGED <<log, failed, total, failedBlocks, asserts, verdicts>>
    BY <1>1 DEF BeginWrite, Goes
  <2>2. /\ does'[t] = w /\ writerAt'[t] = place /\ w # "nothing"
        /\ \A r \in Writers : r # t => does'[r] = does[r] /\ writerAt'[r] = writerAt[r]
    BY <1>0, <2>1 DEF Writings
  <2>3. LogTypeOK'
    BY <1>0, <2>1 DEF LogTypeOK, WriterPlaces
  <2>4. WriterInv(t)'
    <3>1. t \notin log
      BY <1>0, <2>1 DEF WriterInv, Inside
    <3> QED
      BY <2>1, <2>2, <3>1 DEF WriterInv, Inside, Exiting, Evaluating
  <2>5. ASSUME NEW r \in Writers, r # t PROVE WriterInv(r)'
    BY <2>1, <2>2, <2>5, OthersWait
  <2>6. Reporting' = Reporting /\ Failing' = Failing
    BY <2>1, <2>2 DEF Reporting, Failing, Exiting
  <2>7. CountInv' /\ VerdictIsHonest'
    BY <1>0, <2>1, <2>6 DEF CountInv, VerdictIsHonest
  <2> QED
    BY <2>3, <2>4, <2>5, <2>7 DEF LogInv
<1>2. ASSUME NEW t \in Writers, CountFailure(t) PROVE LogInv'
  <2>1. /\ does[t] = "fail" /\ writerAt[t] = "count" /\ failed' = failed + 1
        /\ writerAt' = [writerAt EXCEPT ![t] = "lock"]
        /\ UNCHANGED <<does, log, total, writes, failedBlocks, asserts, verdicts>>
    BY <1>2 DEF CountFailure, Goes
  <2>2. /\ writerAt'[t] = "lock"
        /\ \A r \in Writers : r # t => writerAt'[r] = writerAt[r]
    BY <1>0, <2>1
  <2>3. LogTypeOK'
    BY <1>0, <2>1 DEF LogTypeOK, WriterPlaces
  <2>4. WriterInv(t)'
    BY <1>0, <2>1, <2>2 DEF WriterInv, Inside, Exiting, Evaluating
  <2>5. ASSUME NEW r \in Writers, r # t PROVE WriterInv(r)'
    BY <2>1, <2>2, <2>5, OthersWait
  <2>6. /\ Reporting' = Reporting
        /\ t \notin Failing /\ Failing' = Failing \cup {t}
    BY <2>1, <2>2 DEF Reporting, Failing, Exiting
  <2>7. CountInv' /\ VerdictIsHonest'
    <3>1. Cardinality(Failing') = Cardinality(Failing) + 1 /\ Cardinality(Failing) \in Nat
      BY <1>a, <2>6, SetsOfWriters
    <3> QED
      BY <1>0, <2>1, <2>6, <3>1 DEF CountInv, VerdictIsHonest
  <2> QED
    BY <2>3, <2>4, <2>5, <2>7 DEF LogInv
<1>3. ASSUME NEW t \in Writers, TakeLog(t) PROVE LogInv'
  <2>1. /\ does[t] # "nothing" /\ writerAt[t] = "lock" /\ log = {} /\ log' = {t}
        /\ writerAt' = [writerAt EXCEPT ![t] = "write"]
        /\ UNCHANGED <<does, failed, total, writes, failedBlocks, asserts, verdicts>>
    BY <1>3 DEF TakeLog, Goes
  <2>2. /\ writerAt'[t] = "write"
        /\ \A r \in Writers : r # t => writerAt'[r] = writerAt[r]
    BY <1>0, <2>1
  <2>3. LogTypeOK'
    BY <1>0, <2>1 DEF LogTypeOK, WriterPlaces
  <2>4. WriterInv(t)'
    BY <1>0, <2>1, <2>2 DEF WriterInv, Inside, Exiting, Evaluating
  <2>5. ASSUME NEW r \in Writers, r # t PROVE WriterInv(r)'
    BY <2>1, <2>2, <2>5, OthersWait
  <2>6. Reporting' = Reporting /\ Failing' = Failing
    BY <2>1, <2>2 DEF Reporting, Failing, Exiting
  <2>7. CountInv' /\ VerdictIsHonest'
    BY <1>0, <2>1, <2>6 DEF CountInv, VerdictIsHonest
  <2> QED
    BY <2>3, <2>4, <2>5, <2>7 DEF LogInv
<1>4. ASSUME NEW t \in Writers, WriteText(t) PROVE LogInv'
  <2>1. /\ does[t] # "nothing" /\ writerAt[t] = "write"
        /\ failedBlocks' = failedBlocks + IF does[t] = "fail" THEN 1 ELSE 0
        /\ asserts' = asserts + IF does[t] \in {"pass", "fail"} THEN 1 ELSE 0
        /\ UNCHANGED <<log, failed, total, writes>>
    BY <1>4 DEF WriteText
  <2>2. \/ /\ does[t] = "dump" /\ UNCHANGED writerAt
           /\ does' = [does EXCEPT ![t] = "nothing"]
        \/ /\ does[t] \in Exiting /\ writerAt' = [writerAt EXCEPT ![t] = "exit"]
           /\ UNCHANGED does
        \/ /\ does[t] \in Evaluating /\ writerAt' = [writerAt EXCEPT ![t] = "again"]
           /\ UNCHANGED does
        \/ /\ does[t] \notin {"dump"} \cup Exiting /\ writerAt' = [writerAt EXCEPT ![t] = "unlock"]
           /\ UNCHANGED does
    BY <1>4 DEF WriteText, Goes, Over
  <2>3. \A r \in Writers : r # t => does'[r] = does[r] /\ writerAt'[r] = writerAt[r]
    BY <1>0, <2>2
  <2>4. \/ does[t] = "dump" /\ does'[t] = "nothing" /\ writerAt'[t] = "write"
        \/ does[t] \in Exiting /\ does'[t] = does[t] /\ writerAt'[t] = "exit"
        \/ does[t] \in Evaluating /\ does'[t] = does[t] /\ writerAt'[t] = "again"
        \/ does[t] \notin {"dump"} \cup Exiting /\ does'[t] = does[t] /\ writerAt'[t] = "unlock"
    BY <1>0, <2>1, <2>2
  <2>5. LogTypeOK'
    <3>1. does' \in [Writers -> Writings \cup {"nothing"}]
      BY <1>0, <2>2
    <3>2. writerAt' \in [Writers -> WriterPlaces]
      BY <1>0, <2>2 DEF WriterPlaces
    <3> QED
      BY <1>0, <2>1, <3>1, <3>2 DEF LogTypeOK
  <2>6. WriterInv(t)'
    BY <1>0, <2>1, <2>4 DEF WriterInv, Inside, Exiting, Evaluating
  <2>7. ASSUME NEW r \in Writers, r # t PROVE WriterInv(r)'
    BY <2>1, <2>3, <2>7, OthersWait
  <2>8. CountInv'
    <3>1. CASE does[t] \notin {"pass", "fail"}
      <4>1. Reporting' = Reporting /\ Failing' = Failing
        BY <2>3, <2>4, <3>1 DEF Reporting, Failing, Exiting, Evaluating
      <4> QED
        BY <1>0, <2>1, <3>1, <4>1 DEF CountInv
    <3>2. CASE does[t] = "pass"
      <4>1. t \notin Reporting /\ Reporting' = Reporting \cup {t} /\ Failing' = Failing
        BY <2>1, <2>3, <2>4, <3>2 DEF Reporting, Failing, Exiting, Evaluating
      <4>2. Cardinality(Reporting') = Cardinality(Reporting) + 1 /\ Cardinality(Reporting) \in Nat
        BY <1>a, <4>1, SetsOfWriters
      <4> QED
        BY <1>0, <2>1, <3>2, <4>1, <4>2 DEF CountInv
    <3>3. CASE does[t] = "fail"
      <4>1. /\ t \notin Reporting /\ Reporting' = Reporting \cup {t}
            /\ t \in Failing /\ Failing' = Failing \ {t}
        BY <2>1, <2>3, <2>4, <3>3 DEF Reporting, Failing, Exiting, Evaluating
      <4>2. /\ Cardinality(Reporting') = Cardinality(Reporting) + 1
            /\ Cardinality(Failing') = Cardinality(Failing) - 1
            /\ Cardinality(Reporting) \in Nat /\ Cardinality(Failing) \in Nat
        BY <1>a, <4>1, SetsOfWriters
      <4> QED
        BY <1>0, <2>1, <3>3, <4>2, SMTT(30) DEF CountInv
    <3> QED
      BY <3>1, <3>2, <3>3
  <2>9. VerdictIsHonest'
    <3>1. verdicts' = IF does[t] = "verdict" THEN verdicts \cup {<<failed = 0, failedBlocks>>}
                                             ELSE verdicts
      BY <1>4 DEF WriteText
    <3>2. failed = 0 => failedBlocks = 0
      <4>1. Cardinality(Failing) \in Nat
        BY <1>a, SetsOfWriters
      <4> QED
        BY <1>0, <4>1 DEF CountInv
    <3> SUFFICES ASSUME NEW v \in verdicts', v[1] PROVE v[2] = 0
      BY DEF VerdictIsHonest
    <3>3. CASE v \in verdicts
      BY <1>0, <3>3 DEF VerdictIsHonest
    <3>4. CASE v = <<failed = 0, failedBlocks>>
      <4>1. v[1] = (failed = 0) /\ v[2] = failedBlocks
        BY <3>4, Zenon
      <4> QED
        BY <3>2, <4>1
    <3> QED
      BY <3>1, <3>3, <3>4
  <2> QED
    BY <2>5, <2>6, <2>7, <2>8, <2>9 DEF LogInv
<1>5. ASSUME NEW t \in Writers, LeaveLog(t) PROVE LogInv'
  <2>1. /\ does[t] # "nothing" /\ writerAt[t] = "unlock" /\ log' = {}
        /\ UNCHANGED <<failed, total, writes, failedBlocks, asserts, verdicts>>
    BY <1>5 DEF LeaveLog
  <2>2. \/ /\ does[t] \in {"pass", "fail"} /\ writerAt' = [writerAt EXCEPT ![t] = "total"]
           /\ UNCHANGED does
        \/ /\ does[t] = "named" /\ UNCHANGED does
           /\ \E place \in {"lock", "newline"} : writerAt' = [writerAt EXCEPT ![t] = place]
        \/ /\ does[t] \notin {"pass", "fail", "named"} /\ does' = [does EXCEPT ![t] = "nothing"]
           /\ UNCHANGED writerAt
    BY <1>5 DEF LeaveLog, Goes, Over
  <2>3. \A r \in Writers : r # t => does'[r] = does[r] /\ writerAt'[r] = writerAt[r]
    BY <1>0, <2>2
  <2>4. \/ does[t] \in {"pass", "fail"} /\ does'[t] = does[t] /\ writerAt'[t] = "total"
        \/ does[t] = "named" /\ does'[t] = "named" /\ writerAt'[t] \in {"lock", "newline"}
        \/ /\ does[t] \notin {"pass", "fail", "named"} /\ does'[t] = "nothing"
           /\ writerAt'[t] = "unlock"
    BY <1>0, <2>1, <2>2
  <2>5. LogTypeOK'
    <3>1. does' \in [Writers -> Writings \cup {"nothing"}]
      BY <1>0, <2>2
    <3>2. writerAt' \in [Writers -> WriterPlaces]
      BY <1>0, <2>2 DEF WriterPlaces
    <3> QED
      BY <1>0, <2>1, <3>1, <3>2 DEF LogTypeOK
  <2>6. log = {t}
    BY <1>0, <2>1 DEF WriterInv, Inside
  <2>7. WriterInv(t)'
    BY <1>0, <2>1, <2>4 DEF WriterInv, Inside, Exiting, Evaluating
  <2>8. ASSUME NEW r \in Writers, r # t PROVE WriterInv(r)'
    BY <2>1, <2>3, <2>6, <2>8, OthersWait
  <2>9. Reporting' = Reporting /\ Failing' = Failing
    BY <2>1, <2>3, <2>4 DEF Reporting, Failing
  <2>10. CountInv' /\ VerdictIsHonest'
    BY <1>0, <2>1, <2>9 DEF CountInv, VerdictIsHonest
  <2> QED
    BY <2>5, <2>7, <2>8, <2>10 DEF LogInv
<1>6. ASSUME NEW t \in Writers, CountTest(t) PROVE LogInv'
  <2>1. /\ does[t] \in {"pass", "fail"} /\ writerAt[t] = "total" /\ total' = total + 1
        /\ does' = [does EXCEPT ![t] = "nothing"]
        /\ UNCHANGED <<writerAt, log, failed, writes, failedBlocks, asserts, verdicts>>
    BY <1>6 DEF CountTest, Over
  <2>2. /\ does'[t] = "nothing"
        /\ \A r \in Writers : r # t => does'[r] = does[r]
    BY <1>0, <2>1
  <2>3. LogTypeOK'
    BY <1>0, <2>1 DEF LogTypeOK, WriterPlaces
  <2>4. WriterInv(t)'
    BY <1>0, <2>1, <2>2 DEF WriterInv, Inside, Exiting, Evaluating
  <2>5. ASSUME NEW r \in Writers, r # t PROVE WriterInv(r)'
    BY <2>1, <2>2, <2>5, OthersWait
  <2>6. t \in Reporting /\ Reporting' = Reporting \ {t} /\ Failing' = Failing
    BY <2>1, <2>2 DEF Reporting, Failing, Exiting
  <2>7. CountInv' /\ VerdictIsHonest'
    <3>1. Cardinality(Reporting') = Cardinality(Reporting) - 1 /\ Cardinality(Reporting) \in Nat
      BY <1>a, <2>6, SetsOfWriters
    <3> QED
      BY <1>0, <2>1, <2>6, <3>1 DEF CountInv, VerdictIsHonest
  <2> QED
    BY <2>3, <2>4, <2>5, <2>7 DEF LogInv
<1>7. ASSUME NEW t \in Writers, Exit(t) PROVE LogInv'
  <2>1. /\ writerAt[t] = "exit"
        /\ writerAt' \in {writerAt, [writerAt EXCEPT ![t] = "again"]}
        /\ UNCHANGED <<does, log, failed, total, writes, failedBlocks, asserts, verdicts>>
    BY <1>7 DEF Exit, Goes
  <2>2. /\ writerAt'[t] \in {"exit", "again"} /\ does[t] \in Exiting
        /\ \A r \in Writers : r # t => writerAt'[r] = writerAt[r]
    BY <1>0, <2>1 DEF WriterInv
  <2>3. LogTypeOK'
    BY <1>0, <2>1 DEF LogTypeOK, WriterPlaces
  <2>4. WriterInv(t)'
    BY <1>0, <2>1, <2>2 DEF WriterInv, Inside, Exiting, Evaluating
  <2>5. ASSUME NEW r \in Writers, r # t PROVE WriterInv(r)'
    BY <2>1, <2>2, <2>5, OthersWait
  <2>6. Reporting' = Reporting /\ Failing' = Failing
    BY <2>1, <2>2 DEF Reporting, Failing, Exiting
  <2>7. CountInv' /\ VerdictIsHonest'
    BY <1>0, <2>1, <2>6 DEF CountInv, VerdictIsHonest
  <2> QED
    BY <2>3, <2>4, <2>5, <2>7 DEF LogInv
<1>8. ASSUME UNCHANGED logVars PROVE LogInv'
  <2>1. UNCHANGED <<does, writerAt, log, failed, total, writes, failedBlocks, asserts, verdicts>>
    BY <1>8 DEF logVars
  <2>2. Reporting' = Reporting /\ Failing' = Failing
    BY <2>1 DEF Reporting, Failing
  <2> QED
    BY <1>0, <2>1, <2>2 DEF LogInv, LogTypeOK, WriterInv, Inside, CountInv, VerdictIsHonest
<1>9. ASSUME NEW t \in Writers, EndLine(t) PROVE LogInv'
  <2>1. /\ does[t] = "named" /\ writerAt[t] = "newline"
        /\ does' = [does EXCEPT ![t] = "nothing"]
        /\ UNCHANGED <<writerAt, log, failed, total, writes, failedBlocks, asserts, verdicts>>
    BY <1>9 DEF EndLine, Over
  <2>2. /\ does'[t] = "nothing"
        /\ \A r \in Writers : r # t => does'[r] = does[r]
    BY <1>0, <2>1
  <2>3. LogTypeOK'
    BY <1>0, <2>1 DEF LogTypeOK
  <2>4. WriterInv(t)'
    BY <1>0, <2>1, <2>2 DEF WriterInv, Inside
  <2>5. ASSUME NEW r \in Writers, r # t PROVE WriterInv(r)'
    BY <2>1, <2>2, <2>5, OthersWait
  <2>6. Reporting' = Reporting /\ Failing' = Failing
    BY <2>1, <2>2 DEF Reporting, Failing
  <2>7. CountInv' /\ VerdictIsHonest'
    BY <1>0, <2>1, <2>6 DEF CountInv, VerdictIsHonest
  <2> QED
    BY <2>3, <2>4, <2>5, <2>7 DEF LogInv
<1> QED
  BY <1>1, <1>2, <1>3, <1>4, <1>5, <1>6, <1>7, <1>8, <1>9 DEF LogNext

(* However threads log, assert and report at once, what they lock comes in   *)
(* whole pieces, a verdict agrees with the failures above it, the counters   *)
(* lag by what is being written, and only what is evaluated under the lock   *)
(* (by DUMP(), TODO, LINE_BREAKER, ASSERT_MSG), or exit(), waits for the     *)
(* lock that its thread holds itself.                                        *)
THEOREM TerminalCorrect == LogSpec => []LoggerCorrect
<1>1. LogInv /\ [LogNext]_logVars => LogInv'
  BY LogStep, Zenon
<1>2. LogInv => LoggerCorrect
  <2> SUFFICES ASSUME LogInv PROVE LoggerCorrect
    OBVIOUS
  <2>1. OneWrites
    BY DEF LogInv, WriterInv, Inside, OneWrites
  <2>2. WaitsForItself
    <3> SUFFICES ASSUME NEW t \in log
                 PROVE  /\ writerAt[t] # "lock"
                        /\ writerAt[t] = "again" => does[t] \in Evaluating \cup Exiting
      BY DEF WaitsForItself
    <3>1. t \in Writers
      BY DEF LogInv, LogTypeOK
    <3> QED
      BY <3>1 DEF LogInv, WriterInv, Inside
  <2>3. Counted
    BY DEF LogInv, CountInv, Counted, Reporting, Failing
  <2> QED
    BY <2>1, <2>2, <2>3 DEF LogInv, LoggerCorrect
<1> QED
  BY <1>1, <1>2, LogInitInv, PTL DEF LogSpec

-----------------------------------------------------------------------------
(* The talkers: their numbers, and how soon they stop.                       *)

\* The tasks that a thread of the pool has, those that print, and those that may still be
\* heard after SIGINT.
Busy == {i \in Ids : talker[i] \in {"test", "print", "sleep"}}
Printing == {i \in Ids : talker[i] = "print"}
Heard == {i \in Ids : talker[i] = "print" \/ sinceStop[i] > 0}

\* Nothing is heard of a task that no thread had when SIGINT came: a task begins to print only
\* while the flag is set, and then Heard is a part of Busy.
TalkInv ==
  /\ TalkTypeOK
  /\ running \in BOOLEAN /\ seqNumber \in Nat \ {0}
  /\ number \in [Ids -> Nat] /\ sinceStop \in [Ids -> Nat]
  /\ NumbersOnce
  /\ \A i \in Ids : /\ sinceStop[i] <= 1
                    /\ running => sinceStop[i] = 0
                    /\ sinceStop[i] > 0 => talker[i] \in {"sleep", "test", "done"}
                    /\ talker[i] = "done" => ~running
  /\ Cardinality(Busy) <= TalkThreads
  /\ Cardinality(Heard) <= TalkThreads
  /\ mainOver => \A i \in Ids : talker[i] = "done"

(* The tasks are finitely many, and so are those of any kind.                *)
LEMMA SetsOfTalkers ==
  \A S \in SUBSET Ids :
    /\ IsFiniteSet(S) /\ Cardinality(S) \in Nat
    /\ \A T \in SUBSET S : Cardinality(T) <= Cardinality(S)
    /\ \A i \in Ids : Cardinality(S \cup {i}) <= Cardinality(S) + 1
<1>1. IsFiniteSet(Ids)
  BY TalkAssumption, FS_Interval DEF Ids
<1> SUFFICES ASSUME NEW S \in SUBSET Ids
             PROVE  /\ IsFiniteSet(S) /\ Cardinality(S) \in Nat
                    /\ \A T \in SUBSET S : Cardinality(T) <= Cardinality(S)
                    /\ \A i \in Ids : Cardinality(S \cup {i}) <= Cardinality(S) + 1
  OBVIOUS
<1>2. IsFiniteSet(S)
  BY <1>1, FS_Subset
<1>3. Cardinality(S) \in Nat
  BY <1>2, FS_CardinalityType
<1>4. \A T \in SUBSET S : Cardinality(T) <= Cardinality(S)
  BY <1>2, FS_Subset
<1>5. ASSUME NEW i \in Ids PROVE Cardinality(S \cup {i}) <= Cardinality(S) + 1
  <2>1. CASE i \in S
    <3>1. S \cup {i} = S
      BY <2>1
    <3>2. Cardinality(S \cup {i}) = Cardinality(S)
      BY <3>1, Zenon
    <3> QED
      BY <1>3, <3>2
  <2>2. CASE i \notin S
    <3>1. Cardinality(S \cup {i}) = Cardinality(S) + 1
      BY <1>2, <2>2, FS_AddElement
    <3> QED
      BY <1>3, <3>1
  <2> HIDE DEF Ids
  <2> QED
    BY <2>1, <2>2
<1> QED
  BY <1>2, <1>3, <1>4, <1>5

(* The tasks were submitted, and nothing was printed.                        *)
LEMMA TalkInitInv == TalkInit => TalkInv
<1> SUFFICES ASSUME TalkInit PROVE TalkInv
  OBVIOUS
<1>1. /\ running = TRUE /\ seqNumber = 1 /\ talker = [i \in Ids |-> "queued"]
      /\ number = [i \in Ids |-> 0] /\ naps = [i \in Ids |-> 0] /\ said = {}
      /\ sinceStop = [i \in Ids |-> 0] /\ mainOver = FALSE
  BY DEF TalkInit
<1>2. Busy = {} /\ Heard = {} /\ Printing = {}
  BY <1>1 DEF Busy, Heard, Printing
<1>3. Cardinality(Busy) <= TalkThreads /\ Cardinality(Heard) <= TalkThreads
  BY <1>2, FS_EmptySet, TalkAssumption
<1>4. NumbersOnce
  <2>1. 1 .. seqNumber - 1 = {} /\ {number[i] : i \in Printing} = {}
    BY <1>1, <1>2
  <2> QED
    BY <1>1, <1>2, <2>1 DEF NumbersOnce, Printing
<1> QED
  BY <1>1, <1>3, <1>4, TalkAssumption DEF TalkInv, TalkTypeOK

(* Every step of the tasks, the signal and main() keep it.                   *)
LEMMA TalkStep == TalkInv /\ (TalkNext \/ UNCHANGED talkVars) => TalkInv'
<1> SUFFICES ASSUME TalkInv, TalkNext \/ UNCHANGED talkVars PROVE TalkInv'
  OBVIOUS
<1>0. /\ TalkTypeOK /\ running \in BOOLEAN /\ seqNumber \in Nat \ {0}
      /\ number \in [Ids -> Nat] /\ sinceStop \in [Ids -> Nat] /\ NumbersOnce
      /\ \A i \in Ids : /\ sinceStop[i] <= 1
                        /\ running => sinceStop[i] = 0
                        /\ sinceStop[i] > 0 => talker[i] \in {"sleep", "test", "done"}
                        /\ talker[i] = "done" => ~running
      /\ Cardinality(Busy) <= TalkThreads /\ Cardinality(Heard) <= TalkThreads
      /\ mainOver => \A i \in Ids : talker[i] = "done"
      /\ Naps \in Nat /\ TalkThreads \in Nat
  BY TalkAssumption DEF TalkInv
<1>a. /\ talker \in [Ids -> {"queued", "test", "print", "sleep", "done"}]
      /\ naps \in [Ids -> 0 .. Naps]
  BY <1>0 DEF TalkTypeOK
<1>b. /\ Busy \in SUBSET Ids /\ Heard \in SUBSET Ids
      /\ running => Heard \in SUBSET Busy
  BY <1>0 DEF Busy, Heard
<1>c. /\ 1 .. seqNumber - 1 = said \cup {number[i] : i \in Printing}
      /\ \A i, j \in Printing : number[i] \notin said /\ (number[i] = number[j] => i = j)
  BY <1>0 DEF NumbersOnce, Printing
<1>1. ASSUME NEW i \in Ids, TakeTalker(i) PROVE TalkInv'
  <2>1. /\ talker[i] = "queued"
        /\ Cardinality(Busy) < TalkThreads
        /\ talker' = [talker EXCEPT ![i] = "test"]
        /\ UNCHANGED <<running, seqNumber, number, naps, said, sinceStop, mainOver>>
    BY <1>1 DEF TakeTalker, Busy
  <2>2. talker'[i] = "test" /\ \A j \in Ids : j # i => talker'[j] = talker[j]
    BY <1>a, <2>1
  <2>3. TalkTypeOK'
    BY <1>a, <2>1 DEF TalkTypeOK
  <2>4. Busy' = Busy \cup {i} /\ Heard' = Heard /\ Printing' = Printing
    BY <2>1, <2>2 DEF Busy, Heard, Printing
  <2>5. Cardinality(Busy') <= TalkThreads
    <3>1. Cardinality(Busy') <= Cardinality(Busy) + 1 /\ Cardinality(Busy) \in Nat
      BY <1>b, <2>4, SetsOfTalkers
    <3>2. Cardinality(Busy') \in Nat
      BY <1>b, <2>4, SetsOfTalkers
    <3> QED
      BY <1>0, <2>1, <3>1, <3>2
  <2>6. NumbersOnce'
    BY <1>c, <2>1, <2>4 DEF NumbersOnce, Printing
  <2>7. mainOver' => \A j \in Ids : talker'[j] = "done"
    BY <1>0, <2>1
  <2>8. ASSUME NEW j \in Ids
        PROVE  /\ sinceStop'[j] <= 1 /\ (running' => sinceStop'[j] = 0)
               /\ sinceStop'[j] > 0 => talker'[j] \in {"sleep", "test", "done"}
               /\ talker'[j] = "done" => ~running'
    BY <1>0, <2>1, <2>2
  <2> QED
    BY <1>0, <2>1, <2>3, <2>4, <2>5, <2>6, <2>7, <2>8 DEF TalkInv
<1>2. ASSUME NEW i \in Ids, Test(i) PROVE TalkInv'
  <2>1. talker[i] = "test" /\ UNCHANGED <<running, naps, said, sinceStop, mainOver>>
    BY <1>2 DEF Test
  <2>2. CASE ~running /\ talker' = [talker EXCEPT ![i] = "done"] /\ UNCHANGED <<number, seqNumber>>
    <3>1. talker'[i] = "done" /\ \A j \in Ids : j # i => talker'[j] = talker[j]
      BY <1>a, <2>2
    <3>2. TalkTypeOK'
      BY <1>a, <2>1, <2>2 DEF TalkTypeOK
    <3>3. Busy' \in SUBSET Busy /\ Heard' = Heard /\ Printing' = Printing
      BY <2>1, <2>2, <3>1 DEF Busy, Heard, Printing
    <3>4. Cardinality(Busy') <= TalkThreads
      <4>1. Cardinality(Busy') <= Cardinality(Busy) /\ Cardinality(Busy) \in Nat
        BY <1>b, <3>3, SetsOfTalkers
      <4>2. Cardinality(Busy') \in Nat
        BY <1>b, <3>3, SetsOfTalkers
      <4> QED
        BY <1>0, <4>1, <4>2
    <3>5. NumbersOnce'
      BY <1>c, <2>1, <2>2, <3>3 DEF NumbersOnce, Printing
    <3>6. mainOver' => \A j \in Ids : talker'[j] = "done"
      BY <1>0, <2>1
    <3>7. ASSUME NEW j \in Ids
          PROVE  /\ sinceStop'[j] <= 1 /\ (running' => sinceStop'[j] = 0)
                 /\ sinceStop'[j] > 0 => talker'[j] \in {"sleep", "test", "done"}
                 /\ talker'[j] = "done" => ~running'
      BY <1>0, <2>1, <2>2, <3>1
    <3> QED
      BY <1>0, <2>1, <2>2, <3>2, <3>3, <3>4, <3>5, <3>6, <3>7 DEF TalkInv
  <2>3. CASE /\ running
             /\ talker' = [talker EXCEPT ![i] = "print"]
             /\ number' = [number EXCEPT ![i] = seqNumber]
             /\ seqNumber' = seqNumber + 1
    <3>1. /\ talker'[i] = "print" /\ \A j \in Ids : j # i => talker'[j] = talker[j]
          /\ number'[i] = seqNumber /\ \A j \in Ids : j # i => number'[j] = number[j]
          /\ number' \in [Ids -> Nat] /\ seqNumber' \in Nat \ {0}
      BY <1>0, <1>a, <2>3
    <3>2. TalkTypeOK'
      BY <1>a, <2>1, <2>3 DEF TalkTypeOK
    <3>3. /\ Busy' = Busy /\ Heard' = Heard \cup {i} /\ i \in Busy
          /\ i \notin Printing /\ Printing' = Printing \cup {i}
      BY <2>1, <2>3, <3>1 DEF Busy, Heard, Printing
    <3>4. Cardinality(Heard') <= TalkThreads
      <4>1. Heard' \in SUBSET Busy
        BY <1>b, <2>3, <3>3
      <4>2. Cardinality(Heard') <= Cardinality(Busy) /\ Cardinality(Busy) \in Nat
        BY <1>b, <4>1, SetsOfTalkers
      <4>3. Cardinality(Heard') \in Nat
        BY <1>b, <4>1, SetsOfTalkers
      <4> QED
        BY <1>0, <4>2, <4>3
    <3>5. NumbersOnce'
      <4>1. \A j \in Printing : number'[j] = number[j] /\ j \in Ids
        BY <3>1, <3>3 DEF Printing
      <4>2. {number'[j] : j \in Printing'} = {number[j] : j \in Printing} \cup {seqNumber}
        BY <3>1, <3>3, <4>1
      <4>3. 1 .. seqNumber' - 1 = (1 .. seqNumber - 1) \cup {seqNumber}
        BY <1>0, <2>3
      <4>4. seqNumber \notin 1 .. seqNumber - 1
        BY <1>0
      <4>5. \A j, k \in Printing' : /\ number'[j] \notin said'
                                    /\ number'[j] = number'[k] => j = k
        BY <1>c, <2>1, <3>1, <3>3, <4>1, <4>4
      <4>6. 1 .. seqNumber' - 1 = said' \cup {number'[j] : j \in Printing'}
        BY <1>c, <2>1, <4>2, <4>3
      <4> QED
        BY <4>5, <4>6 DEF NumbersOnce, Printing
    <3>6. mainOver' => \A j \in Ids : talker'[j] = "done"
      BY <1>0, <2>1
    <3>7. ASSUME NEW j \in Ids
          PROVE  /\ sinceStop'[j] <= 1 /\ (running' => sinceStop'[j] = 0)
                 /\ sinceStop'[j] > 0 => talker'[j] \in {"sleep", "test", "done"}
                 /\ talker'[j] = "done" => ~running'
      BY <1>0, <2>1, <2>3, <3>1
    <3> QED
      BY <1>0, <2>1, <3>1, <3>2, <3>3, <3>4, <3>5, <3>6, <3>7 DEF TalkInv
  <2> QED
    BY <1>2, <2>2, <2>3 DEF Test
<1>3. ASSUME NEW i \in Ids, PrintMessage(i) PROVE TalkInv'
  <2>1. /\ talker[i] = "print" /\ said' = said \cup {number[i]}
        /\ sinceStop' = [sinceStop EXCEPT ![i] = sinceStop[i] + IF running THEN 0 ELSE 1]
        /\ naps' = [naps EXCEPT ![i] = Naps]
        /\ talker' = [talker EXCEPT ![i] = "sleep"]
        /\ UNCHANGED <<running, seqNumber, number, mainOver>>
    BY <1>3 DEF PrintMessage
  <2>2. sinceStop[i] = 0
    BY <1>0, <2>1
  <2>3. /\ talker'[i] = "sleep" /\ \A j \in Ids : j # i => talker'[j] = talker[j]
        /\ sinceStop'[i] = IF running THEN 0 ELSE 1
        /\ \A j \in Ids : j # i => sinceStop'[j] = sinceStop[j]
        /\ sinceStop' \in [Ids -> Nat]
    BY <1>0, <1>a, <2>1, <2>2
  <2>4. TalkTypeOK'
    BY <1>0, <1>a, <2>1 DEF TalkTypeOK
  <2>5. /\ Busy' = Busy /\ Heard' \in SUBSET Heard
        /\ i \in Printing /\ Printing' = Printing \ {i}
    BY <2>1, <2>3 DEF Busy, Heard, Printing
  <2>6. Cardinality(Heard') <= TalkThreads
    <3>1. Cardinality(Heard') <= Cardinality(Heard) /\ Cardinality(Heard) \in Nat
      BY <1>b, <2>5, SetsOfTalkers
    <3>2. Cardinality(Heard') \in Nat
      BY <1>b, <2>5, SetsOfTalkers
    <3> QED
      BY <1>0, <3>1, <3>2
  <2>7. NumbersOnce'
    <3>1. said' \cup {number[j] : j \in Printing'} = said \cup {number[j] : j \in Printing}
      BY <2>1, <2>5
    <3>2. \A j, k \in Printing' : number[j] \notin said' /\ (number[j] = number[k] => j = k)
      BY <1>c, <2>1, <2>5
    <3> QED
      BY <1>c, <2>1, <3>1, <3>2 DEF NumbersOnce, Printing
  <2>8. mainOver' => \A j \in Ids : talker'[j] = "done"
    BY <1>0, <2>1
  <2>9. ASSUME NEW j \in Ids
        PROVE  /\ sinceStop'[j] <= 1 /\ (running' => sinceStop'[j] = 0)
               /\ sinceStop'[j] > 0 => talker'[j] \in {"sleep", "test", "done"}
               /\ talker'[j] = "done" => ~running'
    BY <1>0, <2>1, <2>3
  <2> QED
    BY <1>0, <2>1, <2>3, <2>4, <2>5, <2>6, <2>7, <2>8, <2>9 DEF TalkInv
<1>4. ASSUME NEW i \in Ids, Nap(i) PROVE TalkInv'
  <2>1. /\ talker[i] = "sleep"
        /\ UNCHANGED <<running, seqNumber, number, said, sinceStop, mainOver>>
    BY <1>4 DEF Nap
  <2>2. /\ talker' \in [Ids -> {"queued", "test", "print", "sleep", "done"}]
        /\ talker'[i] \in {"sleep", "test"} /\ \A j \in Ids : j # i => talker'[j] = talker[j]
        /\ naps' \in [Ids -> 0 .. Naps]
    <3>1. CASE naps[i] > 0 /\ running /\ UNCHANGED talker
               /\ \E m \in 0 .. naps[i] - 1 : naps' = [naps EXCEPT ![i] = m]
      BY <1>0, <1>a, <2>1, <3>1
    <3>2. CASE talker' = [talker EXCEPT ![i] = "test"] /\ UNCHANGED naps
      BY <1>a, <3>2
    <3> QED
      BY <1>4, <3>1, <3>2 DEF Nap
  <2>3. TalkTypeOK'
    BY <2>2 DEF TalkTypeOK
  <2>4. Busy' = Busy /\ Heard' = Heard /\ Printing' = Printing
    BY <2>1, <2>2 DEF Busy, Heard, Printing
  <2>5. NumbersOnce'
    BY <1>c, <2>1, <2>4 DEF NumbersOnce, Printing
  <2>6. mainOver' => \A j \in Ids : talker'[j] = "done"
    BY <1>0, <2>1
  <2>7. ASSUME NEW j \in Ids
        PROVE  /\ sinceStop'[j] <= 1 /\ (running' => sinceStop'[j] = 0)
               /\ sinceStop'[j] > 0 => talker'[j] \in {"sleep", "test", "done"}
               /\ talker'[j] = "done" => ~running'
    BY <1>0, <2>1, <2>2
  <2> QED
    BY <1>0, <2>1, <2>3, <2>4, <2>5, <2>6, <2>7 DEF TalkInv
<1>5. ASSUME Interrupt PROVE TalkInv'
  <2>1. running' = FALSE /\ UNCHANGED <<seqNumber, talker, number, naps, said, sinceStop, mainOver>>
    BY <1>5 DEF Interrupt
  <2>2. Busy' = Busy /\ Heard' = Heard /\ Printing' = Printing
    BY <2>1 DEF Busy, Heard, Printing
  <2>3. NumbersOnce' /\ TalkTypeOK'
    BY <1>0, <1>c, <2>1, <2>2 DEF NumbersOnce, Printing, TalkTypeOK
  <2> QED
    BY <1>0, <2>1, <2>2, <2>3 DEF TalkInv
<1>6. ASSUME EndMain PROVE TalkInv'
  <2>1. /\ \A i \in Ids : talker[i] = "done"
        /\ UNCHANGED <<running, seqNumber, talker, number, naps, said, sinceStop>>
    BY <1>6 DEF EndMain
  <2>2. Busy' = Busy /\ Heard' = Heard /\ Printing' = Printing
    BY <2>1 DEF Busy, Heard, Printing
  <2>3. NumbersOnce' /\ TalkTypeOK'
    BY <1>0, <1>c, <2>1, <2>2 DEF NumbersOnce, Printing, TalkTypeOK
  <2> QED
    BY <1>0, <2>1, <2>2, <2>3 DEF TalkInv
<1>7. ASSUME UNCHANGED talkVars PROVE TalkInv'
  <2>1. UNCHANGED <<running, seqNumber, talker, number, naps, said, sinceStop, mainOver>>
    BY <1>7 DEF talkVars
  <2>2. Busy' = Busy /\ Heard' = Heard /\ Printing' = Printing
    BY <2>1 DEF Busy, Heard, Printing
  <2>3. NumbersOnce' /\ TalkTypeOK'
    BY <1>0, <1>c, <2>1, <2>2 DEF NumbersOnce, Printing, TalkTypeOK
  <2> QED
    BY <1>0, <2>1, <2>2, <2>3 DEF TalkInv
<1> QED
  BY <1>1, <1>2, <1>3, <1>4, <1>5, <1>6, <1>7 DEF TalkNext

(* Any number of talkers on any number of threads give each number to one    *)
(* message and leave none out, and after SIGINT at most as many messages     *)
(* follow as there are threads, one of each task that a thread had taken;    *)
(* this is the talkers' part of ToolsCorrect.                                *)
THEOREM TalkersStop == TalkSpec => []TalkerCorrect
<1>1. TalkInv /\ [TalkNext]_talkVars => TalkInv'
  BY TalkStep, Zenon
<1>2. TalkInv => TalkerCorrect
  <2> SUFFICES ASSUME TalkInv PROVE TalkerCorrect
    OBVIOUS
  <2>1. Cardinality({i \in Ids : sinceStop[i] > 0}) <= TalkThreads
    <3> DEFINE S == {i \in Ids : sinceStop[i] > 0}
    <3>1. S \in SUBSET Heard /\ Heard \in SUBSET Ids
      BY DEF Heard
    <3>2. S \in SUBSET Ids
      OBVIOUS
    <3>3. Cardinality(S) <= Cardinality(Heard) /\ Cardinality(S) \in Nat /\ Cardinality(Heard) \in Nat
      BY <3>1, <3>2, SetsOfTalkers
    <3> QED
      BY <3>3, TalkAssumption DEF TalkInv
  <2>2. mainOver /\ Talkers > 0 => ~running
    <3>1. Talkers > 0 => 1 \in Ids
      BY TalkAssumption DEF Ids
    <3> QED
      BY <3>1 DEF TalkInv
  <2> QED
    BY <2>1, <2>2 DEF TalkInv, TalkerCorrect, StopsSoon
<1> QED
  BY <1>1, <1>2, TalkInitInv, PTL DEF TalkSpec

-----------------------------------------------------------------------------
(* The downloader: what it asks for, and what its threads leave in files.    *)

AllLinks == UNION {Links[r] : r \in Repos}

\* The arguments that have registered r, and its selected tools that have an answer.
Registered(r) == {k \in 1 .. Len(request) : /\ main = "register" => k < turn
                                            /\ request[k] = <<"repo", r>>}
Answered(r) == {i \in Selected : tools[i] = r /\ answer[i] \in Answers}

ToolsInv ==
  /\ tools \in Seq(Repos) /\ Len(Defaults) <= Len(tools)
  /\ request \in Seq(Arguments)
  /\ links \in Seq(SUBSET AllLinks) /\ Len(links) = Len(tools)
  /\ \A i \in 1 .. Len(tools) : links[i] \subseteq Links[tools[i]]
  /\ answer \in Seq({"none", "pending"} \cup Answers) /\ Len(answer) = Len(tools)
  /\ turn \in Nat \ {0}
  /\ main \in {"register", "extract", "check", "end", "terminated", "aborted"}
  /\ main = "register" => \A i \in 1 .. Len(tools) : answer[i] = "none"
  /\ \A i \in 1 .. Len(tools) : answer[i] = "pending" => i \in Selected
  /\ asked \in [Repos -> Nat]
  /\ \A r \in Repos : asked[r] <= Cardinality(Registered(r)) + Cardinality(Answered(r))

\* The links of the selected tools, which are downloaded.
Wanted == {x \in Selected \X DOMAIN FileName : x[2] \in links[x[1]]}

Begun == main \in {"check", "end", "aborted"} /\ command # "latest"
Transferring == {d \in DOMAIN downloads : downloads[d] = "writing"}
Alone(d) == \A e \in DOMAIN downloads \ {d} : Target(e[2]) # Target(d[2])

AnnounceInv ==
  /\ DOMAIN downloads = IF Begun THEN Wanted ELSE {}
  /\ DOMAIN announced \subseteq DOMAIN downloads
  /\ main # "aborted" =>
       DOMAIN announced = {d \in DOMAIN downloads : main = "check" => d[1] < turn}
  /\ main = "aborted" => \E d \in DOMAIN downloads : downloads[d] = "threw"
  /\ announced = [d \in DOMAIN announced |-> announced[d]]
  /\ \A d \in DOMAIN announced : announced[d] = downloads[d] /\ downloads[d] \in {"ok", "failed"}
  /\ downloads \in [DOMAIN downloads -> {"opening", "writing", "ok", "failed", "threw"}]
  /\ written \in [DOMAIN downloads -> 0 .. Blocks]

\* A file that one download has for itself holds what it has received.
FileInv ==
  /\ disk = [f \in DOMAIN disk |-> disk[f]]
  /\ \A d \in DOMAIN downloads :
       /\ downloads[d] = "opening" => written[d] = 0
       /\ downloads[d] = "ok" => written[d] = Blocks
       /\ downloads[d] \in {"writing", "ok"} /\ d \notin lost /\ Alone(d) =>
            /\ Target(d[2]) \in DOMAIN disk
            /\ disk[Target(d[2])] = [k \in 1 .. written[d] |-> d[2]]

HandleInv ==
  /\ handles \in Int /\ unopened \in Int
  /\ IsFiniteSet(Transferring)
  /\ handles = unopened + Cardinality(Transferring)

DownInv == ToolsInv /\ AnnounceInv /\ FileInv /\ HandleInv

(* A part of a set of numbers is no larger, and smaller if a number misses.  *)
LEMMA PartOfInterval ==
  ASSUME NEW n \in Nat, NEW S \in SUBSET (1 .. n), NEW T \in SUBSET S
  PROVE  /\ Cardinality(S) \in Nat /\ Cardinality(T) \in Nat
         /\ Cardinality(T) <= Cardinality(S)
         /\ \A x \in S : x \notin T => Cardinality(T) + 1 <= Cardinality(S)
<1>1. IsFiniteSet(S)
  <2>1. IsFiniteSet(1 .. n)
    BY FS_Interval
  <2> QED
    BY <2>1, FS_Subset
<1>2. IsFiniteSet(T) /\ Cardinality(T) <= Cardinality(S)
  BY <1>1, FS_Subset
<1>3. Cardinality(S) \in Nat /\ Cardinality(T) \in Nat
  BY <1>1, <1>2, FS_CardinalityType
<1>4. ASSUME NEW x \in S, x \notin T PROVE Cardinality(T) + 1 <= Cardinality(S)
  <2>1. T \cup {x} \in SUBSET S
    BY <1>4
  <2>2. Cardinality(T \cup {x}) <= Cardinality(S)
    BY <1>1, <2>1, FS_Subset
  <2>3. Cardinality(T \cup {x}) = Cardinality(T) + 1
    BY <1>2, <1>4, FS_AddElement
  <2> QED
    BY <2>2, <2>3
<1> QED
  BY <1>2, <1>3, <1>4

(* What is selected is registered.                                           *)
LEMMA SelectedTools == ToolsInv => Selected \subseteq 1 .. Len(tools)
<1> SUFFICES ASSUME ToolsInv PROVE Selected \subseteq 1 .. Len(tools)
  OBVIOUS
<1>1. Len(Defaults) \in Nat /\ Len(tools) \in Nat /\ Len(Defaults) <= Len(tools)
  BY DownAssumption DEF ToolsInv
<1> QED
  BY <1>1 DEF Selected

(* Neither set is more than what was asked for.                              *)
LEMMA AskedSets ==
  ASSUME ToolsInv, NEW r \in Repos
  PROVE  /\ Registered(r) \subseteq 1 .. Len(request) /\ Len(request) \in Nat
         /\ Answered(r) \subseteq 1 .. Len(tools) /\ Len(tools) \in Nat
         /\ Cardinality(Registered(r)) \in Nat /\ Cardinality(Answered(r)) \in Nat
<1>1. Len(request) \in Nat /\ Len(tools) \in Nat
  BY DEF ToolsInv
<1>2. Registered(r) \subseteq 1 .. Len(request) /\ Answered(r) \subseteq 1 .. Len(tools)
  BY SelectedTools DEF Registered, Answered
<1> QED
  BY <1>1, <1>2, PartOfInterval

(* The default tools are known, and nothing was looked up.                   *)
LEMMA DownInitInv == DownInit => DownInv
<1> SUFFICES ASSUME DownInit PROVE DownInv
  OBVIOUS
<1>1. /\ tools = Defaults /\ links = [i \in 1 .. Len(Defaults) |-> {}]
      /\ answer = [i \in 1 .. Len(Defaults) |-> "none"]
      /\ main = "register" /\ turn = 1 /\ downloads = <<>> /\ written = <<>> /\ disk = <<>>
      /\ announced = <<>> /\ asked = [r \in Repos |-> 0] /\ handles = 0 /\ unopened = 0
  BY DEF DownInit
<1>2. request \in Seq(Arguments)
  <2>1. CASE request = <<>>
    BY <2>1
  <2>2. CASE request \in UNION {[1 .. n -> Arguments] : n \in 1 .. 2}
    <3>1. PICK n \in 1 .. 2 : request \in [1 .. n -> Arguments]
      BY <2>2
    <3> QED
      BY <3>1, SeqDef
  <2> QED
    BY <2>1, <2>2 DEF DownInit
<1>3. Defaults \in Seq(Repos) /\ Len(Defaults) \in Nat
  BY DownAssumption
<1>4. /\ links \in Seq(SUBSET AllLinks) /\ Len(links) = Len(Defaults)
      /\ answer \in Seq({"none", "pending"} \cup Answers) /\ Len(answer) = Len(Defaults)
      /\ \A i \in 1 .. Len(Defaults) : links[i] = {} /\ answer[i] = "none"
  <2>1. \A i \in 1 .. Len(Defaults) : {} \in SUBSET AllLinks
    OBVIOUS
  <2>2. links \in Seq(SUBSET AllLinks) /\ Len(links) = Len(Defaults)
    BY <1>1, <1>3, <2>1, IsASeq
  <2>3. answer \in Seq({"none", "pending"} \cup Answers) /\ Len(answer) = Len(Defaults)
    BY <1>1, <1>3, IsASeq
  <2> QED
    BY <1>1, <2>2, <2>3
<1>5. ToolsInv
  <2>1. /\ tools \in Seq(Repos) /\ Len(Defaults) <= Len(tools)
        /\ Len(links) = Len(tools) /\ Len(answer) = Len(tools)
        /\ \A i \in 1 .. Len(tools) : links[i] \subseteq Links[tools[i]] /\ answer[i] = "none"
    BY <1>1, <1>3, <1>4
  <2>2. Selected \subseteq 1 .. Len(tools)
    BY <1>1, <1>3 DEF Selected
  <2>3. ASSUME NEW r \in Repos
        PROVE  0 <= Cardinality(Registered(r)) + Cardinality(Answered(r))
    <3>1. Len(request) \in Nat /\ Len(tools) \in Nat
      BY <1>2, <2>1
    <3>2. Registered(r) \in SUBSET (1 .. Len(request)) /\ Answered(r) \in SUBSET (1 .. Len(tools))
      BY <2>2 DEF Registered, Answered
    <3>3. Cardinality(Registered(r)) \in Nat /\ Cardinality(Answered(r)) \in Nat
      BY <3>1, <3>2, PartOfInterval
    <3> QED
      BY <3>3
  <2>4. asked \in [Repos -> Nat] /\ \A r \in Repos : asked[r] = 0
    BY <1>1
  <2> QED
    BY <1>1, <1>2, <1>4, <2>1, <2>3, <2>4 DEF ToolsInv
<1>6. DOMAIN <<>> = {} /\ <<>> = [d \in {} |-> {}]
  OBVIOUS
<1>7. AnnounceInv
  <2>1. DOMAIN downloads = {} /\ DOMAIN announced = {}
    BY <1>1, <1>6
  <2>2. announced = [d \in DOMAIN announced |-> announced[d]]
    BY <1>1, <1>6
  <2>3. /\ downloads \in [DOMAIN downloads -> {"opening", "writing", "ok", "failed", "threw"}]
        /\ written \in [DOMAIN downloads -> 0 .. Blocks]
    BY <1>1, <1>6
  <2>4. ~Begun /\ main # "aborted"
    BY <1>1 DEF Begun
  <2> QED
    BY <2>1, <2>2, <2>3, <2>4 DEF AnnounceInv
<1>8. FileInv
  BY <1>1, <1>6 DEF FileInv
<1>9. HandleInv
  <2>1. Transferring = {}
    BY <1>1, <1>6 DEF Transferring
  <2> QED
    BY <1>1, <2>1, FS_EmptySet DEF HandleInv
<1> QED
  BY <1>5, <1>7, <1>8, <1>9 DEF DownInv

(* Looking up a tool's release, whoever does it, is on the account of an     *)
(* argument or of a selected tool.                                           *)
LEMMA AskStep ==
  ASSUME ToolsInv,
         Register \/ Fetch \/ Extract \/ \E i \in DOMAIN answer : Respond(i)
  PROVE  ToolsInv'
<1>0. /\ tools \in Seq(Repos) /\ Len(Defaults) <= Len(tools) /\ Len(tools) \in Nat
      /\ request \in Seq(Arguments) /\ Len(request) \in Nat
      /\ links \in Seq(SUBSET AllLinks) /\ Len(links) = Len(tools)
      /\ \A i \in 1 .. Len(tools) : links[i] \subseteq Links[tools[i]]
      /\ answer \in Seq({"none", "pending"} \cup Answers) /\ Len(answer) = Len(tools)
      /\ turn \in Nat \ {0}
      /\ main \in {"register", "extract", "check", "end", "terminated", "aborted"}
      /\ main = "register" => \A i \in 1 .. Len(tools) : answer[i] = "none"
      /\ \A i \in 1 .. Len(tools) : answer[i] = "pending" => i \in Selected
      /\ asked \in [Repos -> Nat]
      /\ \A r \in Repos : asked[r] <= Cardinality(Registered(r)) + Cardinality(Answered(r))
      /\ Selected \subseteq 1 .. Len(tools)
      /\ \A r \in Repos : Cardinality(Registered(r)) \in Nat /\ Cardinality(Answered(r)) \in Nat
      /\ Len(Defaults) \in Nat
  BY SelectedTools, AskedSets, DownAssumption, SMTT(30) DEF ToolsInv
<1>t. /\ tools \in Seq(Repos) /\ Len(tools) \in Nat /\ request \in Seq(Arguments)
      /\ Len(request) \in Nat /\ turn \in Nat \ {0} /\ asked \in [Repos -> Nat]
  BY <1>0
<1>a. \A r \in Repos : Links[r] \in SUBSET AllLinks
  BY DEF AllLinks
<1>b. main = "register" => \A r \in Repos : Answered(r) = {} /\ Cardinality(Answered(r)) = 0
  BY <1>0, FS_EmptySet DEF Answered, Answers
<1>1. ASSUME NEW i \in DOMAIN answer, Respond(i) PROVE ToolsInv'
  <2>1. /\ answer[i] = "pending"
        /\ asked' = [asked EXCEPT ![tools[i]] = @ + 1]
        /\ UNCHANGED <<command, request, tools, links, main, turn>>
    BY <1>1 DEF Respond
  <2>2. PICK a \in Answers : answer' = [answer EXCEPT ![i] = a]
    BY <1>1 DEF Respond
  <2>3. i \in 1 .. Len(tools) /\ tools[i] \in Repos /\ i \in Selected
    BY <1>0, <1>1, <2>1, SMTT(30)
  <2>4. /\ answer' \in Seq({"none", "pending"} \cup Answers) /\ Len(answer') = Len(tools)
        /\ answer'[i] = a
        /\ \A j \in 1 .. Len(tools) : j # i => answer'[j] = answer[j]
    <3>1. a \in {"none", "pending"} \cup Answers /\ i \in 1 .. Len(answer)
      BY <1>0, <2>3
    <3> QED
      BY <1>0, <2>2, <3>1, ExceptSeq
  <2>5. a \notin {"none", "pending"}
    BY DEF Answers
  <2>6. Selected' = Selected
    BY <2>1 DEF Selected
  <2>7. ASSUME NEW r \in Repos
        PROVE  asked'[r] <= Cardinality(Registered(r)') + Cardinality(Answered(r)')
    <3>1. Registered(r)' = Registered(r)
      BY <2>1 DEF Registered
    <3>2. /\ Answered(r) \in SUBSET (Answered(r)')
          /\ Answered(r)' \in SUBSET (1 .. Len(tools))
          /\ r = tools[i] => i \in Answered(r)' /\ i \notin Answered(r)
      BY <1>0, <2>1, <2>3, <2>4, <2>5, <2>6 DEF Answered, Answers
    <3>3. /\ Cardinality(Answered(r)') \in Nat
          /\ Cardinality(Answered(r)) <= Cardinality(Answered(r)')
          /\ r = tools[i] => Cardinality(Answered(r)) + 1 <= Cardinality(Answered(r)')
      BY <1>0, <3>2, PartOfInterval
    <3>4. asked'[r] = IF r = tools[i] THEN asked[r] + 1 ELSE asked[r]
      BY <1>0, <2>1, <2>3
    <3>5. /\ asked[r] <= Cardinality(Registered(r)) + Cardinality(Answered(r))
          /\ asked[r] \in Nat /\ Cardinality(Registered(r)) \in Nat
          /\ Cardinality(Answered(r)) \in Nat
      BY <1>0
    <3> QED
      BY <3>1, <3>3, <3>4, <3>5
  <2>8. asked' \in [Repos -> Nat]
    BY <1>t, <2>1, <2>3
  <2>9. main # "register"
    BY <1>0, <2>1, <2>3
  <2> QED
    BY <1>0, <2>1, <2>3, <2>4, <2>5, <2>6, <2>7, <2>8, <2>9 DEF ToolsInv
<1>2. ASSUME Register PROVE ToolsInv'
  <2>1. /\ main = "register" /\ turn <= Len(request) /\ turn' = turn + 1
        /\ UNCHANGED <<command, request>>
    BY <1>2 DEF Register
  <2>2. turn \in 1 .. Len(request) /\ request[turn] \in Arguments
    BY <1>t, <2>1
  <2>3. CASE request[turn][1] = "name" /\ UNCHANGED <<tools, links, answer, main, asked>>
    <3>1. Selected' = Selected
      BY <2>1, <2>3 DEF Selected
    <3>2. ASSUME NEW r \in Repos PROVE Registered(r)' = Registered(r) /\ Answered(r)' = Answered(r)
      <4>1. request[turn] # <<"repo", r>>
        BY <2>3
      <4> QED
        BY <1>t, <2>1, <2>3, <3>1, <4>1 DEF Registered, Answered
    <3>3. \A r \in Repos : asked'[r] <= Cardinality(Registered(r)') + Cardinality(Answered(r)')
      <4>1. \A r \in Repos : asked[r] <= Cardinality(Registered(r)) + Cardinality(Answered(r))
        BY <1>0
      <4>2. asked' = asked
        BY <2>3
      <4> QED
        BY <3>2, <4>1, <4>2, Zenon
    <3>4. turn' \in Nat \ {0} /\ request' = request
      BY <1>t, <2>1
    <3>5. \A i \in 1 .. Len(tools') : answer'[i] = "pending" => i \in Selected'
      BY <1>0, <2>3, <3>1, Zenon
    <3> HIDE DEF Registered, Answered, Selected
    <3> QED
      BY <1>0, <2>3, <3>3, <3>4, <3>5 DEF ToolsInv
  <2>4. CASE request[turn][1] = "repo"
    <3> DEFINE r0 == request[turn][2]
    <3>1. /\ asked' = [asked EXCEPT ![r0] = @ + 1]
          /\ \/ main' = "terminated" /\ UNCHANGED <<tools, links, answer>>
             \/ \E X \in {Links[r0], {}} : /\ tools' = Append(tools, r0)
                                           /\ links' = Append(links, X)
                                           /\ answer' = Append(answer, "none")
                                           /\ UNCHANGED main
      BY <1>2, <2>4 DEF Register
    <3>2. r0 \in Repos /\ request[turn] = <<"repo", r0>>
      BY <2>2, <2>4 DEF Arguments
    <3> HIDE DEF r0
    <3> DEFINE Goal ==
          /\ tools' \in Seq(Repos) /\ Len(Defaults) <= Len(tools') /\ Len(tools') \in Nat
          /\ links' \in Seq(SUBSET AllLinks) /\ Len(links') = Len(tools')
          /\ \A i \in 1 .. Len(tools') : links'[i] \subseteq Links[tools'[i]]
          /\ answer' \in Seq({"none", "pending"} \cup Answers) /\ Len(answer') = Len(tools')
          /\ \A i \in 1 .. Len(tools') : answer'[i] = "none"
          /\ main' \in {"register", "terminated"}
    <3>3. Goal
      <4>1. CASE main' = "terminated" /\ UNCHANGED <<tools, links, answer>>
        BY <1>0, <2>1, <4>1
      <4>2. ASSUME NEW X \in {Links[r0], {}}, tools' = Append(tools, r0),
                   links' = Append(links, X), answer' = Append(answer, "none"), UNCHANGED main
            PROVE  Goal
        <5>1. X \in SUBSET AllLinks /\ X \subseteq Links[r0]
          BY <1>a, <3>2, <4>2
        <5>0. /\ links \in Seq(SUBSET AllLinks) /\ Len(links) = Len(tools)
              /\ answer \in Seq({"none", "pending"} \cup Answers) /\ Len(answer) = Len(tools)
              /\ Len(tools) \in Nat
          BY <1>0
        <5>2. /\ tools' \in Seq(Repos) /\ Len(tools') = Len(tools) + 1
              /\ tools'[Len(tools) + 1] = r0
              /\ \A i \in 1 .. Len(tools) : tools'[i] = tools[i]
          BY <1>0, <3>2, <4>2
        <5>3. /\ links' \in Seq(SUBSET AllLinks) /\ Len(links') = Len(tools) + 1
              /\ links'[Len(tools) + 1] = X
              /\ \A i \in 1 .. Len(tools) : links'[i] = links[i]
          BY <4>2, <5>0, <5>1
        <5>4. /\ answer' \in Seq({"none", "pending"} \cup Answers) /\ Len(answer') = Len(tools) + 1
              /\ answer'[Len(tools) + 1] = "none"
              /\ \A i \in 1 .. Len(tools) : answer'[i] = answer[i]
          BY <4>2, <5>0
        <5>5. \A i \in 1 .. Len(tools') : i \in 1 .. Len(tools) \/ i = Len(tools) + 1
          BY <1>0, <5>2
        <5>6. /\ \A i \in 1 .. Len(tools') : links'[i] \subseteq Links[tools'[i]]
              /\ \A i \in 1 .. Len(tools') : answer'[i] = "none"
          BY <1>0, <2>1, <5>1, <5>2, <5>3, <5>4, <5>5
        <5>7. main' = "register"
          BY <2>1, <4>2
        <5>8. Len(Defaults) <= Len(tools') /\ Len(tools') \in Nat
          <6>1. Len(Defaults) \in Nat /\ Len(tools) \in Nat /\ Len(Defaults) <= Len(tools)
            BY <1>0
          <6>2. Len(tools') = Len(tools) + 1
            BY <5>2
          <6> QED
            BY <6>1, <6>2
        <5> QED
          BY <5>2, <5>3, <5>4, <5>6, <5>7, <5>8
      <4> HIDE DEF Goal
      <4> QED
        BY <3>1, <4>1, <4>2
    <3>4. ASSUME NEW r \in Repos
          PROVE  asked'[r] <= Cardinality(Registered(r)') + Cardinality(Answered(r)')
      <4>1. /\ Registered(r) \in SUBSET (Registered(r)')
            /\ Registered(r)' \in SUBSET (1 .. Len(request))
            /\ r = r0 => turn \in Registered(r)' /\ turn \notin Registered(r)
        BY <1>0, <2>1, <2>2, <3>2, SMTT(30) DEF Registered
      <4>2. /\ Cardinality(Registered(r)') \in Nat
            /\ Cardinality(Registered(r)) <= Cardinality(Registered(r)')
            /\ r = r0 => Cardinality(Registered(r)) + 1 <= Cardinality(Registered(r)')
        BY <1>0, <4>1, PartOfInterval
      <4>3. Answered(r)' = {}
        <5>1. Selected' \subseteq 1 .. Len(tools')
          <6>1. /\ Len(Defaults) \in Nat /\ Len(tools') \in Nat /\ Len(Defaults) <= Len(tools')
            BY <1>0, <3>3
          <6> QED
            BY <6>1 DEF Selected
        <5> QED
          BY <3>3, <5>1 DEF Answered, Answers
      <4>4. Cardinality(Answered(r)') = 0
        BY <4>3, FS_EmptySet
      <4>5. asked'[r] = IF r = r0 THEN asked[r] + 1 ELSE asked[r]
        BY <1>0, <3>1, <3>2
      <4>6. /\ asked[r] <= Cardinality(Registered(r)) /\ asked[r] \in Nat
            /\ Cardinality(Registered(r)) \in Nat
        BY <1>0, <1>b, <2>1
      <4> QED
        BY <4>2, <4>4, <4>5, <4>6
    <3>5. asked' \in [Repos -> Nat]
      BY <1>0, <3>1, <3>2, SMTT(30)
    <3>6. request' \in Seq(Arguments) /\ turn' \in Nat \ {0}
      BY <1>0, <2>1
    <3>7. \A i \in 1 .. Len(tools') : answer'[i] # "pending"
      BY <3>3
    <3>8. main' \in {"register", "extract", "check", "end", "terminated", "aborted"}
      BY <3>3
    <3> QED
      BY <3>3, <3>4, <3>5, <3>6, <3>7, <3>8 DEF ToolsInv
  <2> QED
    BY <1>2, <2>2, <2>3, <2>4 DEF Register
<1>3. ASSUME Fetch PROVE ToolsInv'
  <2>1. /\ main = "register" /\ turn > Len(request) /\ main' = "extract" /\ turn' = 1
        /\ answer' = [i \in DOMAIN tools |-> IF i \in Selected THEN "pending" ELSE answer[i]]
        /\ UNCHANGED <<command, request, tools, links, asked>>
    BY <1>3 DEF Fetch
  <2>2. Selected' = Selected
    BY <2>1 DEF Selected
  <2>3. /\ answer' = [i \in 1 .. Len(tools) |-> IF i \in Selected THEN "pending" ELSE "none"]
        /\ \A i \in 1 .. Len(tools) : answer'[i] = IF i \in Selected THEN "pending" ELSE "none"
    <3>1. DOMAIN tools = 1 .. Len(tools)
      BY <1>0
    <3>2. \A i \in 1 .. Len(tools) : answer[i] = "none"
      BY <1>0, <2>1
    <3> QED
      BY <2>1, <3>1, <3>2
  <2>4. answer' \in Seq({"none", "pending"} \cup Answers) /\ Len(answer') = Len(tools)
    BY <1>0, <2>3, IsASeq
  <2>5. ASSUME NEW r \in Repos
        PROVE  asked'[r] <= Cardinality(Registered(r)') + Cardinality(Answered(r)')
    <3>1. Registered(r)' = Registered(r)
      BY <1>0, <2>1 DEF Registered
    <3>2. Answered(r)' = {}
      BY <1>0, <2>1, <2>2, <2>3 DEF Answered, Answers
    <3>3. Cardinality(Answered(r)') = 0
      BY <3>2, FS_EmptySet
    <3> QED
      BY <1>0, <1>b, <2>1, <3>1, <3>3
  <2>6. \A i \in 1 .. Len(tools) : answer'[i] = "pending" => i \in Selected'
    BY <2>2, <2>3
  <2>7. main' = "extract" /\ turn' \in Nat \ {0}
    BY <2>1
  <2> HIDE DEF Selected
  <2> QED
    BY <1>0, <2>1, <2>4, <2>5, <2>6, <2>7 DEF ToolsInv
<1>4. ASSUME Extract PROVE ToolsInv'
  <2>1. /\ main = "extract" /\ turn <= Len(tools) /\ turn' = turn + 1
        /\ main' \in {"extract", "terminated"}
        /\ links' \in {links, [links EXCEPT ![turn] = @ \cup Links[tools[turn]]]}
        /\ UNCHANGED <<command, request, tools, answer, asked>>
    BY <1>4 DEF Extract
  <2>2. turn \in 1 .. Len(tools) /\ tools[turn] \in Repos
    <3>1. turn \in 1 .. Len(tools)
      BY <2>1, <1>t
    <3> QED
      BY <1>t, <3>1
  <2>3. /\ links' \in Seq(SUBSET AllLinks) /\ Len(links') = Len(tools)
        /\ \A i \in 1 .. Len(tools) : links'[i] \subseteq Links[tools[i]]
    <3>1. CASE links' = links
      BY <1>0, <3>1
    <3>2. CASE links' = [links EXCEPT ![turn] = @ \cup Links[tools[turn]]]
      <4> DEFINE X == links[turn] \cup Links[tools[turn]]
      <4>1. X \in SUBSET AllLinks /\ X \subseteq Links[tools[turn]]
        BY <1>0, <1>a, <2>2
      <4>2. links' = [links EXCEPT ![turn] = X]
        BY <3>2
      <4> HIDE DEF X
      <4>3. /\ links' \in Seq(SUBSET AllLinks) /\ Len(links') = Len(links)
            /\ \A i \in 1 .. Len(links) : links'[i] = IF i = turn THEN X ELSE links[i]
        <5>1. /\ links \in Seq(SUBSET AllLinks) /\ turn \in 1 .. Len(links)
              /\ X \in SUBSET AllLinks
          BY <1>0, <2>2, <4>1
        <5> HIDE DEF AllLinks
        <5> QED
          BY <4>2, <5>1, ExceptSeq
      <4>4. Len(links) = Len(tools) /\ \A i \in 1 .. Len(tools) : links[i] \subseteq Links[tools[i]]
        BY <1>0
      <4>5. ASSUME NEW i \in 1 .. Len(tools) PROVE links'[i] \subseteq Links[tools[i]]
        <5>1. CASE i = turn
          BY <4>1, <4>3, <4>4, <5>1, Zenon
        <5>2. CASE i # turn
          <6>1. links'[i] = links[i]
            BY <4>3, <4>4, <5>2
          <6> QED
            BY <4>4, <6>1, Zenon
        <5> QED
          BY <5>1, <5>2
      <4> QED
        BY <4>3, <4>4, <4>5
    <3> QED
      BY <2>1, <3>1, <3>2
  <2>4. Selected' = Selected
    BY <2>1 DEF Selected
  <2>5. \A r \in Repos : Registered(r)' = Registered(r) /\ Answered(r)' = Answered(r)
    BY <2>1, <2>4 DEF Registered, Answered
  <2>6. /\ turn' \in Nat \ {0}
        /\ main' \in {"register", "extract", "check", "end", "terminated", "aborted"} /\ main' # "register"
    BY <2>1, <1>t
  <2>7. \A r \in Repos : asked'[r] <= Cardinality(Registered(r)') + Cardinality(Answered(r)')
    BY <1>0, <2>1, <2>5
  <2>8. \A i \in 1 .. Len(tools) : answer'[i] = "pending" => i \in Selected'
    BY <1>0, <2>1, <2>4
  <2> QED
    BY <1>0, <2>1, <2>3, <2>6, <2>7, <2>8 DEF ToolsInv
<1> QED
  BY <1>1, <1>2, <1>3, <1>4

(* Afterwards nothing more is asked for.                                     *)
LEMMA ToolsKept ==
  ASSUME ToolsInv, UNCHANGED <<command, request, tools, links, answer, asked>>,
         \/ UNCHANGED <<main, turn>>
         \/ main # "register" /\ main' \in {"check", "end", "aborted"} /\ turn' \in Nat \ {0}
  PROVE  ToolsInv' /\ Selected' = Selected /\ Wanted' = Wanted
<1>1. Selected' = Selected
  BY DEF Selected
<1>2. Wanted' = Wanted
  BY <1>1 DEF Wanted
<1>3. \A r \in Repos : Registered(r)' = Registered(r) /\ Answered(r)' = Answered(r)
  <2>1. (main' = "register" => main = "register" /\ turn' = turn) /\ (main = "register" => main' = main)
    OBVIOUS
  <2> QED
    BY <1>1, <2>1 DEF Registered, Answered
<1>4. \A r \in Repos : asked'[r] <= Cardinality(Registered(r)') + Cardinality(Answered(r)')
  BY <1>3 DEF ToolsInv
<1>5. /\ turn' \in Nat \ {0}
      /\ main' \in {"register", "extract", "check", "end", "terminated", "aborted"}
      /\ main' = "register" => main = "register"
  BY DEF ToolsInv
<1>6. ToolsInv'
  BY <1>1, <1>4, <1>5 DEF ToolsInv
<1> QED
  BY <1>1, <1>2, <1>6

(* The places of the links that are wanted are numbers.                      *)
LEMMA WantedTools == ToolsInv => \A d \in Wanted : d[1] \in 1 .. Len(tools)
<1> SUFFICES ASSUME ToolsInv, NEW d \in Wanted PROVE d[1] \in 1 .. Len(tools)
  OBVIOUS
<1>1. d[1] \in Selected
  BY DEF Wanted
<1> QED
  BY <1>1, SelectedTools

(* What main() does about the downloads.                                     *)
LEMMA MainStep == ASSUME DownInv, Start \/ Check \/ Finish PROVE DownInv'
<1>0. ToolsInv /\ AnnounceInv /\ FileInv /\ HandleInv /\ Len(tools) \in Nat /\ turn \in Nat \ {0}
  BY DEF DownInv, ToolsInv
<1>1. ASSUME Start PROVE DownInv'
  <2>1. /\ main = "extract" /\ turn' = 1
        /\ UNCHANGED <<command, request, toFile, tools, links, answer, disk, announced, asked,
                       handles, unopened, lost>>
        /\ main' = IF command = "latest" THEN "end" ELSE "check"
        /\ downloads' = IF command = "latest" THEN downloads ELSE [d \in Wanted |-> "opening"]
        /\ written' = [d \in DOMAIN downloads' |-> 0]
    BY <1>1 DEF Start, Wanted
  <2>2. ToolsInv' /\ Wanted' = Wanted
    BY <1>0, <2>1, ToolsKept
  <2>3. DOMAIN downloads = {} /\ DOMAIN announced = {} /\ ~Begun
    BY <1>0, <2>1 DEF AnnounceInv, Begun
  <2>4. /\ DOMAIN downloads' = IF Begun' THEN Wanted ELSE {}
        /\ \A d \in DOMAIN downloads' : downloads'[d] = "opening" /\ written'[d] = 0
        /\ downloads' \in [DOMAIN downloads' -> {"opening", "writing", "ok", "failed", "threw"}]
        /\ written' \in [DOMAIN downloads' -> 0 .. Blocks]
    <3>1. CASE command = "latest"
      <4>1. downloads' = downloads /\ ~Begun'
        BY <2>1, <3>1 DEF Begun
      <4> QED
        BY <1>0, <2>1, <2>3, <4>1 DEF AnnounceInv
    <3>2. CASE command # "latest"
      <4>1. downloads' = [d \in Wanted |-> "opening"] /\ Begun'
        BY <2>1, <3>2 DEF Begun
      <4> QED
        BY <2>1, <4>1, DownAssumption
    <3> QED
      BY <3>1, <3>2
  <2>5. AnnounceInv'
    <3>1. {d \in DOMAIN downloads' : main' = "check" => d[1] < turn'} = {}
      <4>1. Begun' => main' = "check"
        BY <2>1 DEF Begun
      <4>2. \A d \in DOMAIN downloads' : d[1] \in 1 .. Len(tools) /\ main' = "check"
        BY <1>0, <2>4, <4>1, WantedTools
      <4> QED
        BY <1>0, <2>1, <4>2
    <3>2. announced' = [d \in DOMAIN announced' |-> announced'[d]] /\ DOMAIN announced' = {}
      BY <1>0, <2>1, <2>3 DEF AnnounceInv
    <3>3. main' # "aborted"
      BY <2>1
    <3> QED
      BY <2>2, <2>4, <3>1, <3>2, <3>3 DEF AnnounceInv
  <2>6. FileInv'
    BY <1>0, <2>1, <2>4 DEF FileInv
  <2>7. HandleInv'
    <3>1. Transferring = {} /\ Transferring' = {}
      BY <2>3, <2>4 DEF Transferring
    <3> QED
      BY <1>0, <2>1, <3>1 DEF HandleInv
  <2> QED
    BY <2>2, <2>5, <2>6, <2>7 DEF DownInv
<1>a. ASSUME UNCHANGED <<toFile, downloads, written, disk, handles, unopened, lost>>
      PROVE  FileInv' /\ HandleInv'
  <2>1. \A d : Alone(d)' = Alone(d) /\ Target(d)' = Target(d)
    BY <1>a DEF Alone, Target
  <2>2. Transferring' = Transferring
    BY <1>a DEF Transferring
  <2> QED
    BY <1>0, <1>a, <2>1, <2>2 DEF FileInv, HandleInv
<1>2. ASSUME Check PROVE DownInv'
  <2> DEFINE mine == {d \in DOMAIN downloads : d[1] = turn}
             Told(S) == [d \in DOMAIN announced \cup S |->
                           IF d \in S THEN downloads[d] ELSE announced[d]]
  <2>1. /\ main = "check" /\ turn <= Len(tools)
        /\ UNCHANGED <<command, request, toFile, tools, links, answer, downloads, written,
                       disk, asked, handles, unopened, lost>>
        /\ \/ /\ \A d \in mine : downloads[d] \in {"ok", "failed"}
              /\ announced' = Told(mine) /\ turn' = turn + 1 /\ UNCHANGED main
           \/ /\ \E d \in mine : downloads[d] = "threw"
              /\ \E S \in SUBSET {d \in mine : downloads[d] \in {"ok", "failed"}} : announced' = Told(S)
              /\ main' = "aborted" /\ UNCHANGED turn
    BY <1>2 DEF Check
  <2>2. ToolsInv' /\ Wanted' = Wanted /\ Begun' = Begun
    <3>1. turn' \in Nat \ {0} /\ main' \in {"check", "end", "aborted"} /\ main # "register"
      BY <1>0, <2>1
    <3>2. Begun' = Begun
      BY <2>1 DEF Begun
    <3> QED
      BY <1>0, <2>1, <3>1, <3>2, ToolsKept
  <2>3. DOMAIN announced = {d \in DOMAIN downloads : d[1] < turn}
    BY <1>0, <2>1 DEF AnnounceInv
  (* What is told of a set of downloads that are over is true of them.       *)
  <2>4. ASSUME NEW S \in SUBSET {d \in DOMAIN downloads : downloads[d] \in {"ok", "failed"}},
               announced' = Told(S)
        PROVE  /\ DOMAIN announced' = DOMAIN announced \cup S
               /\ DOMAIN announced' \subseteq DOMAIN downloads
               /\ announced' = [d \in DOMAIN announced' |-> announced'[d]]
               /\ \A d \in DOMAIN announced' :
                    announced'[d] = downloads[d] /\ downloads[d] \in {"ok", "failed"}
    <3>1. \A d \in DOMAIN announced : /\ announced[d] = downloads[d]
                                      /\ downloads[d] \in {"ok", "failed"}
      BY <1>0 DEF AnnounceInv
    <3> QED
      BY <2>3, <2>4, <3>1
  <2>5. CASE /\ \A d \in mine : downloads[d] \in {"ok", "failed"}
             /\ announced' = Told(mine) /\ turn' = turn + 1 /\ UNCHANGED main
    <3>1. /\ DOMAIN announced' = DOMAIN announced \cup mine
          /\ announced' = [d \in DOMAIN announced' |-> announced'[d]]
          /\ \A d \in DOMAIN announced' :
               announced'[d] = downloads[d] /\ downloads[d] \in {"ok", "failed"}
      <4>1. mine \in SUBSET {d \in DOMAIN downloads : downloads[d] \in {"ok", "failed"}}
        BY <2>5
      <4> HIDE DEF mine, Told
      <4> QED
        BY <2>4, <2>5, <4>1
    <3>2. \A d \in DOMAIN downloads : d[1] \in Nat
      <4>1. DOMAIN downloads \subseteq Wanted
        BY <1>0 DEF AnnounceInv
      <4> QED
        BY <1>0, <4>1, WantedTools
    <3>3. DOMAIN announced' = {d \in DOMAIN downloads : d[1] < turn + 1}
      <4>1. \A d \in DOMAIN downloads : d[1] < turn + 1 <=> (d[1] < turn \/ d[1] = turn)
        BY <1>0, <3>2
      <4> QED
        BY <2>3, <3>1, <4>1
    <3> HIDE DEF mine, Told
    <3>4. {d \in DOMAIN downloads' : main' = "check" => d[1] < turn'}
            = {d \in DOMAIN downloads : d[1] < turn + 1}
      BY <2>1, <2>5
    <3>5. AnnounceInv'
      BY <1>0, <2>1, <2>2, <2>5, <3>1, <3>3, <3>4 DEF AnnounceInv
    <3> QED
      BY <1>a, <2>1, <2>2, <3>5 DEF DownInv
  <2>6. CASE /\ \E d \in mine : downloads[d] = "threw"
             /\ \E S \in SUBSET {d \in mine : downloads[d] \in {"ok", "failed"}} : announced' = Told(S)
             /\ main' = "aborted" /\ UNCHANGED turn
    <3>1. PICK S \in SUBSET {d \in mine : downloads[d] \in {"ok", "failed"}} : announced' = Told(S)
      BY <2>6
    <3>2. S \in SUBSET {d \in DOMAIN downloads : downloads[d] \in {"ok", "failed"}}
      BY <3>1
    <3>3. \E d \in DOMAIN downloads : downloads[d] = "threw"
      BY <2>6
    <3> HIDE DEF mine, Told
    <3>4. /\ DOMAIN announced' \subseteq DOMAIN downloads
          /\ announced' = [d \in DOMAIN announced' |-> announced'[d]]
          /\ \A d \in DOMAIN announced' :
               announced'[d] = downloads[d] /\ downloads[d] \in {"ok", "failed"}
      BY <2>4, <3>1, <3>2
    <3>5. AnnounceInv'
      BY <1>0, <2>1, <2>2, <2>6, <3>3, <3>4 DEF AnnounceInv
    <3> QED
      BY <1>a, <2>1, <2>2, <3>5 DEF DownInv
  <2> QED
    BY <2>1, <2>5, <2>6
<1>3. ASSUME Finish PROVE DownInv'
  <2>1. /\ main = "check" /\ turn > Len(tools) /\ main' = "end"
        /\ UNCHANGED <<command, request, toFile, tools, links, answer, turn, downloads, written,
                       disk, announced, asked, handles, unopened, lost>>
    BY <1>3 DEF Finish
  <2>2. ToolsInv' /\ Wanted' = Wanted
    <3>1. turn' \in Nat \ {0} /\ main' \in {"check", "end", "aborted"} /\ main # "register"
      BY <1>0, <2>1
    <3> QED
      BY <1>0, <2>1, <3>1, ToolsKept
  <2>3. \A d \in DOMAIN downloads : d[1] < turn
    <3>1. DOMAIN downloads \subseteq Wanted
      BY <1>0 DEF AnnounceInv
    <3> QED
      BY <1>0, <2>1, <3>1, WantedTools
  <2>4. Begun' = Begun
    BY <2>1 DEF Begun
  <2>5. AnnounceInv'
    BY <1>0, <2>1, <2>2, <2>3, <2>4 DEF AnnounceInv
  <2> QED
    BY <1>a, <2>1, <2>2, <2>5 DEF DownInv
<1> QED
  BY <1>1, <1>2, <1>3

(* What the thread of a download does.                                       *)
LEMMA ThreadStep ==
  ASSUME DownInv, NEW d \in DOMAIN downloads, main # "aborted",
         OpenFile(d) \/ Write(d) \/ EndDownload(d)
  PROVE  DownInv'
<1>0. ToolsInv /\ AnnounceInv /\ FileInv /\ HandleInv /\ Blocks \in Nat
  BY DownAssumption DEF DownInv
<1>1. /\ UNCHANGED <<command, request, toFile, tools, links, answer, main, turn, announced, asked>>
      /\ downloads[d] \in {"opening", "writing"}
  BY DEF OpenFile, Write, EndDownload
<1>2. ToolsInv' /\ Wanted' = Wanted
  BY <1>0, <1>1, ToolsKept
<1>3. /\ downloads \in [DOMAIN downloads -> {"opening", "writing", "ok", "failed", "threw"}]
      /\ written \in [DOMAIN downloads -> 0 .. Blocks]
  BY <1>0 DEF AnnounceInv
<1>4. Begun' = Begun /\ \A u : Target(u)' = Target(u)
  BY <1>1 DEF Begun, Target
<1>5. d \notin DOMAIN announced
  BY <1>0, <1>1 DEF AnnounceInv
(* Only what this download knows has to be looked at.                        *)
<1>6. ASSUME NEW state \in {"opening", "writing", "ok", "failed", "threw"}, NEW n \in 0 .. Blocks,
             downloads' = [downloads EXCEPT ![d] = state],
             written' = [written EXCEPT ![d] = n]
      PROVE  /\ DOMAIN downloads' = DOMAIN downloads /\ AnnounceInv'
             /\ \A e \in DOMAIN downloads : Alone(e)' = Alone(e)
             /\ downloads'[d] = state /\ written'[d] = n
             /\ \A e \in DOMAIN downloads :
                  e # d => downloads'[e] = downloads[e] /\ written'[e] = written[e]
  <2>1. /\ DOMAIN downloads' = DOMAIN downloads
        /\ downloads'[d] = state /\ written'[d] = n
        /\ \A e \in DOMAIN downloads :
             e # d => downloads'[e] = downloads[e] /\ written'[e] = written[e]
        /\ downloads' \in [DOMAIN downloads -> {"opening", "writing", "ok", "failed", "threw"}]
        /\ written' \in [DOMAIN downloads -> 0 .. Blocks]
    BY <1>3, <1>6
  <2>2. \A e \in DOMAIN downloads : Alone(e)' = Alone(e)
    BY <1>4, <2>1 DEF Alone
  <2>3. \A e \in DOMAIN announced : e # d /\ e \in DOMAIN downloads
    BY <1>0, <1>5 DEF AnnounceInv
  <2>4. AnnounceInv'
    BY <1>0, <1>1, <1>2, <1>4, <2>1, <2>3 DEF AnnounceInv
  <2> QED
    BY <2>1, <2>2, <2>4
<1>7. ASSUME OpenFile(d) PROVE DownInv'
  <2>1. downloads[d] = "opening" /\ UNCHANGED <<written, lost>> /\ written[d] = 0
    BY <1>0, <1>7 DEF OpenFile, FileInv
  <2>2. written' = [written EXCEPT ![d] = 0] /\ 0 \in 0 .. Blocks
    BY <1>0, <1>3, <2>1
  <2>3. ASSUME NEW how \in {"failed", "threw"},
               downloads' = [downloads EXCEPT ![d] = how], UNCHANGED disk,
               \/ UNCHANGED <<handles, unopened>>
               \/ handles' = handles + 1 /\ unopened' = unopened + 1
        PROVE  DownInv'
    <3>1. /\ DOMAIN downloads' = DOMAIN downloads /\ AnnounceInv'
          /\ \A e \in DOMAIN downloads : Alone(e)' = Alone(e)
          /\ downloads'[d] = how /\ written'[d] = 0
          /\ \A e \in DOMAIN downloads :
               e # d => downloads'[e] = downloads[e] /\ written'[e] = written[e]
      BY <1>6, <2>2, <2>3
    <3>2. FileInv'
      BY <1>0, <1>4, <2>1, <2>3, <3>1 DEF FileInv
    <3>3. Transferring' = Transferring
      BY <2>1, <3>1 DEF Transferring
    <3>4. HandleInv'
      <4>1. Cardinality(Transferring) \in Nat
        BY <1>0, FS_CardinalityType DEF HandleInv
      <4> QED
        BY <1>0, <2>3, <3>3, <4>1 DEF HandleInv
    <3> QED
      BY <1>2, <3>1, <3>2, <3>4 DEF DownInv
  <2>4. CASE /\ downloads' = [downloads EXCEPT ![d] = "writing"]
             /\ handles' = handles + 1 /\ UNCHANGED unopened
             /\ disk' = [f \in DOMAIN disk \cup {Target(d[2])} |->
                           IF f = Target(d[2]) THEN <<>> ELSE disk[f]]
    <3>1. /\ DOMAIN downloads' = DOMAIN downloads /\ AnnounceInv'
          /\ \A e \in DOMAIN downloads : Alone(e)' = Alone(e)
          /\ downloads'[d] = "writing" /\ written'[d] = 0
          /\ \A e \in DOMAIN downloads :
               e # d => downloads'[e] = downloads[e] /\ written'[e] = written[e]
      BY <1>6, <2>2, <2>4
    <3>2. disk'[Target(d[2])] = [k \in 1 .. 0 |-> d[2]] /\ Target(d[2]) \in DOMAIN disk'
      <4>1. [k \in 1 .. 0 |-> d[2]] = <<>>
        OBVIOUS
      <4> QED
        BY <2>4, <4>1
    <3>3. FileInv'
      <4>1. disk' = [f \in DOMAIN disk' |-> disk'[f]]
        BY <2>4
      <4>2. ASSUME NEW e \in DOMAIN downloads, e # d, Alone(e), e \notin lost,
                   downloads[e] \in {"writing", "ok"}
            PROVE  /\ Target(e[2]) \in DOMAIN disk'
                   /\ disk'[Target(e[2])] = [k \in 1 .. written[e] |-> e[2]]
        <5>1. Target(e[2]) # Target(d[2])
          BY <4>2 DEF Alone
        <5>2. /\ Target(e[2]) \in DOMAIN disk
              /\ disk[Target(e[2])] = [k \in 1 .. written[e] |-> e[2]]
          BY <1>0, <4>2 DEF FileInv
        <5> QED
          BY <2>4, <5>1, <5>2
      <4>3. \A e \in DOMAIN downloads :
              e # d => /\ downloads[e] = "opening" => written[e] = 0
                       /\ downloads[e] = "ok" => written[e] = Blocks
        BY <1>0 DEF FileInv
      <4> QED
        BY <1>4, <2>1, <3>1, <3>2, <4>1, <4>2, <4>3 DEF FileInv
    <3>4. Transferring' = Transferring \cup {d} /\ d \notin Transferring
      BY <2>1, <3>1 DEF Transferring
    <3>5. HandleInv'
      <4>1. IsFiniteSet(Transferring) /\ Cardinality(Transferring) \in Nat
        BY <1>0, FS_CardinalityType DEF HandleInv
      <4>2. /\ IsFiniteSet(Transferring')
            /\ Cardinality(Transferring') = Cardinality(Transferring) + 1
        BY <3>4, <4>1, FS_AddElement
      <4> QED
        BY <1>0, <2>4, <4>1, <4>2 DEF HandleInv
    <3> QED
      BY <1>2, <3>1, <3>3, <3>5 DEF DownInv
  <2>5. "failed" \in {"failed", "threw"}
    OBVIOUS
  <2>6. \/ downloads' = [downloads EXCEPT ![d] = "failed"] /\ UNCHANGED <<disk, handles, unopened>>
        \/ /\ \E how \in {"failed", "threw"} : downloads' = [downloads EXCEPT ![d] = how]
           /\ handles' = handles + 1 /\ unopened' = unopened + 1 /\ UNCHANGED disk
        \/ /\ downloads' = [downloads EXCEPT ![d] = "writing"]
           /\ handles' = handles + 1 /\ UNCHANGED unopened
           /\ disk' = [f \in DOMAIN disk \cup {Target(d[2])} |->
                         IF f = Target(d[2]) THEN <<>> ELSE disk[f]]
    BY <1>7 DEF OpenFile
  <2> QED
    BY <2>3, <2>4, <2>5, <2>6
<1>8. ASSUME Write(d) PROVE DownInv'
  <2> DEFINE f == Target(d[2])
             n == written[d] + 1
  <2>1. /\ downloads[d] = "writing" /\ written[d] < Blocks /\ written' = [written EXCEPT ![d] = n]
        /\ UNCHANGED <<downloads, handles, unopened>>
    BY <1>8 DEF Write
  <2>2. n \in 0 .. Blocks /\ n \in Nat /\ written[d] \in Nat
    BY <1>3, <1>0, <2>1
  <2>3. downloads' = [downloads EXCEPT ![d] = "writing"]
    BY <1>3, <2>1
  <2> HIDE DEF n
  <2>4. /\ AnnounceInv' /\ written'[d] = n
        /\ \A e \in DOMAIN downloads : Alone(e)' = Alone(e)
        /\ \A e \in DOMAIN downloads : e # d => written'[e] = written[e]
    BY <1>6, <2>1, <2>2, <2>3
  <2>5. /\ disk' = [g \in DOMAIN disk |-> disk'[g]]
        /\ \A g \in DOMAIN disk : g # f => disk'[g] = disk[g]
        /\ lost \subseteq lost'
        /\ d \notin lost' /\ f \in DOMAIN disk =>
             disk'[f] = [k \in (1 .. Len(disk[f])) \cup (1 .. n) |->
                           IF k = n THEN d[2] ELSE IF k <= Len(disk[f]) THEN disk[f][k] ELSE Hole]
    <3>1. disk = [g \in DOMAIN disk |-> disk[g]]
      BY <1>0 DEF FileInv
    <3>2. CASE lost' = lost \cup {d} /\ UNCHANGED disk
      BY <3>1, <3>2
    <3>3. CASE disk' = [disk EXCEPT ![f] = [k \in (1 .. Len(@)) \cup (1 .. n) |->
                  IF k = n THEN d[2] ELSE IF k <= Len(disk[f]) THEN disk[f][k] ELSE Hole]]
               /\ UNCHANGED lost
      <4> DEFINE x == [k \in (1 .. Len(disk[f])) \cup (1 .. n) |->
                  IF k = n THEN d[2] ELSE IF k <= Len(disk[f]) THEN disk[f][k] ELSE Hole]
      <4>1. disk' = [disk EXCEPT ![f] = x] /\ UNCHANGED lost
        BY <3>3
      <4> HIDE DEF x, f
      <4>2. /\ disk' = [g \in DOMAIN disk |-> disk'[g]]
            /\ \A g \in DOMAIN disk : g # f => disk'[g] = disk[g]
            /\ f \in DOMAIN disk => disk'[f] = x
        BY <3>1, <4>1
      <4> QED
        BY <4>1, <4>2 DEF x
    <3> QED
      BY <1>8, <3>2, <3>3 DEF Write, n
  <2>6. FileInv'
    <3>1. disk' = [g \in DOMAIN disk' |-> disk'[g]] /\ DOMAIN disk' = DOMAIN disk
      BY <2>5
    <3>2. ASSUME NEW e \in DOMAIN downloads, e # d, Alone(e), e \notin lost',
                 downloads[e] \in {"writing", "ok"}
          PROVE  /\ Target(e[2]) \in DOMAIN disk'
                 /\ disk'[Target(e[2])] = [k \in 1 .. written[e] |-> e[2]]
      <4>1. Target(e[2]) # f
        BY <3>2 DEF Alone
      <4>2. /\ Target(e[2]) \in DOMAIN disk
            /\ disk[Target(e[2])] = [k \in 1 .. written[e] |-> e[2]]
        BY <1>0, <2>5, <3>2 DEF FileInv
      <4> QED
        BY <2>5, <3>1, <4>1, <4>2
    <3>3. ASSUME Alone(d), d \notin lost'
          PROVE  f \in DOMAIN disk' /\ disk'[f] = [k \in 1 .. n |-> d[2]]
      <4>1. f \in DOMAIN disk /\ disk[f] = [k \in 1 .. written[d] |-> d[2]]
        BY <1>0, <2>1, <2>5, <3>3 DEF FileInv
      <4>2. Len(disk[f]) = written[d] /\ \A k \in 1 .. written[d] : disk[f][k] = d[2]
        <5>1. [k \in 1 .. written[d] |-> d[2]] \in Seq({d[2]})
          BY <2>2, IsASeq
        <5>2. disk[f] \in Seq({d[2]}) /\ DOMAIN disk[f] = 1 .. written[d]
          BY <4>1, <5>1
        <5> QED
          BY <2>2, <4>1, <5>2
      <4>3. (1 .. Len(disk[f])) \cup (1 .. n) = 1 .. n
        BY <2>2, <4>2 DEF n
      <4>4. \A k \in 1 .. n : k # n => k <= Len(disk[f]) /\ disk[f][k] = d[2]
        BY <2>2, <4>2 DEF n
      <4>5. disk'[f] = [k \in 1 .. n |->
              IF k = n THEN d[2] ELSE IF k <= Len(disk[f]) THEN disk[f][k] ELSE Hole]
        BY <2>5, <3>3, <4>1, <4>3
      <4> HIDE DEF f
      <4>6. disk'[f] = [k \in 1 .. n |-> d[2]]
        BY <4>4, <4>5
      <4> QED
        BY <3>1, <4>1, <4>6
    <3>4. \A e \in DOMAIN downloads :
            e # d => /\ downloads[e] = "opening" => written[e] = 0
                     /\ downloads[e] = "ok" => written[e] = Blocks
      BY <1>0 DEF FileInv
    <3>5. DOMAIN downloads' = DOMAIN downloads /\ downloads' = downloads
          /\ \A e : Target(e[2])' = Target(e[2])
      BY <1>4, <2>1
    <3>6. ASSUME NEW e \in DOMAIN downloads
          PROVE  /\ downloads[e] = "opening" => written'[e] = 0
                 /\ downloads[e] = "ok" => written'[e] = Blocks
                 /\ downloads[e] \in {"writing", "ok"} /\ e \notin lost' /\ Alone(e) =>
                      /\ Target(e[2]) \in DOMAIN disk'
                      /\ disk'[Target(e[2])] = [k \in 1 .. written'[e] |-> e[2]]
      <4>1. CASE e = d
        BY <2>1, <2>4, <3>3, <4>1
      <4>2. CASE e # d
        <5>1. written'[e] = written[e]
          BY <2>4, <4>2
        <5> QED
          BY <3>2, <3>4, <4>2, <5>1
      <4> QED
        BY <4>1, <4>2
    <3> QED
      BY <2>4, <3>1, <3>5, <3>6 DEF FileInv
  <2>7. HandleInv'
    <3>1. Transferring' = Transferring
      BY <2>1 DEF Transferring
    <3> QED
      BY <1>0, <2>1, <3>1 DEF HandleInv
  <2> QED
    BY <1>2, <2>4, <2>6, <2>7 DEF DownInv
<1>9. ASSUME EndDownload(d) PROVE DownInv'
  <2>1. /\ downloads[d] = "writing" /\ handles' = handles - 1
        /\ UNCHANGED <<written, disk, unopened, lost>>
    BY <1>9 DEF EndDownload
  <2>2. PICK state \in {"ok", "failed"} : /\ downloads' = [downloads EXCEPT ![d] = state]
                                          /\ state = "ok" => written[d] = Blocks
    BY <1>9 DEF EndDownload
  <2>3. written' = [written EXCEPT ![d] = written[d]] /\ written[d] \in 0 .. Blocks
    BY <1>3, <2>1
  <2>4. /\ DOMAIN downloads' = DOMAIN downloads /\ AnnounceInv'
        /\ \A e \in DOMAIN downloads : Alone(e)' = Alone(e)
        /\ downloads'[d] = state
        /\ \A e \in DOMAIN downloads : e # d => downloads'[e] = downloads[e]
    BY <1>6, <2>2, <2>3
  <2>5. FileInv'
    BY <1>0, <1>4, <2>1, <2>2, <2>4 DEF FileInv
  <2>6. Transferring' = Transferring \ {d} /\ d \in Transferring
    BY <2>1, <2>2, <2>4 DEF Transferring
  <2>7. HandleInv'
    <3>1. IsFiniteSet(Transferring) /\ Cardinality(Transferring) \in Nat
      BY <1>0, FS_CardinalityType DEF HandleInv
    <3>2. /\ IsFiniteSet(Transferring')
          /\ Cardinality(Transferring') = Cardinality(Transferring) - 1
      BY <2>6, <3>1, FS_RemoveElement
    <3> QED
      BY <1>0, <2>1, <3>1, <3>2 DEF HandleInv
  <2> QED
    BY <1>2, <2>4, <2>5, <2>7 DEF DownInv
<1> QED
  BY <1>7, <1>8, <1>9

(* While it is asked about tools nothing is downloaded.                      *)
LEMMA DownStep == DownInv /\ (DownNext \/ UNCHANGED downVars) => DownInv'
<1> SUFFICES ASSUME DownInv, DownNext \/ UNCHANGED downVars PROVE DownInv'
  OBVIOUS
<1>0. ToolsInv /\ AnnounceInv /\ FileInv /\ HandleInv
  BY DEF DownInv
<1>1. ASSUME ToolsInv', Begun' = Begun, Begun => Wanted' = Wanted,
             Begun => UNCHANGED <<main, turn>>, main' = "aborted" => main = "aborted",
             UNCHANGED <<toFile, downloads, written, disk, announced, handles, unopened, lost>>
      PROVE  DownInv'
  <2>1. AnnounceInv'
    BY <1>0, <1>1 DEF AnnounceInv
  <2>2. \A d : Alone(d)' = Alone(d) /\ Target(d)' = Target(d)
    BY <1>1 DEF Alone, Target
  <2>3. Transferring' = Transferring
    BY <1>1 DEF Transferring
  <2>4. FileInv' /\ HandleInv'
    BY <1>0, <1>1, <2>2, <2>3 DEF FileInv, HandleInv
  <2> QED
    BY <1>1, <2>1, <2>4 DEF DownInv
<1>2. ASSUME Register \/ Fetch \/ Extract PROVE DownInv'
  <2>1. ToolsInv'
    BY <1>0, <1>2, AskStep
  <2>2. /\ main \notin {"check", "end", "aborted"} /\ main' \notin {"check", "end", "aborted"}
        /\ UNCHANGED <<toFile, downloads, written, disk, announced, handles, unopened, lost>>
    BY <1>2 DEF Register, Fetch, Extract
  <2>3. ~Begun /\ ~Begun' /\ Begun' = Begun
    BY <2>2 DEF Begun
  <2>4. (Begun => Wanted' = Wanted) /\ (Begun => UNCHANGED <<main, turn>>)
    BY <2>3
  <2> QED
    BY <1>1, <2>1, <2>2, <2>3, <2>4
<1>3. ASSUME NEW i \in DOMAIN answer, Respond(i) PROVE DownInv'
  <2>1. ToolsInv'
    BY <1>0, <1>3, AskStep
  <2>2. UNCHANGED <<command, request, toFile, tools, links, main, turn, downloads, written,
                    disk, announced, handles, unopened, lost>>
    BY <1>3 DEF Respond
  <2>3. Begun' = Begun /\ Wanted' = Wanted
    BY <2>2 DEF Begun, Wanted, Selected
  <2> QED
    BY <1>1, <2>1, <2>2, <2>3
<1>4. ASSUME UNCHANGED downVars PROVE DownInv'
  <2>1. UNCHANGED <<command, request, toFile, tools, links, answer, main, turn, downloads, written,
                    disk, announced, asked, handles, unopened, lost>>
    BY <1>4 DEF downVars
  <2>2. ToolsInv' /\ Wanted' = Wanted
    BY <1>0, <2>1, ToolsKept
  <2>3. Begun' = Begun
    BY <2>1 DEF Begun
  <2> QED
    BY <1>1, <2>1, <2>2, <2>3
<1>5. CASE DownNext
  <2>1. main # "aborted"
    BY <1>5 DEF DownNext
  <2> QED
    BY <1>2, <1>3, <1>5, <2>1, MainStep, ThreadStep DEF DownNext
<1> QED
  BY <1>4, <1>5

(* Whatever the network, the disk and the threads do: nothing is looked up   *)
(* whose name was not asked for, nor twice; every link is announced as what  *)
(* became of it, unless a download threw and ended the program; a success is *)
(* a whole file unless somebody else wrote to it or a write was lost; and    *)
(* only handles of files that could not be opened are left over.             *)
THEOREM DownloadsCorrect == DownSpec => []DownloaderCorrect
<1>1. DownInv /\ [DownNext]_downVars => DownInv'
  BY DownStep, Zenon
<1>2. DownInv => DownloaderCorrect
  <2> SUFFICES ASSUME DownInv PROVE DownloaderCorrect
    OBVIOUS
  <2>0. /\ ToolsInv /\ AnnounceInv /\ FileInv /\ HandleInv /\ Blocks \in Nat
        /\ Selected \subseteq 1 .. Len(tools) /\ Len(tools) \in Nat /\ Len(request) \in Nat
    BY SelectedTools, DownAssumption DEF DownInv, ToolsInv
  <2>1. DownTypeOK
    <3>1. /\ DOMAIN links = 1 .. Len(tools) /\ DOMAIN answer = 1 .. Len(tools)
          /\ DOMAIN tools = 1 .. Len(tools)
      BY <2>0 DEF ToolsInv
    <3>2. \A i \in 1 .. Len(tools) : tools[i] \in Repos /\ links[i] \subseteq Links[tools[i]]
      BY <2>0 DEF ToolsInv
    <3> QED
      BY <2>0, <3>1, <3>2 DEF DownTypeOK, AnnounceInv
  <2>2. AsksForWantedOnly
    <3> SUFFICES ASSUME NEW r \in Repos
                 PROVE  /\ asked[r] <= Cardinality({i \in Selected : tools[i] = r})
                             + Cardinality({k \in DOMAIN request : request[k] = <<"repo", r>>})
                        /\ command = "some" /\ asked[r] > 0 =>
                             \E k \in DOMAIN request : NameOf(request[k]) = Name[r]
      BY DEF AsksForWantedOnly
    <3> DEFINE S == {i \in Selected : tools[i] = r}
               T == {k \in DOMAIN request : request[k] = <<"repo", r>>}
    <3>1. S \in SUBSET (1 .. Len(tools)) /\ Answered(r) \in SUBSET S
      BY <2>0 DEF Answered
    <3>2. DOMAIN request = 1 .. Len(request)
      BY <2>0 DEF ToolsInv
    <3>3. T \in SUBSET (1 .. Len(request)) /\ Registered(r) \in SUBSET T
      BY <3>2 DEF Registered
    <3>0. ASSUME command = "some", S # {} \/ T # {}
          PROVE  \E k \in DOMAIN request : NameOf(request[k]) = Name[r]
      <4>1. CASE S # {}
        BY <3>0, <3>2, <4>1 DEF Selected
      <4>2. CASE T # {}
        <5>1. PICK k \in DOMAIN request : request[k] = <<"repo", r>>
          BY <4>2
        <5>2. NameOf(request[k]) = Name[r]
          BY <5>1 DEF NameOf
        <5> QED
          BY <5>2
      <4> QED
        BY <3>0, <4>1, <4>2
    <3> HIDE DEF S, T
    <3>4. Cardinality(Answered(r)) <= Cardinality(S) /\ Cardinality(S) \in Nat
          /\ Cardinality(Answered(r)) \in Nat
      BY <2>0, <3>1, PartOfInterval
    <3>5. Cardinality(Registered(r)) <= Cardinality(T) /\ Cardinality(T) \in Nat
          /\ Cardinality(Registered(r)) \in Nat
      BY <2>0, <3>3, PartOfInterval
    <3>6. asked[r] <= Cardinality(Registered(r)) + Cardinality(Answered(r)) /\ asked[r] \in Nat
      BY <2>0 DEF ToolsInv
    <3>7. asked[r] <= Cardinality(S) + Cardinality(T)
      BY <3>4, <3>5, <3>6
    <3>8. asked[r] > 0 => S # {} \/ T # {}
      <4>1. S = {} /\ T = {} => Cardinality(S) = 0 /\ Cardinality(T) = 0
        BY FS_EmptySet
      <4> QED
        BY <3>6, <3>7, <4>1
    <3> QED
      BY <3>0, <3>7, <3>8 DEF S, T
  <2>3. EverythingAnnounced
    <3> SUFFICES ASSUME main = "end", command # "latest"
                 PROVE  announced = [d \in Wanted |-> downloads[d]]
      BY <2>0 DEF EverythingAnnounced, Wanted, AnnounceInv
    <3>1. Begun
      BY DEF Begun
    <3>2. DOMAIN announced = Wanted
      BY <2>0, <3>1 DEF AnnounceInv
    <3>3. announced = [d \in Wanted |-> announced[d]] /\ \A d \in Wanted : announced[d] = downloads[d]
      BY <2>0, <3>2 DEF AnnounceInv
    <3> QED
      BY <3>3
  <2>4. SuccessIsWhole
    <3> SUFFICES ASSUME NEW d \in DOMAIN announced, announced[d] = "ok", d \notin lost, Alone(d)
                 PROVE  disk[Target(d[2])] = [k \in 1 .. Blocks |-> d[2]]
      BY DEF SuccessIsWhole, Alone
    <3>1. d \in DOMAIN downloads /\ downloads[d] = "ok"
      BY <2>0 DEF AnnounceInv
    <3> QED
      BY <2>0, <3>1 DEF FileInv
  <2>5. HandlesCleanedUp
    <3> SUFFICES ASSUME main = "end" PROVE handles = unopened
      BY DEF HandlesCleanedUp
    <3>1. Transferring = {}
      BY <2>0 DEF AnnounceInv, Transferring
    <3> QED
      BY <2>0, <3>1, FS_EmptySet DEF HandleInv
  <2> QED
    BY <2>1, <2>2, <2>3, <2>4, <2>5 DEF DownloaderCorrect
<1> QED
  BY <1>1, <1>2, DownInitInv, PTL DEF DownSpec

-----------------------------------------------------------------------------
(* combine_files: what the output and its buffer hold together.              *)

LineSet == Members(TextFiles) \X ({"begin", "end"} \cup Nat)
Written == output \o buffered

CombineTypes ==
  /\ inputs \in Seq(Members(TextFiles))
  /\ missing \subseteq Members(inputs)
  /\ stepOf \in {"open", "next", "lines", "over", "failed"}
  /\ nth \in 1 .. Len(inputs) + 1 /\ pos \in Nat
  /\ output \in Seq(LineSet) /\ buffered \in Seq(LineSet)
  /\ Len(buffered) <= Buffer
  /\ stepOf = "open" => output = <<>> /\ buffered = <<>> /\ nth = 1
  /\ stepOf = "lines" => nth <= Len(inputs)
  /\ stepOf = "lines" /\ File # Output => pos <= Lines[File]
  /\ stepOf = "over" => nth = Len(inputs) + 1 /\ buffered = <<>>

\* What is flushed is a full buffer, and the line that did not fit stays.
FlushInv == output # <<>> /\ stepOf # "over" => Len(output) >= Buffer /\ buffered # <<>>

\* The lines of the input that is being copied.
Copying ==
  IF stepOf = "lines" THEN <<<<File, "begin">>>> \o [k \in 1 .. pos |-> <<File, k>>] ELSE <<>>

\* c[k] is what the first k inputs have become, without those in S.
CopiedInv ==
  Output \notin Members(inputs) =>
    \E S \in SUBSET {k \in 1 .. nth - 1 : inputs[k] \in missing} :
      \E c \in [0 .. nth - 1 -> Seq(LineSet)] :
        /\ c[0] = <<>>
        /\ \A k \in 1 .. nth - 1 : c[k] = c[k - 1] \o (IF k \in S THEN <<>> ELSE Copy(inputs[k]))
        /\ Written = c[nth - 1] \o Copying

\* An output that copies itself, and has something to copy, is written to as fast as it is read.
Endless == stepOf = "lines" /\ File = Output /\ output # <<>>
GrowInv ==
  /\ Endless => Len(Written) >= pos + Buffer + 1
  /\ ~Endless => \A j \in 1 .. Len(Written) : Written[j] = <<Output, "end">> => j <= Buffer + 1

CombineInv == CombineTypes /\ FlushInv /\ CopiedInv /\ GrowInv

(* Put appends one line, and flushes full buffers only.                      *)
LEMMA PutAppends ==
  ASSUME CombineTypes, FlushInv, stepOf # "over", NEW line \in LineSet, Put(line)
  PROVE  /\ output' \in Seq(LineSet) /\ buffered' \in Seq(LineSet) /\ Len(buffered') <= Buffer
         /\ Written' = Append(Written, line) /\ Written \in Seq(LineSet)
         /\ Len(Written') = Len(Written) + 1
         /\ Len(Written) = Len(output) + Len(buffered)
         /\ output' # <<>> => Len(output') >= Buffer /\ buffered' # <<>>
         /\ output' # <<>> => Len(Written') >= Buffer + 1
         /\ output # <<>> => output' # <<>>
<1>0. /\ output \in Seq(LineSet) /\ buffered \in Seq(LineSet) /\ Len(buffered) <= Buffer
      /\ Len(output) \in Nat /\ Len(buffered) \in Nat /\ Buffer \in Nat \ {0}
  BY CombineAssumption DEF CombineTypes
<1>1. /\ Written \in Seq(LineSet) /\ Len(Written) = Len(output) + Len(buffered)
      /\ Append(Written, line) = Written \o <<line>> /\ <<line>> \in Seq(LineSet)
      /\ Len(Append(Written, line)) = Len(Written) + 1
  BY <1>0, ConcatProperties DEF Written
<1>2. CASE Len(buffered) < Buffer
  <2>1. buffered' = Append(buffered, line) /\ output' = output
    BY <1>2 DEF Put
  <2>2. /\ buffered' \in Seq(LineSet) /\ Len(buffered') = Len(buffered) + 1 /\ buffered' # <<>>
        /\ buffered' = buffered \o <<line>>
    BY <1>0, <2>1
  <2>3. Written' = Append(Written, line)
    BY <1>0, <1>1, <2>1, <2>2, ConcatAssociative, SMTT(30) DEF Written
  <2>4. output # <<>> => Len(output) >= Buffer /\ buffered # <<>>
    BY DEF FlushInv
  <2> QED
    BY <1>0, <1>1, <1>2, <2>1, <2>2, <2>3, <2>4
<1>3. CASE ~(Len(buffered) < Buffer)
  <2>1. buffered' = <<line>> /\ output' = Written
    BY <1>3 DEF Put, Written
  <2>2. Written' = Append(Written, line)
    BY <1>1, <2>1 DEF Written
  <2>3. Len(buffered') = 1 /\ buffered' # <<>> /\ Len(buffered) = Buffer
    BY <1>0, <1>3, <2>1
  <2>4. output' # <<>>
    BY <1>0, <1>1, <2>1, <2>3, EmptySeq
  <2> QED
    BY <1>0, <1>1, <2>1, <2>2, <2>3, <2>4
<1> QED
  BY <1>2, <1>3

(* Nothing was collected yet that is not an input, and nothing was written.  *)
LEMMA CombineInitInv == CombineInit => CombineInv
<1> SUFFICES ASSUME CombineInit PROVE CombineInv
  OBVIOUS
<1>1. /\ missing = {} /\ stepOf = "open" /\ nth = 1 /\ pos = 0
      /\ buffered = <<>> /\ output = <<>>
  BY DEF CombineInit
<1>2. PICK n \in 0 .. Len(TextFiles) : \E at \in [1 .. n -> DOMAIN TextFiles] :
        inputs = [k \in 1 .. n |-> TextFiles[at[k]]]
  BY DEF CombineInit
<1>3. PICK at \in [1 .. n -> DOMAIN TextFiles] : inputs = [k \in 1 .. n |-> TextFiles[at[k]]]
  BY <1>2
<1>4. \A k \in 1 .. n : TextFiles[at[k]] \in Members(TextFiles)
  BY <1>3 DEF Members
<1>5. inputs \in Seq(Members(TextFiles)) /\ Len(inputs) = n
  BY <1>3, <1>4, IsASeq
<1>6. /\ output \in Seq(LineSet) /\ buffered \in Seq(LineSet) /\ Len(buffered) = 0
      /\ Written = <<>>
  BY <1>1, EmptySeq, ConcatEmptySeq DEF Written
<1>7. CombineTypes
  BY <1>1, <1>3, <1>5, <1>6, CombineAssumption DEF CombineTypes
<1>8. FlushInv /\ GrowInv
  BY <1>1, <1>6 DEF FlushInv, GrowInv, Endless
<1>9. CopiedInv
  <2> DEFINE c == [k \in 0 .. 0 |-> <<>>]
  <2>1. c \in [0 .. nth - 1 -> Seq(LineSet)] /\ c[0] = <<>> /\ c[nth - 1] = <<>>
    BY <1>1, EmptySeq
  <2>2. Written = c[nth - 1] \o Copying
    BY <1>1, <1>6, <2>1 DEF Copying
  <2> HIDE DEF c
  <2>3. {} \in SUBSET {k \in 1 .. nth - 1 : inputs[k] \in missing} /\ 1 .. nth - 1 = {}
    BY <1>1
  <2> QED
    BY <2>1, <2>2, <2>3 DEF CopiedInv
<1> QED
  BY <1>7, <1>8, <1>9 DEF CombineInv

(* What an input is copied to, up to one more line, and as a whole.          *)
LEMMA CopyGrows ==
  ASSUME NEW f \in Members(TextFiles), NEW n \in Nat
  PROVE  LET upTo(m) == <<<<f, "begin">>>> \o [k \in 1 .. m |-> <<f, k>>] IN
         /\ upTo(n) \in Seq(LineSet)
         /\ upTo(0) = <<<<f, "begin">>>>
         /\ Append(upTo(n), <<f, n + 1>>) = upTo(n + 1)
         /\ Lines[f] = n => Append(upTo(n), <<f, "end">>) = Copy(f)
<1> DEFINE b == <<<<f, "begin">>>>
           body(m) == [k \in 1 .. m |-> <<f, k>>]
           e == <<<<f, "end">>>>
<1>1. b \in Seq(LineSet) /\ e \in Seq(LineSet) /\ <<f, n + 1>> \in LineSet /\ <<f, "end">> \in LineSet
  BY DEF LineSet
<1>2. body(n) \in Seq(LineSet) /\ Len(body(n)) = n
  <2>1. \A k \in 1 .. n : <<f, k>> \in LineSet
    BY DEF LineSet
  <2> QED
    BY <2>1, IsASeq
<1>3. b \o body(n) \in Seq(LineSet)
  BY <1>1, <1>2, ConcatProperties
<1>4. b \o body(0) = b
  <2>1. body(0) = <<>>
    OBVIOUS
  <2> QED
    BY <1>1, <2>1, ConcatEmptySeq
<1>5. Append(body(n), <<f, n + 1>>) = body(n + 1)
  BY <1>2
<1>6. \A x \in LineSet : /\ Append(b \o body(n), x) = b \o Append(body(n), x)
                          /\ Append(b \o body(n), x) = b \o body(n) \o <<x>>
  <2> SUFFICES ASSUME NEW x \in LineSet
               PROVE  /\ Append(b \o body(n), x) = b \o Append(body(n), x)
                      /\ Append(b \o body(n), x) = b \o body(n) \o <<x>>
    OBVIOUS
  <2>1. /\ Append(body(n), x) = body(n) \o <<x>> /\ <<x>> \in Seq(LineSet)
        /\ Append(b \o body(n), x) = (b \o body(n)) \o <<x>>
    BY <1>2, <1>3
  <2> HIDE DEF body, b
  <2> QED
    BY <1>1, <1>2, <2>1, ConcatAssociative, SMTT(30)
<1>7. Append(b \o body(n), <<f, n + 1>>) = b \o body(n + 1)
  BY <1>1, <1>5, <1>6
<1>8. ASSUME Lines[f] = n PROVE Append(b \o body(n), <<f, "end">>) = Copy(f)
  <2>1. Append(b \o body(n), <<f, "end">>) = (b \o body(n)) \o e
    BY <1>1, <1>6
  <2>2. Copy(f) = b \o body(n) \o e
    BY <1>8 DEF Copy
  <2> QED
    BY <2>1, <2>2
<1> QED
  BY <1>3, <1>4, <1>7, <1>8

(* What has a line appended keeps those it has.                              *)
LEMMA AppendedLine ==
  ASSUME NEW s \in Seq(LineSet), NEW x \in LineSet
  PROVE  /\ Len(Append(s, x)) = Len(s) + 1 /\ Len(s) \in Nat
         /\ Append(s, x)[Len(s) + 1] = x
         /\ \A j \in 1 .. Len(s) : Append(s, x)[j] = s[j]
OBVIOUS

(* What is appended to the copies and the lines of an input.                 *)
LEMMA AppendLater ==
  ASSUME NEW s \in Seq(LineSet), NEW t \in Seq(LineSet), NEW x \in LineSet
  PROVE  Append(s \o t, x) = s \o Append(t, x)
<1>1. /\ Append(t, x) = t \o <<x>> /\ <<x>> \in Seq(LineSet) /\ s \o t \in Seq(LineSet)
  BY ConcatProperties
<1>2. Append(s \o t, x) = (s \o t) \o <<x>>
  BY <1>1
<1> QED
  BY <1>1, <1>2, ConcatAssociative, SMTT(30)

(* Each line that is copied, and the marks around them.                      *)
LEMMA CopyStep ==
  ASSUME CombineInv, CopyLine
  PROVE  CombineInv'
<1> DEFINE line == Held(File)[pos + 1]
<1>0. /\ CombineTypes /\ FlushInv /\ CopiedInv /\ GrowInv
      /\ output \in Seq(LineSet) /\ buffered \in Seq(LineSet)
      /\ nth \in 1 .. Len(inputs) /\ Len(inputs) \in Nat /\ pos \in Nat /\ Buffer \in Nat \ {0}
      /\ stepOf = "lines" /\ pos < Len(Held(File)) /\ Put(line)
      /\ pos' = pos + 1 /\ UNCHANGED <<inputs, missing, stepOf, nth>>
  BY CombineAssumption DEF CombineInv, CombineTypes, CopyLine
<1>1. File \in Members(TextFiles) /\ File' = File /\ File \in Members(inputs)
  BY <1>0 DEF File, Members, CombineTypes
<1>2. Lines[File] \in Nat
  BY <1>1, CombineAssumption DEF Members
<1>3. CASE File # Output
  <2>1. line = <<File, pos + 1>> /\ pos + 1 <= Lines[File] /\ line \in LineSet
    <3>1. Held(File) = [k \in 1 .. Lines[File] |-> <<File, k>>]
      BY <1>3 DEF Held
    <3>2. Len(Held(File)) = Lines[File]
      BY <1>2, <3>1
    <3>3. pos + 1 \in 1 .. Lines[File]
      BY <1>0, <1>2, <3>2
    <3>4. line = <<File, pos + 1>>
      BY <3>1, <3>3
    <3> QED
      BY <1>0, <1>1, <3>3, <3>4 DEF LineSet
  <2> HIDE DEF line
  <2>2. /\ output' \in Seq(LineSet) /\ buffered' \in Seq(LineSet) /\ Len(buffered') <= Buffer
        /\ Written' = Append(Written, line) /\ Written \in Seq(LineSet)
        /\ output' # <<>> => Len(output') >= Buffer /\ buffered' # <<>>
    BY <1>0, <2>1, PutAppends
  <2>3. CombineTypes'
    BY <1>0, <1>1, <1>3, <2>1, <2>2 DEF CombineTypes
  <2>4. FlushInv'
    BY <2>2 DEF FlushInv
  <2>5. CopiedInv'
    <3> SUFFICES ASSUME Output \notin Members(inputs) PROVE CopiedInv'
      BY <1>0 DEF CopiedInv
    <3>1. PICK S \in SUBSET {k \in 1 .. nth - 1 : inputs[k] \in missing} :
            \E c \in [0 .. nth - 1 -> Seq(LineSet)] :
              /\ c[0] = <<>>
              /\ \A k \in 1 .. nth - 1 : c[k] = c[k - 1] \o (IF k \in S THEN <<>> ELSE Copy(inputs[k]))
              /\ Written = c[nth - 1] \o Copying
      BY <1>0 DEF CopiedInv
    <3>2. PICK c \in [0 .. nth - 1 -> Seq(LineSet)] :
              /\ c[0] = <<>>
              /\ \A k \in 1 .. nth - 1 : c[k] = c[k - 1] \o (IF k \in S THEN <<>> ELSE Copy(inputs[k]))
              /\ Written = c[nth - 1] \o Copying
      BY <3>1
    <3>3. Copying \in Seq(LineSet) /\ Append(Copying, line) = Copying'
      <4>1. /\ Copying = <<<<File, "begin">>>> \o [k \in 1 .. pos |-> <<File, k>>]
            /\ Copying' = <<<<File, "begin">>>> \o [k \in 1 .. pos + 1 |-> <<File, k>>]
        BY <1>0, <1>1 DEF Copying
      <4> QED
        BY <1>0, <1>1, <2>1, <4>1, CopyGrows
    <3>4. c[nth - 1] \in Seq(LineSet)
      BY <1>0
    <3>5. Written' = c[nth - 1] \o Copying'
      BY <2>1, <2>2, <3>2, <3>3, <3>4, AppendLater
    <3> QED
      BY <1>0, <3>2, <3>5 DEF CopiedInv
  <2>6. GrowInv'
    <3>1. ~Endless /\ ~Endless' /\ line # <<Output, "end">>
      BY <1>0, <1>1, <1>3, <2>1 DEF Endless
    <3>2. /\ Len(Append(Written, line)) = Len(Written) + 1 /\ Len(Written) \in Nat
          /\ Append(Written, line)[Len(Written) + 1] = line
          /\ \A j \in 1 .. Len(Written) : Append(Written, line)[j] = Written[j]
      BY <2>1, <2>2, AppendedLine
    <3>3. \A j \in 1 .. Len(Written) : Written[j] = <<Output, "end">> => j <= Buffer + 1
      BY <1>0, <3>1 DEF GrowInv
    <3>4. \A j \in 1 .. Len(Written') : j \in 1 .. Len(Written) \/ j = Len(Written) + 1
      BY <2>2, <3>2
    <3>5. \A j \in 1 .. Len(Written') : Written'[j] = <<Output, "end">> => j <= Buffer + 1
      BY <2>2, <3>1, <3>2, <3>3, <3>4
    <3> QED
      BY <1>0, <3>1, <3>5 DEF GrowInv
  <2> QED
    BY <2>3, <2>4, <2>5, <2>6 DEF CombineInv
<1>4. CASE File = Output
  <2>1. line \in LineSet /\ output # <<>>
    <3>1. Held(File) = output
      BY <1>4 DEF Held
    <3>2. pos + 1 \in 1 .. Len(output)
      BY <1>0, <3>1
    <3> QED
      BY <1>0, <3>1, <3>2, ElementOfSeq
  <2> HIDE DEF line
  <2>2. /\ output' \in Seq(LineSet) /\ buffered' \in Seq(LineSet) /\ Len(buffered') <= Buffer
        /\ Len(Written') = Len(Written) + 1 /\ Written \in Seq(LineSet)
        /\ output' # <<>> => Len(output') >= Buffer /\ buffered' # <<>>
        /\ output' # <<>>
    BY <1>0, <2>1, PutAppends
  <2>3. CombineTypes'
    BY <1>0, <1>1, <1>4, <2>2 DEF CombineTypes
  <2>4. FlushInv'
    BY <2>2 DEF FlushInv
  <2>5. CopiedInv'
    BY <1>0, <1>1, <1>4 DEF CopiedInv
  <2>6. GrowInv'
    <3>1. Endless /\ Endless' /\ Len(Written) \in Nat
      BY <1>0, <1>1, <1>4, <2>1, <2>2 DEF Endless
    <3> QED
      BY <1>0, <2>2, <3>1 DEF GrowInv
  <2> QED
    BY <2>3, <2>4, <2>5, <2>6 DEF CombineInv
<1> QED
  BY <1>3, <1>4

(* An input is opened, or cannot be any more.                                *)
LEMMA OpenStep ==
  ASSUME CombineInv, OpenInput
  PROVE  CombineInv'
<1>0. /\ CombineTypes /\ FlushInv /\ CopiedInv /\ GrowInv
      /\ output \in Seq(LineSet) /\ buffered \in Seq(LineSet) /\ Len(buffered) <= Buffer
      /\ nth \in 1 .. Len(inputs) /\ Len(inputs) \in Nat /\ Buffer \in Nat \ {0}
      /\ stepOf = "next" /\ pos' = 0 /\ UNCHANGED <<inputs, missing>>
  BY CombineAssumption DEF CombineInv, CombineTypes, OpenInput
<1>1. File \in Members(TextFiles) /\ File = inputs[nth]
  BY <1>0 DEF File, Members, CombineTypes
<1>2. Lines[File] \in Nat
  BY <1>1, CombineAssumption DEF Members
<1>3. Written \in Seq(LineSet) /\ Copying = <<>> /\ ~Endless
      /\ \A j \in 1 .. Len(Written) : Written[j] = <<Output, "end">> => j <= Buffer + 1
  BY <1>0, ConcatProperties DEF Written, Copying, Endless, GrowInv
<1>4. Output \notin Members(inputs) =>
        \E S \in SUBSET {k \in 1 .. nth - 1 : inputs[k] \in missing} :
          \E c \in [0 .. nth - 1 -> Seq(LineSet)] :
            /\ c[0] = <<>> /\ Written = c[nth - 1]
            /\ \A k \in 1 .. nth - 1 : c[k] = c[k - 1] \o (IF k \in S THEN <<>> ELSE Copy(inputs[k]))
  <2>1. \A u \in Seq(LineSet) : u \o Copying = u
    BY <1>3, ConcatEmptySeq
  <2> SUFFICES ASSUME Output \notin Members(inputs)
               PROVE  \E S \in SUBSET {k \in 1 .. nth - 1 : inputs[k] \in missing} :
                        \E c \in [0 .. nth - 1 -> Seq(LineSet)] :
                          /\ c[0] = <<>> /\ Written = c[nth - 1]
                          /\ \A k \in 1 .. nth - 1 :
                               c[k] = c[k - 1] \o (IF k \in S THEN <<>> ELSE Copy(inputs[k]))
    OBVIOUS
  <2>2. PICK S \in SUBSET {k \in 1 .. nth - 1 : inputs[k] \in missing} :
          \E c \in [0 .. nth - 1 -> Seq(LineSet)] :
            /\ c[0] = <<>> /\ Written = c[nth - 1] \o Copying
            /\ \A k \in 1 .. nth - 1 : c[k] = c[k - 1] \o (IF k \in S THEN <<>> ELSE Copy(inputs[k]))
    BY <1>0 DEF CopiedInv
  <2>3. PICK c \in [0 .. nth - 1 -> Seq(LineSet)] :
            /\ c[0] = <<>> /\ Written = c[nth - 1] \o Copying
            /\ \A k \in 1 .. nth - 1 : c[k] = c[k - 1] \o (IF k \in S THEN <<>> ELSE Copy(inputs[k]))
    BY <2>2
  <2>4. Written = c[nth - 1]
    <3>1. c[nth - 1] \in Seq(LineSet)
      BY <1>0
    <3> QED
      BY <2>1, <2>3, <3>1
  <2> QED
    BY <2>3, <2>4
<1>5. CASE File \in missing /\ nth' = nth + 1 /\ UNCHANGED <<stepOf, buffered, output>>
  <2>1. CombineTypes' /\ FlushInv'
    BY <1>0, <1>5 DEF CombineTypes, FlushInv
  <2>2. Written' = Written /\ ~Endless' /\ Copying' = <<>>
    BY <1>0, <1>5 DEF Written, Endless, Copying
  <2>3. GrowInv'
    BY <1>3, <2>2 DEF GrowInv
  <2>4. CopiedInv'
    <3> SUFFICES ASSUME Output \notin Members(inputs) PROVE CopiedInv'
      BY <1>0 DEF CopiedInv
    <3>1. PICK S \in SUBSET {k \in 1 .. nth - 1 : inputs[k] \in missing} :
            \E c \in [0 .. nth - 1 -> Seq(LineSet)] :
              /\ c[0] = <<>> /\ Written = c[nth - 1]
              /\ \A k \in 1 .. nth - 1 : c[k] = c[k - 1] \o (IF k \in S THEN <<>> ELSE Copy(inputs[k]))
      BY <1>4
    <3>2. PICK c \in [0 .. nth - 1 -> Seq(LineSet)] :
              /\ c[0] = <<>> /\ Written = c[nth - 1]
              /\ \A k \in 1 .. nth - 1 : c[k] = c[k - 1] \o (IF k \in S THEN <<>> ELSE Copy(inputs[k]))
      BY <3>1
    <3> DEFINE c2 == [k \in 0 .. nth |-> IF k = nth THEN Written ELSE c[k]]
               S2 == S \cup {nth}
    <3>3. /\ c2 \in [0 .. nth -> Seq(LineSet)] /\ c2[nth] = Written
          /\ \A k \in 0 .. nth - 1 : c2[k] = c[k]
      BY <1>0, <1>3
    <3>4. /\ \A k \in 1 .. nth - 1 : (k \in S2) <=> (k \in S)
          /\ nth \in S2 /\ S2 \in SUBSET {k \in 1 .. nth : inputs[k] \in missing}
      BY <1>0, <1>1, <1>5
    <3> HIDE DEF c2, S2
    <3>5. \A k \in 1 .. nth : c2[k] = c2[k - 1] \o (IF k \in S2 THEN <<>> ELSE Copy(inputs[k]))
      <4> SUFFICES ASSUME NEW k \in 1 .. nth
                   PROVE  c2[k] = c2[k - 1] \o (IF k \in S2 THEN <<>> ELSE Copy(inputs[k]))
        OBVIOUS
      <4>1. CASE k = nth
        <5>1. c2[k - 1] = Written
          BY <1>0, <3>2, <3>3, <4>1
        <5> QED
          BY <1>3, <3>3, <3>4, <4>1, <5>1, ConcatEmptySeq
      <4>2. CASE k # nth
        <5>1. k \in 1 .. nth - 1 /\ k \in 0 .. nth - 1 /\ k - 1 \in 0 .. nth - 1
          BY <1>0, <4>2
        <5> QED
          BY <3>2, <3>3, <3>4, <5>1
      <4> QED
        BY <4>1, <4>2
    <3>6. c2[0] = <<>> /\ Written' = c2[nth] \o Copying'
      BY <1>0, <1>3, <2>2, <3>2, <3>3, ConcatEmptySeq
    <3>7. nth' - 1 = nth /\ inputs' = inputs /\ missing' = missing
      BY <1>0, <1>5
    <3> QED
      BY <3>3, <3>4, <3>5, <3>6, <3>7 DEF CopiedInv
  <2> QED
    BY <2>1, <2>3, <2>4 DEF CombineInv
<1>6. CASE File \notin missing /\ Put(<<File, "begin">>) /\ stepOf' = "lines" /\ nth' = nth
  <2> DEFINE line == <<File, "begin">>
  <2>1. line \in LineSet /\ line # <<Output, "end">>
    BY <1>1 DEF LineSet
  <2>2. /\ output' \in Seq(LineSet) /\ buffered' \in Seq(LineSet) /\ Len(buffered') <= Buffer
        /\ Written' = Append(Written, line) /\ Len(Written') = Len(Written) + 1
        /\ output' # <<>> => Len(output') >= Buffer /\ buffered' # <<>>
        /\ output' # <<>> => Len(Written') >= Buffer + 1
    BY <1>0, <1>6, <2>1, PutAppends
  <2>3. CombineTypes'
    BY <1>0, <1>1, <1>2, <1>6, <2>2, SMTT(30) DEF CombineTypes, File
  <2>4. FlushInv'
    BY <2>2 DEF FlushInv
  <2>5. File' = File /\ Copying' = <<line>>
    <3>1. File' = File
      BY <1>0, <1>6 DEF File
    <3>2. Copying' = <<<<File, "begin">>>> \o [k \in 1 .. 0 |-> <<File, k>>]
      BY <1>0, <1>6, <3>1 DEF Copying
    <3> QED
      BY <1>1, <3>1, <3>2, CopyGrows
  <2>6. CopiedInv'
    <3> SUFFICES ASSUME Output \notin Members(inputs) PROVE CopiedInv'
      BY <1>0 DEF CopiedInv
    <3>1. PICK S \in SUBSET {k \in 1 .. nth - 1 : inputs[k] \in missing} :
            \E c \in [0 .. nth - 1 -> Seq(LineSet)] :
              /\ c[0] = <<>> /\ Written = c[nth - 1]
              /\ \A k \in 1 .. nth - 1 : c[k] = c[k - 1] \o (IF k \in S THEN <<>> ELSE Copy(inputs[k]))
      BY <1>4
    <3>2. PICK c \in [0 .. nth - 1 -> Seq(LineSet)] :
              /\ c[0] = <<>> /\ Written = c[nth - 1]
              /\ \A k \in 1 .. nth - 1 : c[k] = c[k - 1] \o (IF k \in S THEN <<>> ELSE Copy(inputs[k]))
      BY <3>1
    <3>3. Append(Written, line) = Written \o <<line>>
      <4> HIDE DEF line
      <4> QED
        BY <1>3, <2>1
    <3>4. Written' = c[nth - 1] \o Copying'
      BY <2>2, <2>5, <3>2, <3>3
    <3>5. nth' = nth /\ inputs' = inputs /\ missing' = missing
      BY <1>0, <1>6
    <3> QED
      BY <3>2, <3>4, <3>5 DEF CopiedInv
  <2>7. GrowInv'
    <3>1. Len(Written) \in Nat /\ Written'[Len(Written) + 1] = line
          /\ \A j \in 1 .. Len(Written) : Written'[j] = Written[j]
      BY <1>3, <2>1, <2>2, AppendedLine
    <3>2. \A j \in 1 .. Len(Written') : j \in 1 .. Len(Written) \/ j = Len(Written) + 1
      BY <2>2, <3>1
    <3>3. \A j \in 1 .. Len(Written') : Written'[j] = <<Output, "end">> => j <= Buffer + 1
      BY <1>3, <2>1, <3>1, <3>2
    <3>4. Endless' => Len(Written') >= pos' + Buffer + 1
      BY <1>0, <2>2, <3>1 DEF Endless
    <3> QED
      BY <3>3, <3>4 DEF GrowInv
  <2> QED
    BY <2>3, <2>4, <2>6, <2>7 DEF CombineInv
<1> QED
  BY <1>5, <1>6 DEF OpenInput

(* An input is over.  The output as its own input is over only if nothing    *)
(* was flushed.                                                              *)
LEMMA EndStep ==
  ASSUME CombineInv, EndInput
  PROVE  CombineInv'
<1> DEFINE line == <<File, "end">>
<1>0. /\ CombineTypes /\ FlushInv /\ CopiedInv /\ GrowInv
      /\ output \in Seq(LineSet) /\ buffered \in Seq(LineSet) /\ Len(buffered) <= Buffer
      /\ nth \in 1 .. Len(inputs) /\ Len(inputs) \in Nat /\ pos \in Nat /\ Buffer \in Nat \ {0}
      /\ stepOf = "lines" /\ pos >= Len(Held(File)) /\ Put(line) /\ stepOf' = "next"
      /\ nth' = nth + 1 /\ UNCHANGED <<inputs, missing, pos>>
  BY CombineAssumption DEF CombineInv, CombineTypes, EndInput
<1>1. File \in Members(TextFiles) /\ File = inputs[nth] /\ File \in Members(inputs)
  BY <1>0 DEF File, Members, CombineTypes
<1>2. Lines[File] \in Nat
  BY <1>1, CombineAssumption DEF Members
<1>3. line \in LineSet
  BY <1>1 DEF LineSet
<1>4. /\ output' \in Seq(LineSet) /\ buffered' \in Seq(LineSet) /\ Len(buffered') <= Buffer
      /\ Written' = Append(Written, line) /\ Len(Written') = Len(Written) + 1
      /\ output' # <<>> => Len(output') >= Buffer /\ buffered' # <<>>
      /\ Written \in Seq(LineSet) /\ Len(Written) = Len(output) + Len(buffered)
  BY <1>0, <1>3, PutAppends
<1>5. CombineTypes' /\ FlushInv' /\ ~Endless'
  BY <1>0, <1>4 DEF CombineTypes, FlushInv, Endless
<1>6. ~Endless
  <2> SUFFICES ASSUME File = Output, output # <<>> PROVE FALSE
    BY DEF Endless
  <2>1. Endless /\ Held(File) = output
    BY <1>0 DEF Endless, Held
  <2>2. Len(Written) >= pos + Buffer + 1 /\ Len(output) \in Nat /\ Len(buffered) \in Nat
    BY <1>0, <2>1 DEF GrowInv
  <2> QED
    BY <1>0, <1>4, <2>1, <2>2
<1>7. GrowInv'
  <2>1. Len(Written) \in Nat /\ Written'[Len(Written) + 1] = line
        /\ \A j \in 1 .. Len(Written) : Written'[j] = Written[j]
    BY <1>3, <1>4, AppendedLine
  <2>2. \A j \in 1 .. Len(Written') : j \in 1 .. Len(Written) \/ j = Len(Written) + 1
    BY <1>4, <2>1
  <2>3. line = <<Output, "end">> => Len(Written) + 1 <= Buffer + 1
    <3> SUFFICES ASSUME File = Output PROVE Len(Written) + 1 <= Buffer + 1
      OBVIOUS
    <3>1. output = <<>>
      BY <1>0, <1>6 DEF Endless
    <3>2. Len(output) = 0 /\ Len(buffered) \in Nat
      BY <1>0, <3>1
    <3> QED
      BY <1>0, <1>4, <3>2
  <2>4. \A j \in 1 .. Len(Written) : Written[j] = <<Output, "end">> => j <= Buffer + 1
    BY <1>0, <1>6 DEF GrowInv
  <2> HIDE DEF line
  <2>5. \A j \in 1 .. Len(Written') : Written'[j] = <<Output, "end">> => j <= Buffer + 1
    BY <2>1, <2>2, <2>3, <2>4
  <2> QED
    BY <1>5, <2>5 DEF GrowInv
<1>8. CopiedInv'
  <2> SUFFICES ASSUME Output \notin Members(inputs) PROVE CopiedInv'
    BY <1>0 DEF CopiedInv
  <2>1. PICK S \in SUBSET {k \in 1 .. nth - 1 : inputs[k] \in missing} :
          \E c \in [0 .. nth - 1 -> Seq(LineSet)] :
            /\ c[0] = <<>> /\ Written = c[nth - 1] \o Copying
            /\ \A k \in 1 .. nth - 1 : c[k] = c[k - 1] \o (IF k \in S THEN <<>> ELSE Copy(inputs[k]))
    BY <1>0 DEF CopiedInv
  <2>2. PICK c \in [0 .. nth - 1 -> Seq(LineSet)] :
            /\ c[0] = <<>> /\ Written = c[nth - 1] \o Copying
            /\ \A k \in 1 .. nth - 1 : c[k] = c[k - 1] \o (IF k \in S THEN <<>> ELSE Copy(inputs[k]))
    BY <2>1
  <2>3. File # Output /\ pos = Lines[File]
    <3>1. File # Output
      BY <1>1
    <3>2. Len(Held(File)) = Lines[File]
      BY <1>2, <3>1 DEF Held
    <3> QED
      BY <1>0, <1>2, <3>1, <3>2, SMTT(30) DEF CombineTypes
  <2>4. Copying \in Seq(LineSet) /\ Append(Copying, line) = Copy(File)
    <3>1. Copying = <<<<File, "begin">>>> \o [k \in 1 .. pos |-> <<File, k>>]
      BY <1>0 DEF Copying
    <3> QED
      BY <1>0, <1>1, <2>3, <3>1, CopyGrows
  <2>5. c[nth - 1] \in Seq(LineSet)
    BY <1>0
  <2> HIDE DEF line
  <2>6. PICK w \in Seq(LineSet) : Written' = w /\ w = c[nth - 1] \o Copy(File)
    <3>1. Append(c[nth - 1] \o Copying, line) = c[nth - 1] \o Copy(File)
      <4>1. Append(c[nth - 1] \o Copying, line) = c[nth - 1] \o Append(Copying, line)
        <5> HIDE DEF Copying
        <5> QED
          BY <1>3, <2>4, <2>5, AppendLater
      <4> QED
        BY <2>4, <4>1, Zenon
    <3>2. Append(Written, line) \in Seq(LineSet)
      BY <1>3, <1>4
    <3> QED
      BY <1>4, <2>2, <3>1, <3>2
  <2> DEFINE c2 == [k \in 0 .. nth |-> IF k = nth THEN w ELSE c[k]]
  <2>7. /\ c2 \in [0 .. nth -> Seq(LineSet)] /\ c2[nth] = w
        /\ \A k \in 0 .. nth - 1 : c2[k] = c[k]
    BY <1>0, <2>6, SMTT(30)
  <2>8. nth \notin S /\ S \in SUBSET {k \in 1 .. nth : inputs[k] \in missing}
    BY <1>0
  <2> HIDE DEF c2
  <2>9. \A k \in 1 .. nth : c2[k] = c2[k - 1] \o (IF k \in S THEN <<>> ELSE Copy(inputs[k]))
    <3> SUFFICES ASSUME NEW k \in 1 .. nth
                 PROVE  c2[k] = c2[k - 1] \o (IF k \in S THEN <<>> ELSE Copy(inputs[k]))
      OBVIOUS
    <3>1. CASE k = nth
      <4>1. c2[k - 1] = c[nth - 1]
        BY <1>0, <2>7, <3>1
      <4> QED
        BY <1>1, <2>6, <2>7, <2>8, <3>1, <4>1
    <3>2. CASE k # nth
      <4>1. k \in 1 .. nth - 1 /\ k \in 0 .. nth - 1 /\ k - 1 \in 0 .. nth - 1
        BY <1>0, <3>2
      <4> QED
        BY <2>2, <2>7, <4>1
    <3> QED
      BY <3>1, <3>2
  <2>10. c2[0] = <<>> /\ Written' = c2[nth] \o Copying'
    <3>1. Copying' = <<>>
      BY <1>0 DEF Copying
    <3> QED
      BY <1>0, <2>2, <2>6, <2>7, <3>1, ConcatEmptySeq
  <2>11. nth' - 1 = nth /\ inputs' = inputs /\ missing' = missing
    BY <1>0
  <2> QED
    BY <2>7, <2>8, <2>9, <2>10, <2>11 DEF CopiedInv
<1> QED
  BY <1>5, <1>7, <1>8 DEF CombineInv

(* Before the first input, behind the last, and when files are removed.      *)
LEMMA CombineStep == CombineInv /\ (CombineNext \/ UNCHANGED combineVars) => CombineInv'
<1> SUFFICES ASSUME CombineInv, CombineNext \/ UNCHANGED combineVars PROVE CombineInv'
  OBVIOUS
<1>0. /\ CombineTypes /\ FlushInv /\ CopiedInv /\ GrowInv
      /\ output \in Seq(LineSet) /\ buffered \in Seq(LineSet)
  BY DEF CombineInv, CombineTypes
<1>1. CASE OpenOutput
  <2>1. /\ stepOf = "open" /\ stepOf' \in {"next", "failed"}
        /\ UNCHANGED <<inputs, missing, nth, pos, buffered, output>>
    BY <1>1 DEF OpenOutput
  <2>2. CombineTypes'
    BY <1>0, <2>1 DEF CombineTypes
  <2>3. FlushInv'
    BY <1>0, <2>1 DEF CombineTypes, FlushInv
  <2>4. Written' = Written /\ Copying = <<>> /\ Copying' = <<>> /\ ~Endless /\ ~Endless'
    BY <2>1 DEF Written, Copying, Endless
  <2> HIDE DEF Written, Copying, Endless
  <2>5. GrowInv'
    BY <1>0, <2>1, <2>4, Zenon DEF GrowInv
  <2>6. CopiedInv'
    <3>1. CopiedInv /\ UNCHANGED <<inputs, missing, nth>> /\ Written' = Written /\ Copying' = Copying
      BY <1>0, <2>1, <2>4
    <3> QED
      BY <3>1, Zenon DEF CopiedInv, Members
  <2> QED
    BY <2>2, <2>3, <2>5, <2>6 DEF CombineInv
<1>2. CASE CloseOutput
  <2>1. /\ stepOf = "next" /\ nth > Len(inputs) /\ output' = Written /\ buffered' = <<>>
        /\ stepOf' = "over" /\ UNCHANGED <<inputs, missing, nth, pos>>
    BY <1>2 DEF CloseOutput, Written
  <2>2. Written \in Seq(LineSet) /\ Written' = Written
    <3>1. Written \in Seq(LineSet)
      BY <1>0, ConcatProperties DEF Written
    <3>2. Written' = output' \o buffered'
      BY DEF Written
    <3> QED
      BY <2>1, <3>1, <3>2, ConcatEmptySeq
  <2>3. CombineTypes'
    <3>1. buffered' \in Seq(LineSet) /\ Len(buffered') = 0
      BY <2>1, EmptySeq
    <3> QED
      BY <1>0, <2>1, <2>2, <3>1, CombineAssumption DEF CombineTypes
  <2>4. FlushInv'
    BY <2>1 DEF FlushInv
  <2>5. Copying = <<>> /\ Copying' = <<>> /\ ~Endless /\ ~Endless'
    BY <2>1 DEF Copying, Endless
  <2>6. GrowInv'
    BY <1>0, <2>1, <2>2, <2>5, Zenon DEF GrowInv
  <2>7. CopiedInv'
    <3>1. CopiedInv /\ UNCHANGED <<inputs, missing, nth>> /\ Written' = Written /\ Copying' = Copying
      <4> HIDE DEF Written, Copying
      <4> QED
        BY <1>0, <2>1, <2>2, <2>5
    <3> HIDE DEF Written, Copying
    <3> QED
      BY <3>1, ZenonT(30) DEF CopiedInv, Members
  <2> QED
    BY <2>3, <2>4, <2>6, <2>7 DEF CombineInv
<1>3. ASSUME NEW f \in Members(TextFiles), RemoveFile(f) PROVE CombineInv'
  <2>1. /\ f \in Members(inputs) /\ missing' = missing \cup {f}
        /\ UNCHANGED <<inputs, stepOf, nth, pos, buffered, output>>
    BY <1>3 DEF RemoveFile
  <2>2. CombineTypes'
    BY <1>0, <2>1 DEF CombineTypes, File, Members
  <2>3. FlushInv'
    BY <1>0, <2>1 DEF FlushInv
  <2>4. Written' = Written /\ Copying' = Copying /\ Endless' = Endless
    BY <2>1 DEF Written, Copying, Endless, File
  <2>5. GrowInv'
    BY <1>0, <2>1, <2>4 DEF GrowInv
  <2>6. CopiedInv'
    <3>1. SUBSET {k \in 1 .. nth - 1 : inputs[k] \in missing}
            \subseteq SUBSET {k \in 1 .. nth - 1 : inputs[k] \in missing'}
      BY <2>1
    <3>2. Output \notin Members(inputs) =>
            \E S \in SUBSET {k \in 1 .. nth - 1 : inputs[k] \in missing'} :
              \E c \in [0 .. nth - 1 -> Seq(LineSet)] :
                /\ c[0] = <<>>
                /\ \A k \in 1 .. nth - 1 : c[k] = c[k - 1] \o (IF k \in S THEN <<>> ELSE Copy(inputs[k]))
                /\ Written = c[nth - 1] \o Copying
      BY <1>0, <3>1, Zenon DEF CopiedInv
    <3> QED
      BY <2>1, <2>4, <3>2, ZenonT(30) DEF CopiedInv, Members
  <2> QED
    BY <2>2, <2>3, <2>5, <2>6 DEF CombineInv
<1>4. CASE UNCHANGED combineVars
  <2>1. UNCHANGED <<inputs, missing, stepOf, nth, pos, buffered, output>>
    BY <1>4 DEF combineVars
  <2>2. CombineTypes' /\ FlushInv'
    BY <1>0, <2>1 DEF CombineTypes, FlushInv, File, Members
  <2>3. Written' = Written /\ Copying' = Copying /\ Endless' = Endless
    BY <2>1 DEF Written, Copying, Endless, File
  <2>4. GrowInv' /\ CopiedInv'
    BY <1>0, <2>1, <2>3 DEF GrowInv, CopiedInv, Members
  <2> QED
    BY <2>2, <2>4 DEF CombineInv
<1> QED
  BY <1>1, <1>2, <1>3, <1>4, OpenStep, CopyStep, EndStep DEF CombineNext

(* Whatever satisfies the equations of CopiesWithout is what it computes.    *)
LEMMA CopiesAre ==
  ASSUME NEW S, Len(inputs) \in Nat, NEW c,
         c = [n \in 0 .. Len(inputs) |-> c[n]], c[0] = <<>>,
         \A k \in 1 .. Len(inputs) : c[k] = c[k - 1] \o (IF k \in S THEN <<>> ELSE Copy(inputs[k]))
  PROVE  CopiesWithout(S) = c[Len(inputs)]
<1> DEFINE part(k) == IF k \in S THEN <<>> ELSE Copy(inputs[k])
           copies[n \in 0 .. Len(inputs)] == IF n = 0 THEN <<>> ELSE copies[n - 1] \o part(n)
<1>1. CopiesWithout(S) = copies[Len(inputs)]
  BY Zenon DEF CopiesWithout
<1>2. c = [n \in 0 .. Len(inputs) |-> IF n = 0 THEN <<>> ELSE c[n - 1] \o part(n)]
  <2>1. ASSUME NEW n \in 0 .. Len(inputs)
        PROVE  c[n] = IF n = 0 THEN <<>> ELSE c[n - 1] \o part(n)
    <3>1. n # 0 => n \in 1 .. Len(inputs)
      BY SMTT(30)
    <3> QED
      BY <3>1
  <2> QED
    BY <2>1, Zenon
<1>3. copies = [n \in 0 .. Len(inputs) |-> IF n = 0 THEN <<>> ELSE copies[n - 1] \o part(n)]
  BY <1>2, Zenon
<1> HIDE DEF part, copies
<1>4. \A n \in 0 .. Len(inputs) : /\ c[n] = IF n = 0 THEN <<>> ELSE c[n - 1] \o part(n)
                                  /\ copies[n] = IF n = 0 THEN <<>> ELSE copies[n - 1] \o part(n)
  BY <1>2, <1>3
<1> DEFINE D == {n \in 0 .. Len(inputs) : copies[n] # c[n]}
<1>5. D = {}
  <2> SUFFICES ASSUME D # {} PROVE FALSE
    OBVIOUS
  <2>1. D \in SUBSET Nat
    OBVIOUS
  <2>2. PICK i \in D : \A j \in D : i <= j
    BY <2>1, SmallestNat
  <2>3. i # 0 /\ i - 1 \notin D /\ i - 1 \in 0 .. Len(inputs) /\ i \in 0 .. Len(inputs)
    BY <1>4, <2>2, SMTT(30)
  <2>4. copies[i - 1] = c[i - 1]
    BY <2>3
  <2> QED
    BY <1>4, <2>2, <2>3, <2>4
<1>6. Len(inputs) \in 0 .. Len(inputs)
  OBVIOUS
<1>7. copies[Len(inputs)] = c[Len(inputs)]
  BY <1>5, <1>6
<1> QED
  BY <1>1, <1>7


(* Whatever is removed meanwhile, and whatever the buffer holds: the output  *)
(* is what the inputs were, and if it is one of them it is over only if      *)
(* nothing was flushed before it was opened.                                 *)
LEMMA CombineIs == CombineInv => CombineCorrect
<1> SUFFICES ASSUME CombineInv PROVE CombineCorrect
  OBVIOUS
<1>0. CombineTypes /\ CopiedInv /\ GrowInv /\ Len(inputs) \in Nat /\ Buffer \in Nat
  BY CombineAssumption DEF CombineInv, CombineTypes
<1>1. CombineTypeOK
  BY <1>0 DEF CombineTypes, CombineTypeOK
<1>2. stepOf = "over" => /\ Written = output /\ Copying = <<>> /\ ~Endless
                         /\ nth - 1 = Len(inputs) /\ output \in Seq(LineSet)
  BY <1>0, ConcatEmptySeq DEF CombineTypes, Written, Copying, Endless
<1>3. CopiesInOrder
  <2> SUFFICES ASSUME stepOf = "over", Output \notin Members(inputs)
               PROVE  \E S \in SUBSET {k \in DOMAIN inputs : inputs[k] \in missing} :
                        output = CopiesWithout(S)
    BY DEF CopiesInOrder
  <2>1. PICK S \in SUBSET {k \in 1 .. nth - 1 : inputs[k] \in missing} :
            \E c \in [0 .. nth - 1 -> Seq(LineSet)] :
              /\ c[0] = <<>> /\ Written = c[nth - 1] \o Copying
              /\ \A k \in 1 .. nth - 1 : c[k] = c[k - 1] \o (IF k \in S THEN <<>> ELSE Copy(inputs[k]))
    BY <1>0 DEF CopiedInv
  <2>2. PICK c \in [0 .. nth - 1 -> Seq(LineSet)] :
              /\ c[0] = <<>> /\ Written = c[nth - 1] \o Copying
              /\ \A k \in 1 .. nth - 1 : c[k] = c[k - 1] \o (IF k \in S THEN <<>> ELSE Copy(inputs[k]))
    BY <2>1
  <2>3. c = [n \in 0 .. Len(inputs) |-> c[n]] /\ c[Len(inputs)] \in Seq(LineSet)
    BY <1>0, <1>2
  <2>4. CopiesWithout(S) = c[Len(inputs)]
    BY <1>0, <1>2, <2>2, <2>3, CopiesAre
  <2>5. output = c[Len(inputs)]
    BY <1>2, <2>2, <2>3, ConcatEmptySeq
  <2>6. DOMAIN inputs = 1 .. nth - 1
    BY <1>0, <1>2 DEF CombineTypes
  <2> QED
    BY <2>4, <2>5, <2>6
<1>4. EndsUnlessFlushed
  <2>1. stepOf = "over" => DOMAIN output = 1 .. Len(output)
    BY <1>2
  <2> QED
    BY <1>0, <1>2, <2>1 DEF GrowInv, EndsUnlessFlushed
<1> QED
  BY <1>1, <1>3, <1>4 DEF CombineCorrect

(* combine_files writes the inputs in their order, whole and between their   *)
(* marks, whatever is removed meanwhile; and an output that is an input      *)
(* comes to its end only if nothing of it was flushed before it was read.    *)
THEOREM CombinesInOrder == CombineSpec => []CombineCorrect
<1>1. CombineInv /\ [CombineNext]_combineVars => CombineInv'
  BY CombineStep, Zenon
<1> QED
  BY <1>1, CombineIs, CombineInitInv, PTL DEF CombineSpec

(* The tools: a talker that is told to stop does, and the combined file is   *)
(* what its inputs were.                                                     *)
THEOREM ToolsHold == ToolsSpec => []ToolsCorrect
<1>1. TalkerCorrect /\ CombineCorrect => ToolsCorrect
  BY Zenon DEF ToolsCorrect
<1> QED
  BY <1>1, TalkersStop, CombinesInOrder, PTL DEF ToolsSpec

-----------------------------------------------------------------------------
(* ducpp: every file counted once, and the lists and the sum of them.        *)

(* The greater of two numbers and the lesser of them.                        *)
LEMMA MaxOfTwo ==
  ASSUME NEW x \in Int, NEW y \in Int
  PROVE  Sets!Max({x, y}) = IF x >= y THEN x ELSE y
BY DEF Sets!Max

(* The lesser of two numbers.                                                *)
LEMMA MinOfTwo ==
  ASSUME NEW x \in Int, NEW y \in Int
  PROVE  Sets!Min({x, y}) = IF x <= y THEN x ELSE y
BY DEF Sets!Min

(* So that a total is how many there are.                                    *)
LEMMA SumIsUnits ==
  ASSUME NEW S, IsFiniteSet(S), NEW f, \A x \in S : f[x] \in Nat
  PROVE  Total(f, S) = Cardinality(Units(f, S))
BY SumsAre, Zenon DEF Total, Sets!FoldSet, Sets!MapThenFoldSet

FilesOf(e) == {f \in DuFiles : DuEntry[f] = e}

DuTypes ==
  /\ mode \in {"sum", "rank"} /\ wanted \in [Queues -> Int]
  /\ size \in [DuFiles -> DuSizes \cup {Gone, Odd}]
  /\ task \in [Entries -> {"queued", "running", "done", "threw"}]
  /\ todo \in [Entries -> SUBSET DuFiles] /\ visiting \in [Entries -> SUBSET DuFiles]
  /\ stage \in [Entries -> {"next", "valid"} \cup Queues] /\ sz \in [Entries -> Nat]
  /\ queue \in [Queues -> SUBSET DuFiles] /\ stale \in [Queues -> BOOLEAN]
  /\ lock \in [Queues -> SUBSET (Entries \cup {Main})] /\ checked \in [Queues -> SUBSET DuFiles]
  /\ shown = [x \in Queues \cup {"sum"} |-> shown[x]]
  /\ outcome \in {"running", "max", "min", "printed", "terminated", "undefined"}
  /\ had \in [DuFiles -> SUBSET (DuSizes \cup {Gone, Odd})] /\ changes \in Nat
  /\ unread \subseteq Entries \cup {Main}

\* A task visits one of its files at a time, while it runs; a lock is held by whoever is in
\* that queue; main() goes on when every task is over.
VisitInv ==
  /\ \A e \in Entries :
       /\ visiting[e] \subseteq FilesOf(e) /\ todo[e] \subseteq FilesOf(e)
       /\ todo[e] \cap visiting[e] = {}
       /\ stage[e] = "next" => visiting[e] = {}
       /\ stage[e] # "next" => /\ \E f \in DuFiles : visiting[e] = {f}
                               /\ task[e] = "running"
                               /\ (stage[e] = "valid") <=> (mode = "sum")
       /\ task[e] = "done" => todo[e] = {}
  /\ \A u \in Queues : \/ lock[u] = {} \/ lock[u] = {Main}
                       \/ \E e \in Entries : lock[u] = {e} /\ stage[e] = u
  /\ outcome \notin {"running", "undefined", "terminated"} => Collected
  /\ outcome \in {"max", "min", "printed"} => \A e \in Entries : task[e] = "done"
  /\ outcome \in {"max", "min"} => mode = "rank"

HadInv ==
  /\ \A f \in DuFiles : size[f] \in had[f]
  /\ \A e \in Entries : task[e] = "threw" => Faulty
  /\ outcome = "terminated" => Faulty
  /\ unread # {} => outcome = "terminated" \/ \E e \in Entries : task[e] = "threw"
  /\ changes = 0 => (\A f \in DuFiles : Exists(f)) /\ \A u \in Queues : ~stale[u]

\* What each file has counted so far, unless its task is over without counting it.
Threw(f) == task[DuEntry[f]] = "threw"
SumInv ==
  /\ mode = "sum" => \E g \in [DuFiles -> DuSizes \cup {0}] :
       /\ \A f \in DuFiles : IF f \in todo[DuEntry[f]] \cup visiting[DuEntry[f]] THEN g[f] = 0
                             ELSE Threw(f) \/ g[f] \in had[f] \/ (g[f] = 0 /\ Gone \in had[f])
       /\ \A e \in Entries : sz[e] = Cardinality(Units(g, FilesOf(e)))
  /\ SumOfSizes

\* The files that were pushed to a queue.
PushedTo(u) == 
  {f \in DuFiles : /\ f \notin todo[DuEntry[f]]
                   /\ f \in visiting[DuEntry[f]] => u = "max" /\ stage[DuEntry[f]] = "min"}

Calm == changes = 0 /\ \A f \in DuFiles : HasSize(f)
RankInv ==
  mode = "rank" /\ Calm =>
    \A u \in Queues :
      /\ outcome = "running" \/ outcome = u \/ (u = "min" /\ outcome = "max") =>
           /\ queue[u] \subseteq PushedTo(u)
           /\ Cardinality(queue[u]) = Sets!Min({Capacity, Cardinality(PushedTo(u))})
           /\ \A f \in queue[u], g \in PushedTo(u) \ queue[u] : ~Beats(u, g, f)
           /\ shown[u] = {}
      /\ outcome = "printed" \/ (u = "max" /\ outcome = "min") =>
           /\ Cardinality(shown[u]) = Sets!Min({Sets!Max({wanted[u], 0}), Cardinality(DuFiles)})
           /\ \A f \in shown[u], g \in DuFiles \ shown[u] : ~Beats(u, g, f)

DuInv == DuTypes /\ VisitInv /\ HadInv /\ SumInv /\ RankInv

(* There are finitely many entries.                                          *)
LEMMA EntriesFinite == IsFiniteSet(Entries)
<1> DEFINE d == [f \in DuFiles |-> DuEntry[f]]
<1>1. d \in [DuFiles -> Entries] /\ \A e \in Entries : \E f \in DuFiles : d[f] = e
  BY DEF Entries
<1>2. d \in Surjection(DuFiles, Entries)
  BY <1>1, Zenon DEF Surjection
<1> HIDE DEF d
<1> QED
  BY <1>2, FS_Surjection, DuAssumption

(* Sets of files and of entries are finite.                                  *)
LEMMA FileSets ==
  /\ \A S \in SUBSET DuFiles : IsFiniteSet(S) /\ Cardinality(S) \in Nat
  /\ Cardinality({}) = 0
BY DuAssumption, FS_Subset, FS_CardinalityType, FS_EmptySet

(* A queue keeps the greater of the two options.                             *)
LEMMA CapacityIs ==
  ASSUME wanted \in [Queues -> Int]
  PROVE  /\ Capacity \in Nat
         /\ \A u \in Queues : wanted[u] > 0 => wanted[u] <= Capacity
<1>1. wanted["max"] \in Int /\ wanted["min"] \in Int /\ Cardinality(DuFiles) \in Nat
  BY FileSets DEF Queues
<1>2. Sets!Max({wanted["max"], wanted["min"]}) =
        IF wanted["max"] >= wanted["min"] THEN wanted["max"] ELSE wanted["min"]
  BY <1>1, MaxOfTwo
<1> QED
  BY <1>1, <1>2 DEF Capacity, Queues

(* Before a file is visited the invariant holds.                             *)
LEMMA DuInitInv == DuInit => DuInv
<1> SUFFICES ASSUME DuInit PROVE DuInv
  OBVIOUS
<1>1. DuTypes
  <2>1. /\ todo \in [Entries -> SUBSET DuFiles] /\ visiting \in [Entries -> SUBSET DuFiles]
        /\ task \in [Entries -> {"queued"}] /\ stage \in [Entries -> {"next"}]
        /\ sz \in [Entries -> Nat] /\ queue \in [Queues -> SUBSET DuFiles]
        /\ lock \in [Queues -> SUBSET (Entries \cup {Main})]
        /\ stale \in [Queues -> BOOLEAN] /\ checked \in [Queues -> SUBSET DuFiles]
        /\ outcome = "running" /\ changes = 0 /\ unread = {} /\ mode \in {"sum", "rank"}
    BY DEF DuInit
  <2>2. wanted \in [Queues -> Int]
    <3>1. /\ [u \in Queues |-> 0] \in [Queues -> Int]
          /\ \A w \in [Queues -> DuOptions] : w \in [Queues -> Int]
      <4>1. \A n \in DuOptions : n \in Int
        BY DuAssumption
      <4> QED
        BY <4>1
    <3>2. wanted \in {[u \in Queues |-> 0]} \/ wanted \in [Queues -> DuOptions]
      BY Zenon DEF DuInit
    <3> QED
      BY <3>1, <3>2, Zenon
  <2>3. /\ size \in [DuFiles -> DuSizes \cup {Gone, Odd}]
        /\ had \in [DuFiles -> SUBSET (DuSizes \cup {Gone, Odd})]
    BY DEF DuInit
  <2>4. shown = [x \in Queues \cup {"sum"} |-> shown[x]]
    BY DEF DuInit
  <2> QED
    BY <2>1, <2>2, <2>3, <2>4 DEF DuTypes
<1>2. VisitInv
  <2>1. \A e \in Entries : /\ visiting[e] = {} /\ todo[e] = FilesOf(e)
                           /\ stage[e] = "next" /\ task[e] = "queued"
    BY DEF DuInit, FilesOf
  <2>2. \A u \in Queues : lock[u] = {}
    BY DEF DuInit
  <2>3. outcome = "running"
    BY DEF DuInit
  <2> QED
    BY <2>1, <2>2, <2>3 DEF VisitInv
<1>3. HadInv
  <2>1. \A f \in DuFiles : size[f] \in DuSizes \cup {Odd} /\ had[f] = {size[f]}
    BY DEF DuInit
  <2> QED
    BY <2>1, DuAssumption DEF DuInit, HadInv, Exists
<1>4. SumInv
  <2>1. outcome = "running"
    BY DEF DuInit
  <2> DEFINE g == [f \in DuFiles |-> 0]
  <2>2. \A f \in DuFiles : f \in todo[DuEntry[f]]
    BY DEF DuInit, Entries
  <2>3. \A e \in Entries : sz[e] = Cardinality(Units(g, FilesOf(e)))
    <3> TAKE e \in Entries
    <3>1. Units(g, FilesOf(e)) = {}
      BY DEF Units, FilesOf
    <3> QED
      BY <3>1, FileSets DEF DuInit
  <2>4. g \in [DuFiles -> DuSizes \cup {0}] /\ \A f \in DuFiles : g[f] = 0
    OBVIOUS
  <2> HIDE DEF g
  <2> QED
    BY <2>1, <2>2, <2>3, <2>4 DEF SumInv, SumOfSizes
<1>5. RankInv
  <2>1. \A f \in DuFiles : f \in todo[DuEntry[f]]
    BY DEF DuInit, Entries
  <2>2. \A u \in Queues : PushedTo(u) = {} /\ queue[u] = {} /\ shown[u] = {}
    BY <2>1 DEF DuInit, PushedTo
  <2>3. wanted \in [Queues -> Int] /\ outcome = "running"
    BY <1>1 DEF DuTypes, DuInit
  <2>4. Capacity \in Nat
    BY <2>3, CapacityIs
  <2>5. Sets!Min({Capacity, 0}) = 0
    BY <2>4, MinOfTwo
  <2> QED
    BY <2>2, <2>3, <2>5, FileSets DEF RankInv, Queues
<1> QED
  BY <1>1, <1>2, <1>3, <1>4, <1>5 DEF DuInv

(* A step that concerns neither the visits nor the files keeps what is       *)
(* counted and ranked.                                                       *)
LEMMA SumKept ==
  ASSUME SumInv, UNCHANGED <<mode, todo, visiting, sz, shown, had>>,
         \A e \in Entries : task[e] = "threw" => task'[e] = "threw",
         outcome' # "printed" \/ outcome' = outcome
  PROVE  SumInv'
<1>1. \A f \in DuFiles : DuEntry[f] \in Entries
  BY DEF Entries
<1>2. \A f \in DuFiles : Threw(f) => Threw(f)'
  BY <1>1 DEF Threw
<1>3. SumOfSizes'
  BY DEF SumInv, SumOfSizes
<1>4. ASSUME mode = "sum"
      PROVE  \E g \in [DuFiles -> DuSizes \cup {0}] :
        /\ \A h \in DuFiles : IF h \in todo[DuEntry[h]] \cup visiting[DuEntry[h]] THEN g[h] = 0
                           ELSE Threw(h)' \/ g[h] \in had[h] \/ (g[h] = 0 /\ Gone \in had[h])
        /\ \A e \in Entries : sz[e] = Cardinality(Units(g, FilesOf(e)))
  <2>1. PICK g \in [DuFiles -> DuSizes \cup {0}] :
        /\ \A h \in DuFiles : IF h \in todo[DuEntry[h]] \cup visiting[DuEntry[h]] THEN g[h] = 0
                           ELSE Threw(h) \/ g[h] \in had[h] \/ (g[h] = 0 /\ Gone \in had[h])
        /\ \A e \in Entries : sz[e] = Cardinality(Units(g, FilesOf(e)))
    BY <1>4 DEF SumInv
  <2>2. \A h \in DuFiles : IF h \in todo[DuEntry[h]] \cup visiting[DuEntry[h]] THEN g[h] = 0
                           ELSE Threw(h)' \/ g[h] \in had[h] \/ (g[h] = 0 /\ Gone \in had[h])
    BY <1>2, <2>1
  <2> QED
    BY <2>1, <2>2, Zenon
<1> QED
  BY <1>3, <1>4 DEF SumInv, FilesOf

(* What only ends the program keeps the ranking as it is.                    *)
LEMMA RankKept ==
  ASSUME RankInv, UNCHANGED <<mode, changes, wanted, size, todo, visiting, stage, queue, shown>>,
         outcome' = outcome \/ outcome' \in {"terminated", "undefined"}
  PROVE  RankInv'
<1>1. /\ Capacity' = Capacity /\ \A u : PushedTo(u)' = PushedTo(u)
      /\ \A u, f, g : Beats(u, f, g)' = Beats(u, f, g)
  BY Zenon DEF Capacity, PushedTo, Beats, Smaller, Exists
<1>2. Calm' = Calm
  BY Zenon DEF Calm, HasSize
<1> QED
  BY <1>1, <1>2 DEF RankInv, Queues

(* One lemma for each kind of step.                                         *)
LEMMA ChangeStep ==
  ASSUME DuInv, NEW f \in DuFiles, Change(f)
  PROVE  DuInv'
<1>1. DuTypes /\ VisitInv /\ HadInv /\ SumInv /\ MaxChanges \in Nat
  BY DuAssumption DEF DuInv
<1>2. /\ size' \in [DuFiles -> DuSizes \cup {Gone, Odd}] /\ size' = [size EXCEPT ![f] = size'[f]]
      /\ had' = [had EXCEPT ![f] = @ \cup {size'[f]}]
      /\ stale' \in [Queues -> BOOLEAN] /\ changes' = changes + 1
  BY <1>1 DEF Change, DuTypes, SizesOf
<1>3. DuTypes'
  <2>1. had' \in [DuFiles -> SUBSET (DuSizes \cup {Gone, Odd})]
    BY <1>1, <1>2 DEF DuTypes
  <2> QED
    BY <1>1, <1>2, <2>1 DEF DuTypes, Change
<1>4. VisitInv'
  BY <1>1, Zenon DEF VisitInv, Change, Collected, FilesOf
<1>5. HadInv'
  <2>1. \A h \in DuFiles : had[h] \subseteq had'[h]
    BY <1>1, <1>2 DEF DuTypes
  <2>2. \A h \in DuFiles : size'[h] \in had'[h]
    BY <1>1, <1>2 DEF DuTypes, HadInv
  <2>3. changes' # 0
    BY <1>1, <1>2 DEF DuTypes
  <2> QED
    BY <1>1, <2>1, <2>2, <2>3 DEF HadInv, Faulty, Change
<1>6. SumInv'
  <2>1. \A h \in DuFiles : had[h] \subseteq had'[h]
    BY <1>1, <1>2 DEF DuTypes
  <2>2. /\ UNCHANGED <<mode, task, todo, visiting, sz, outcome, shown>>
    BY DEF Change
  <2>3. SumOfSizes'
    BY <1>1, <2>1, <2>2, SMTT(30) DEF SumInv, SumOfSizes
  <2>4. ASSUME mode = "sum"
        PROVE  \E g \in [DuFiles -> DuSizes \cup {0}] :
          /\ \A h \in DuFiles : IF h \in todo[DuEntry[h]] \cup visiting[DuEntry[h]] THEN g[h] = 0
                             ELSE Threw(h) \/ g[h] \in had'[h] \/ (g[h] = 0 /\ Gone \in had'[h])
          /\ \A e \in Entries : sz[e] = Cardinality(Units(g, FilesOf(e)))
    <3>1. PICK g \in [DuFiles -> DuSizes \cup {0}] :
          /\ \A h \in DuFiles : IF h \in todo[DuEntry[h]] \cup visiting[DuEntry[h]] THEN g[h] = 0
                             ELSE Threw(h) \/ g[h] \in had[h] \/ (g[h] = 0 /\ Gone \in had[h])
          /\ \A e \in Entries : sz[e] = Cardinality(Units(g, FilesOf(e)))
      BY <1>1, <2>4 DEF SumInv
    <3>2. \A h \in DuFiles : IF h \in todo[DuEntry[h]] \cup visiting[DuEntry[h]] THEN g[h] = 0
                             ELSE Threw(h) \/ g[h] \in had'[h] \/ (g[h] = 0 /\ Gone \in had'[h])
      BY <2>1, <3>1
    <3> QED
      BY <3>1, <3>2, Zenon
  <2> QED
    BY <2>2, <2>3, <2>4 DEF SumInv, Threw
<1>7. RankInv'
  <2>1. changes' # 0
    BY <1>1, <1>2 DEF DuTypes
  <2> QED
    BY <2>1 DEF RankInv, Calm
<1> QED
  BY <1>3, <1>4, <1>5, <1>6, <1>7 DEF DuInv

(* A worker takes a task or ends it.                                         *)
LEMMA StartEndStep ==
  ASSUME DuInv, NEW e \in Entries, StartTask(e) \/ EndTask(e), outcome = "running" \/ ~Collected
  PROVE  DuInv'
<1>1. DuTypes /\ VisitInv /\ HadInv /\ SumInv /\ RankInv
  BY DEF DuInv
<1>2. /\ task' \in [Entries -> {"queued", "running", "done", "threw"}]
      /\ \A d \in Entries : d # e => task'[d] = task[d]
      /\ task'[e] \in {"running", "done"} /\ task[e] \in {"queued", "running"}
      /\ task[e] = "running" => task'[e] = "done" /\ stage[e] = "next" /\ todo[e] = {}
      /\ task'[e] = "done" => stage[e] = "next" /\ todo[e] = {}
      /\ UNCHANGED <<mode, wanted, size, todo, visiting, stage, sz, queue, lock, stale, checked,
                     shown, outcome, had, unread, changes>>
  BY <1>1 DEF DuTypes, StartTask, EndTask
<1>3. DuTypes'
  BY <1>1, <1>2 DEF DuTypes
<1>4. VisitInv'
  <2>1. \A d \in Entries :
       /\ visiting[d] \subseteq FilesOf(d) /\ todo[d] \subseteq FilesOf(d)
       /\ todo[d] \cap visiting[d] = {}
       /\ stage[d] = "next" => visiting[d] = {}
       /\ stage[d] # "next" => /\ \E f \in DuFiles : visiting[d] = {f}
                               /\ task'[d] = "running"
                               /\ (stage[d] = "valid") <=> (mode = "sum")
       /\ task'[d] = "done" => todo[d] = {}
    <3> TAKE d \in Entries
    <3> QED
      BY <1>1, <1>2 DEF VisitInv
  <2>2. ~Collected
    BY <1>2 DEF Collected
  <2>3. outcome \in {"running", "undefined", "terminated"}
    BY <1>1, <2>2, Zenon DEF VisitInv
  <2> QED
    BY <1>1, <1>2, <2>1, <2>3 DEF VisitInv, FilesOf
<1>5. HadInv'
  BY <1>1, <1>2, SMTT(30) DEF HadInv, Faulty, Exists
<1>6. SumInv' /\ RankInv'
  BY <1>1, <1>2, SumKept, RankKept
<1> QED
  BY <1>3, <1>4, <1>5, <1>6 DEF DuInv

(* A file is visited.                                                        *)
LEMMA VisitStep ==
  ASSUME DuInv, NEW e \in Entries, NEW f \in DuFiles, Visit(e, f)
  PROVE  DuInv'
<1>1. DuTypes /\ VisitInv /\ HadInv /\ SumInv /\ RankInv
  BY DEF DuInv
<1>2. /\ task[e] = "running" /\ stage[e] = "next" /\ f \in todo[e]
      /\ todo' = [todo EXCEPT ![e] = @ \ {f}]
      /\ UNCHANGED <<mode, wanted, size, task, sz, queue, lock, stale, checked, shown, outcome,
                     had, unread, changes>>
      /\ ~Exists(f) => UNCHANGED <<visiting, stage>>
      /\ Exists(f) => /\ visiting' = [visiting EXCEPT ![e] = {f}]
                      /\ stage' = [stage EXCEPT ![e] = IF mode = "sum" THEN "valid" ELSE "max"]
  BY DEF Visit
<1>3. /\ DuEntry[f] = e /\ visiting[e] = {}
      /\ \A d \in Entries : d # e => todo'[d] = todo[d] /\ visiting'[d] = visiting[d] /\ stage'[d] = stage[d]
      /\ todo'[e] = todo[e] \ {f}
      /\ ~Exists(f) => visiting'[e] = {} /\ stage'[e] = "next"
      /\ Exists(f) => visiting'[e] = {f} /\ stage'[e] = IF mode = "sum" THEN "valid" ELSE "max"
  BY <1>1, <1>2 DEF DuTypes, VisitInv, FilesOf
<1>4. DuTypes'
  <2>1. todo' \in [Entries -> SUBSET DuFiles]
    BY <1>1, <1>2 DEF DuTypes
  <2>2. visiting' \in [Entries -> SUBSET DuFiles] /\ stage' \in [Entries -> {"next", "valid"} \cup Queues]
    BY <1>1, <1>2 DEF DuTypes, Queues
  <2> QED
    BY <1>1, <1>2, <2>1, <2>2 DEF DuTypes
<1>5. VisitInv'
  <2>1. \A d \in Entries :
       /\ visiting'[d] \subseteq FilesOf(d) /\ todo'[d] \subseteq FilesOf(d)
       /\ todo'[d] \cap visiting'[d] = {}
       /\ stage'[d] = "next" => visiting'[d] = {}
       /\ stage'[d] # "next" => /\ \E h \in DuFiles : visiting'[d] = {h}
                                /\ task[d] = "running"
                                /\ (stage'[d] = "valid") <=> (mode = "sum")
       /\ task[d] = "done" => todo'[d] = {}
    <3> TAKE d \in Entries
    <3>1. CASE d # e
      BY <1>1, <1>3, <3>1 DEF VisitInv
    <3>2. CASE d = e
      BY <1>1, <1>2, <1>3, <3>2 DEF VisitInv, FilesOf
    <3> QED
      BY <3>1, <3>2
  <2>2. \A u \in Queues : \/ lock[u] = {} \/ lock[u] = {Main}
                          \/ \E d \in Entries : lock[u] = {d} /\ stage'[d] = u
    <3>1. \A d \in Entries, u \in Queues : stage[d] = u => d # e
      BY <1>2 DEF Queues
    <3> QED
      BY <1>1, <1>3, <3>1 DEF VisitInv
  <2> QED
    BY <1>1, <1>2, <2>1, <2>2 DEF VisitInv, Collected, FilesOf
<1>6. HadInv'
  BY <1>1, <1>2 DEF HadInv, Faulty, Exists
<1>7. SumInv'
  <2>1. SumOfSizes'
    BY <1>1, <1>2, SMTT(30) DEF SumInv, SumOfSizes
  <2>2. ASSUME mode = "sum"
        PROVE  \E g \in [DuFiles -> DuSizes \cup {0}] :
          /\ \A h \in DuFiles : IF h \in todo'[DuEntry[h]] \cup visiting'[DuEntry[h]] THEN g[h] = 0
                             ELSE Threw(h) \/ g[h] \in had[h] \/ (g[h] = 0 /\ Gone \in had[h])
          /\ \A d \in Entries : sz[d] = Cardinality(Units(g, FilesOf(d)))
    <3>1. PICK g \in [DuFiles -> DuSizes \cup {0}] :
          /\ \A h \in DuFiles : IF h \in todo[DuEntry[h]] \cup visiting[DuEntry[h]] THEN g[h] = 0
                             ELSE Threw(h) \/ g[h] \in had[h] \/ (g[h] = 0 /\ Gone \in had[h])
          /\ \A d \in Entries : sz[d] = Cardinality(Units(g, FilesOf(d)))
      BY <1>1, <2>2 DEF SumInv
    <3>2. \A h \in DuFiles : IF h \in todo'[DuEntry[h]] \cup visiting'[DuEntry[h]] THEN g[h] = 0
                             ELSE Threw(h) \/ g[h] \in had[h] \/ (g[h] = 0 /\ Gone \in had[h])
      <4> TAKE h \in DuFiles
      <4>1. DuEntry[h] \in Entries
        BY DEF Entries
      <4>2. ~Exists(f) => Gone \in had[f]
        BY <1>1 DEF HadInv, Exists
      <4>3. CASE h = f
        BY <1>2, <1>3, <3>1, <4>2, <4>3
      <4>4. CASE h # f
        BY <1>2, <1>3, <3>1, <4>1, <4>4
      <4> QED
        BY <4>3, <4>4
    <3> QED
      BY <3>1, <3>2, Zenon
  <2> QED
    BY <1>2, <2>1, <2>2 DEF SumInv, FilesOf, Threw
<1>8. RankInv'
  <2> SUFFICES ASSUME mode = "rank", Calm PROVE RankInv'
    BY <1>2 DEF RankInv, Calm, HasSize
  <2>1. Exists(f)
    BY <1>1 DEF HadInv, Calm
  <2>2. \A u \in Queues : PushedTo(u)' = PushedTo(u)
    <3> TAKE u \in Queues
    <3>1. ASSUME NEW h \in DuFiles
          PROVE  /\ h \notin todo'[DuEntry[h]]
                 /\ h \in visiting'[DuEntry[h]] => u = "max" /\ stage'[DuEntry[h]] = "min"
                 <=> /\ h \notin todo[DuEntry[h]]
                     /\ h \in visiting[DuEntry[h]] => u = "max" /\ stage[DuEntry[h]] = "min"
      <4>1. DuEntry[h] \in Entries
        BY DEF Entries
      <4>2. CASE h = f
        BY <1>2, <1>3, <2>1, <4>2
      <4>3. CASE h # f
        BY <1>2, <1>3, <2>1, <4>1, <4>3
      <4> QED
        BY <4>2, <4>3
    <3> QED
      BY <3>1 DEF PushedTo
  <2>3. Capacity' = Capacity /\ \A u, h, g : Beats(u, h, g)' = Beats(u, h, g)
    BY <1>2, Zenon DEF Capacity, Beats, Smaller, Exists
  <2> QED
    BY <1>1, <1>2, <2>2, <2>3 DEF RankInv, Calm, HasSize
<1> QED
  BY <1>4, <1>5, <1>6, <1>7, <1>8 DEF DuInv

(* What one file counts more its entry counts more.                          *)
LEMMA CountOne ==
  ASSUME NEW g \in [DuFiles -> Nat], NEW f \in DuFiles, g[f] = 0, NEW n \in Nat
  PROVE  LET h == [g EXCEPT ![f] = n]
         IN \A e \in Entries :
              Cardinality(Units(h, FilesOf(e))) =
                Cardinality(Units(g, FilesOf(e))) + (IF DuEntry[f] = e THEN n ELSE 0)
<1> DEFINE h == [g EXCEPT ![f] = n]
<1> SUFFICES ASSUME NEW e \in Entries
             PROVE Cardinality(Units(h, FilesOf(e))) =
                     Cardinality(Units(g, FilesOf(e))) + (IF DuEntry[f] = e THEN n ELSE 0)
  BY Zenon
<1>0. h \in [DuFiles -> Nat] /\ h[f] = n /\ \A x \in DuFiles : x # f => h[x] = g[x]
  OBVIOUS
<1> HIDE DEF h
<1> DEFINE T == FilesOf(e)
<1>1. T \subseteq DuFiles /\ (f \in T <=> DuEntry[f] = e)
  BY DEF FilesOf
<1> HIDE DEF T
<1>2. Units(h, T \ {f}) = Units(g, T \ {f})
  BY <1>0, <1>1 DEF Units
<1>3. \A R \in SUBSET DuFiles : IsFiniteSet(Units(g, R)) /\ Cardinality(Units(g, R)) \in Nat
  BY UnitsFinite, DuAssumption, FS_CardinalityType
<1>4. \A R \in SUBSET DuFiles : IsFiniteSet(Units(h, R)) /\ Cardinality(Units(h, R)) \in Nat
  BY <1>0, UnitsFinite, DuAssumption, FS_CardinalityType
<1>5. CASE f \in T
  <2>0. T \ {f} \in SUBSET DuFiles /\ g[f] \in Nat /\ h[f] \in Nat
    BY <1>0, <1>1
  <2>1. Cardinality(Units(h, T)) = h[f] + Cardinality(Units(h, T \ {f}))
    BY <1>4, <1>5, <2>0, UnitsGrow
  <2>2. Cardinality(Units(g, T)) = g[f] + Cardinality(Units(g, T \ {f}))
    BY <1>3, <1>5, <2>0, UnitsGrow
  <2>3. Cardinality(Units(g, T \ {f})) \in Nat
    BY <1>3, <2>0
  <2>4. Cardinality(Units(h, T)) = Cardinality(Units(g, T)) + n
    BY <1>0, <1>2, <2>1, <2>2, <2>3
  <2> QED
    BY <1>1, <1>5, <2>4 DEF T
<1>6. CASE f \notin T
  <2>1. T \ {f} = T
    BY <1>6
  <2>2. Units(h, T) = Units(g, T) /\ Cardinality(Units(g, T)) \in Nat
    BY <1>1, <1>2, <1>3, <2>1
  <2> QED
    BY <1>1, <1>6, <2>2 DEF T
<1> QED
  BY <1>5, <1>6

(* A size is added to the sum.                                               *)
LEMMA AddSizeStep ==
  ASSUME DuInv, NEW e \in Entries, AddSize(e)
  PROVE  DuInv'
<1>1. DuTypes /\ VisitInv /\ HadInv /\ SumInv /\ RankInv
  BY DEF DuInv
<1>2. PICK f \in DuFiles : visiting[e] = {f}
  BY <1>1 DEF AddSize, VisitInv
<1>3. /\ task[e] = "running" /\ stage[e] = "valid" /\ mode = "sum"
      /\ DuEntry[f] = e /\ f \notin todo[e]
  BY <1>1, <1>2 DEF AddSize, VisitInv, FilesOf
<1>4. /\ visiting' = [visiting EXCEPT ![e] = {}] /\ stage' = [stage EXCEPT ![e] = "next"]
      /\ UNCHANGED <<mode, wanted, size, todo, queue, lock, stale, checked, shown, outcome, had, unread,
                     changes>>
      /\ \/ ~HasSize(f) /\ task' = [task EXCEPT ![e] = "threw"] /\ UNCHANGED sz
         \/ HasSize(f) /\ sz' = [sz EXCEPT ![e] = @ + size[f]] /\ UNCHANGED task
  BY <1>2 DEF AddSize
<1>5. /\ size[f] \in had[f] /\ (~HasSize(f) => Faulty)
      /\ (HasSize(f) => size[f] \in DuSizes /\ size[f] \in Nat)
  BY <1>1, DuAssumption DEF HadInv, HasSize, DuTypes, Faulty
<1>6. /\ visiting'[e] = {} /\ stage'[e] = "next"
      /\ \A d \in Entries : d # e => visiting'[d] = visiting[d] /\ stage'[d] = stage[d] /\ task'[d] = task[d]
      /\ task'[e] \in {"threw", "running"} /\ (task'[e] = "threw" <=> ~HasSize(f))
  BY <1>1, <1>3, <1>4, <1>5 DEF DuTypes
<1>7. DuTypes'
  <2>1. /\ visiting' \in [Entries -> SUBSET DuFiles]
        /\ task' \in [Entries -> {"queued", "running", "done", "threw"}]
        /\ stage' \in [Entries -> {"next", "valid"} \cup Queues]
    BY <1>1, <1>4 DEF DuTypes
  <2>2. sz' \in [Entries -> Nat]
    BY <1>1, <1>4, <1>5 DEF DuTypes
  <2> QED
    BY <1>1, <1>4, <2>1, <2>2 DEF DuTypes
<1>8. outcome \in {"running", "undefined", "terminated"}
  <2>1. ~Collected
    BY <1>3 DEF Collected
  <2> QED
    BY <1>1, <2>1, Zenon DEF VisitInv
<1>9. VisitInv'
  <2>1. \A d \in Entries :
       /\ visiting'[d] \subseteq FilesOf(d) /\ todo[d] \subseteq FilesOf(d)
       /\ todo[d] \cap visiting'[d] = {}
       /\ stage'[d] = "next" => visiting'[d] = {}
       /\ stage'[d] # "next" => /\ \E h \in DuFiles : visiting'[d] = {h}
                                /\ task'[d] = "running"
                                /\ (stage'[d] = "valid") <=> (mode = "sum")
       /\ task'[d] = "done" => todo[d] = {}
    <3> TAKE d \in Entries
    <3>1. CASE d # e
      BY <1>1, <1>6, <3>1 DEF VisitInv
    <3>2. CASE d = e
      BY <1>1, <1>6, <3>2 DEF VisitInv
    <3> QED
      BY <3>1, <3>2
  <2>2. \A u \in Queues : \/ lock[u] = {} \/ lock[u] = {Main}
                          \/ \E d \in Entries : lock[u] = {d} /\ stage'[d] = u
    <3>1. \A d \in Entries, u \in Queues : stage[d] = u => d # e
      BY <1>3 DEF Queues
    <3> QED
      BY <1>1, <1>6, <3>1 DEF VisitInv
  <2> QED
    BY <1>4, <1>8, <2>1, <2>2 DEF VisitInv, FilesOf
<1>10. HadInv'
  <2>1. \A d \in Entries : task'[d] = "threw" => Faulty
    <3> TAKE d \in Entries
    <3>1. CASE d = e
      BY <1>5, <1>6, <3>1
    <3>2. CASE d # e
      BY <1>1, <1>6, <3>2 DEF HadInv
    <3> QED
      BY <3>1, <3>2
  <2>2. \A d \in Entries : task[d] = "threw" => task'[d] = "threw"
    BY <1>3, <1>6
  <2> QED
    BY <1>1, <1>4, <2>1, <2>2 DEF HadInv, Faulty, Exists
<1>11. SumInv'
  <2>1. SumOfSizes'
    BY <1>1, <1>4, SMTT(30) DEF SumInv, SumOfSizes
  <2>2. PICK g \in [DuFiles -> DuSizes \cup {0}] :
          /\ \A h \in DuFiles : IF h \in todo[DuEntry[h]] \cup visiting[DuEntry[h]] THEN g[h] = 0
                             ELSE Threw(h) \/ g[h] \in had[h] \/ (g[h] = 0 /\ Gone \in had[h])
          /\ \A d \in Entries : sz[d] = Cardinality(Units(g, FilesOf(d)))
    BY <1>1, <1>3 DEF SumInv
  <2>3. g[f] = 0
    BY <1>2, <1>3, <2>2
  <2> DEFINE n == IF HasSize(f) THEN size[f] ELSE 0
             k == [g EXCEPT ![f] = n]
  <2>4. n \in DuSizes \cup {0} /\ n \in Nat /\ (n \in had[f] \/ task'[e] = "threw")
    BY <1>5, <1>6
  <2>5. k \in [DuFiles -> DuSizes \cup {0}] /\ k[f] = n /\ \A h \in DuFiles : h # f => k[h] = g[h]
    BY <2>2, <2>4
  <2>6. \A d \in Entries : Cardinality(Units(k, FilesOf(d))) =
                             Cardinality(Units(g, FilesOf(d))) + (IF DuEntry[f] = d THEN n ELSE 0)
    <3>1. g \in [DuFiles -> Nat]
      <4>1. \A m \in DuSizes \cup {0} : m \in Nat
        BY DuAssumption
      <4> QED
        BY <2>2, <4>1
    <3> HIDE DEF n
    <3> QED
      BY <2>3, <2>4, <3>1, CountOne, Zenon
  <2>7. \A d \in Entries : sz'[d] = sz[d] + (IF DuEntry[f] = d THEN n ELSE 0)
    BY <1>1, <1>3, <1>4, <1>5 DEF DuTypes
  <2> HIDE DEF n, k
  <2>8. \A d \in Entries : sz'[d] = Cardinality(Units(k, FilesOf(d)))
    BY <2>2, <2>6, <2>7
  <2>9. \A h \in DuFiles : IF h \in todo[DuEntry[h]] \cup visiting'[DuEntry[h]] THEN k[h] = 0
                           ELSE Threw(h)' \/ k[h] \in had[h] \/ (k[h] = 0 /\ Gone \in had[h])
    <3> TAKE h \in DuFiles
    <3>1. DuEntry[h] \in Entries
      BY DEF Entries
    <3>2. CASE h = f
      BY <1>3, <1>6, <2>4, <2>5, <3>2 DEF Threw
    <3>3. CASE h # f
      <4>1. Threw(h) => Threw(h)'
        BY <1>3, <1>6, <3>1 DEF Threw
      <4> QED
        BY <1>2, <1>3, <1>6, <2>2, <2>5, <3>1, <3>3, <4>1
    <3> QED
      BY <3>2, <3>3
  <2>10. \E j \in [DuFiles -> DuSizes \cup {0}] :
          /\ \A h \in DuFiles : IF h \in todo[DuEntry[h]] \cup visiting'[DuEntry[h]] THEN j[h] = 0
                             ELSE Threw(h)' \/ j[h] \in had[h] \/ (j[h] = 0 /\ Gone \in had[h])
          /\ \A d \in Entries : sz'[d] = Cardinality(Units(j, FilesOf(d)))
    BY <2>5, <2>8, <2>9, Zenon
  <2> QED
    BY <1>4, <2>1, <2>10 DEF SumInv, FilesOf
<1>12. RankInv'
  BY <1>3, <1>4 DEF RankInv
<1> QED
  BY <1>7, <1>9, <1>10, <1>11, <1>12 DEF DuInv

(* A worker locks a queue, and tests which files are there.                  *)
LEMMA BeginPushStep ==
  ASSUME DuInv, NEW e \in Entries, NEW u \in Queues, BeginPush(e, u)
  PROVE  DuInv'
<1>1. DuTypes /\ VisitInv /\ HadInv /\ SumInv /\ RankInv
  BY DEF DuInv
<1>2. /\ stage[e] = u /\ lock' = [lock EXCEPT ![u] = {e}]
      /\ checked' \in [Queues -> SUBSET DuFiles]
      /\ UNCHANGED <<mode, wanted, size, task, todo, visiting, stage, sz, queue, stale, shown,
                     outcome, had, unread, changes>>
  BY <1>1 DEF BeginPush, DuTypes
<1>3. DuTypes'
  BY <1>1, <1>2 DEF DuTypes
<1>4. VisitInv'
  <2>1. \A r \in Queues : lock'[r] = IF r = u THEN {e} ELSE lock[r]
    BY <1>1, <1>2 DEF DuTypes
  <2> QED
    BY <1>1, <1>2, <2>1, SMTT(30) DEF VisitInv, Collected, FilesOf
<1>5. HadInv'
  BY <1>1, <1>2 DEF HadInv, Faulty, Exists
<1>6. SumInv' /\ RankInv'
  BY <1>1, <1>2, SumKept, RankKept
<1> QED
  BY <1>3, <1>4, <1>5, <1>6 DEF DuInv

(* With one more that a full queue weighs against the others it has the best *)
(* of what was pushed.                                                       *)
LEMMA PushKeepsTheBest ==
  ASSUME NEW u \in Queues, NEW P \in SUBSET DuFiles, NEW f \in DuFiles \ P,
         queue[u] \subseteq P, Cardinality(queue[u]) = Sets!Min({Capacity, Cardinality(P)}),
         \A h \in queue[u], g \in P \ queue[u] : ~Beats(u, g, h),
         \A h \in DuFiles : HasSize(h) /\ size[h] \in Nat,
         ~stale[u], wanted \in [Queues -> Int], Capacity # 0,
         NEW left \in AfterPush(u, f)
  PROVE  /\ left \subseteq P \cup {f}
         /\ Cardinality(left) = Sets!Min({Capacity, Cardinality(P \cup {f})})
         /\ \A h \in left, g \in (P \cup {f}) \ left : ~Beats(u, g, h)
<1>0. Capacity \in Nat
  BY CapacityIs
<1> DEFINE all == queue[u] \cup {f}
<1>1. /\ Cardinality(P) \in Nat /\ Cardinality(P \cup {f}) = Cardinality(P) + 1
      /\ Cardinality(queue[u]) \in Nat /\ Cardinality(all) = Cardinality(queue[u]) + 1
      /\ IsFiniteSet(all)
  <2>1. IsFiniteSet(P) /\ IsFiniteSet(queue[u])
    BY FileSets
  <2> QED
    BY <2>1, FileSets, FS_AddElement
<1> DEFINE r == Cardinality(P)
           c == Cardinality(queue[u])
           cap == Capacity
           room == Sets!Min({Capacity, Cardinality(P \cup {f})})
<1>2. /\ c = IF cap <= r THEN cap ELSE r
      /\ room = IF cap <= r + 1 THEN cap ELSE r + 1
      /\ cap \in Nat /\ r \in Nat /\ cap # 0
  <2>1. Sets!Min({cap, r}) = IF cap <= r THEN cap ELSE r
    BY <1>0, <1>1, MinOfTwo
  <2>2. Sets!Min({cap, r + 1}) = IF cap <= r + 1 THEN cap ELSE r + 1
    BY <1>0, <1>1, MinOfTwo
  <2> QED
    BY <1>0, <1>1, <2>1, <2>2, Zenon
<1> HIDE DEF r, c, cap, room
<1>3. CASE c < cap
  <2>1. left = all
    BY <1>3 DEF AfterPush, c, cap
  <2>2. c = r /\ room = c + 1
    BY <1>2, <1>3
  <2>3. queue[u] = P
    BY <2>2, FS_Subset, FileSets DEF c, r
  <2>4. Cardinality(left) = room
    BY <1>1, <2>1, <2>2, Zenon DEF c
  <2> QED
    BY <2>1, <2>3, <2>4 DEF room
<1>4. CASE ~(c < cap)
  <2>1. PICK g \in all : left = all \ {g} /\ \A h \in all : ~Beats(u, g, h)
    <3>1. Settled(u, all)
      BY DEF Settled, HasSize
    <3> QED
      BY <1>4, <3>1 DEF AfterPush, c, cap
  <2>2. c = cap /\ room = cap /\ c + 1 - 1 = c
    BY <1>2, <1>4
  <2>3. Cardinality(left) = Cardinality(all) - 1
    <3> HIDE DEF all
    <3> QED
      BY <1>1, <2>1, FS_RemoveElement
  <2>4. Cardinality(left) = room
    BY <1>1, <2>2, <2>3 DEF c
  <2>5. \A x, y, z \in DuFiles : ~Beats(u, x, y) /\ ~Beats(u, y, z) => ~Beats(u, x, z)
    BY DEF Beats, Smaller, Exists, HasSize
  <2>6. ASSUME NEW h \in left, NEW x \in (P \cup {f}) \ left PROVE ~Beats(u, x, h)
    <3>1. CASE x = g
      BY <2>1, <3>1
    <3>2. CASE x # g
      <4>1. x \in P \ queue[u]
        BY <2>1, <3>2
      <4>2. CASE h \in queue[u]
        BY <4>1, <4>2
      <4>3. CASE h = f
        <5>1. g \in queue[u]
          BY <2>1, <4>3
        <5> QED
          BY <2>1, <2>5, <4>1, <4>3, <5>1
      <4> QED
        BY <2>1, <4>2, <4>3
    <3> QED
      BY <3>1, <3>2
  <2> QED
    BY <2>1, <2>4, <2>6 DEF room
<1> QED
  BY <1>3, <1>4

(* It has pushed its file: the queue has the best of one file more.          *)
LEMMA EndPushStep ==
  ASSUME DuInv, NEW e \in Entries, NEW u \in Queues, EndPush(e, u),
         outcome \notin {"printed", "terminated", "undefined"}
  PROVE  DuInv'
<1>1. DuTypes /\ VisitInv /\ HadInv /\ SumInv /\ RankInv
  BY DEF DuInv
<1>2. lock[u] = {e} /\ stage[e] = u /\ u \in {"max", "min"} /\ e # Main
  <2>1. e # Main
    BY DuAssumption DEF Entries
  <2> QED
    BY <1>1, <2>1 DEF EndPush, VisitInv, Queues
<1>3. PICK f \in DuFiles : visiting[e] = {f}
  BY <1>1, <1>2 DEF VisitInv
<1>4. task[e] = "running" /\ mode = "rank" /\ DuEntry[f] = e /\ f \notin todo[e]
  BY <1>1, <1>2, <1>3 DEF VisitInv, FilesOf, DuTypes
<1>5. outcome = "running"
  <2>1. ~Collected
    BY <1>4 DEF Collected
  <2> QED
    BY <1>1, <2>1, Zenon DEF VisitInv
<1>6. /\ lock' = [lock EXCEPT ![u] = {}] /\ checked' = [checked EXCEPT ![u] = {}]
      /\ UNCHANGED <<mode, wanted, size, todo, sz, stale, shown, had, unread, changes>>
  BY DEF EndPush
<1>7. /\ lock' \in [Queues -> SUBSET (Entries \cup {Main})] /\ checked' \in [Queues -> SUBSET DuFiles]
      /\ lock'[u] = {} /\ \A r \in Queues : r # u => lock'[r] = lock[r]
  BY <1>1, <1>6 DEF DuTypes
<1>8. CASE outcome' = "undefined" /\ UNCHANGED <<task, queue, visiting, stage>>
  <2>1. DuTypes'
    BY <1>1, <1>6, <1>7, <1>8 DEF DuTypes
  <2>2. VisitInv'
    BY <1>1, <1>6, <1>7, <1>8, SMTT(30) DEF VisitInv, Collected, FilesOf
  <2>3. HadInv'
    BY <1>1, <1>6, <1>8 DEF HadInv, Faulty, Exists
  <2>4. SumInv' /\ RankInv'
    BY <1>1, <1>6, <1>8, SumKept, RankKept
  <2> QED
    BY <2>1, <2>2, <2>3, <2>4 DEF DuInv
<1> DEFINE lastStage == IF u = "max" THEN "min" ELSE "next"
<1>9. ASSUME NEW s \in {"next", "min"}, NEW v \in {{}, {f}}, NEW t \in {"running", "threw"},
             s = "next" <=> v = {}, t = "threw" => s = "next" /\ \E g \in DuFiles : ~HasSize(g),
             task' = [task EXCEPT ![e] = t], stage' = [stage EXCEPT ![e] = s],
             visiting' = [visiting EXCEPT ![e] = v], queue' \in [Queues -> SUBSET DuFiles],
             UNCHANGED outcome
      PROVE  DuTypes' /\ VisitInv' /\ HadInv' /\ SumInv'
  <2>1. /\ visiting'[e] = v /\ stage'[e] = s /\ task'[e] = t
        /\ \A d \in Entries : d # e => visiting'[d] = visiting[d] /\ stage'[d] = stage[d] /\ task'[d] = task[d]
    BY <1>1, <1>9 DEF DuTypes
  <2>2. DuTypes'
    <3>1. /\ task' \in [Entries -> {"queued", "running", "done", "threw"}]
          /\ stage' \in [Entries -> {"next", "valid"} \cup Queues]
          /\ visiting' \in [Entries -> SUBSET DuFiles]
      BY <1>1, <1>9 DEF DuTypes, Queues
    <3> QED
      BY <1>1, <1>6, <1>7, <1>9, <3>1 DEF DuTypes
  <2>3. VisitInv'
    <3>1. \A d \in Entries :
       /\ visiting'[d] \subseteq FilesOf(d) /\ todo[d] \subseteq FilesOf(d)
       /\ todo[d] \cap visiting'[d] = {}
       /\ stage'[d] = "next" => visiting'[d] = {}
       /\ stage'[d] # "next" => /\ \E h \in DuFiles : visiting'[d] = {h}
                                /\ task'[d] = "running"
                                /\ (stage'[d] = "valid") <=> (mode = "sum")
       /\ task'[d] = "done" => todo[d] = {}
      <4> TAKE d \in Entries
      <4>1. CASE d # e
        BY <1>1, <2>1, <4>1 DEF VisitInv
      <4>2. CASE d = e
        BY <1>1, <1>3, <1>4, <1>9, <2>1, <4>2 DEF VisitInv, FilesOf
      <4> QED
        BY <4>1, <4>2
    <3>2. \A r \in Queues : \/ lock'[r] = {} \/ lock'[r] = {Main}
                            \/ \E d \in Entries : lock'[r] = {d} /\ stage'[d] = r
      <4>1. \A d \in Entries, r \in Queues : r # u /\ stage[d] = r => d # e
        BY <1>2
      <4> QED
        BY <1>1, <1>7, <2>1, <4>1 DEF VisitInv
    <3> QED
      BY <1>5, <1>6, <1>9, <3>1, <3>2 DEF VisitInv, FilesOf
  <2>4. HadInv'
    <3>1. t = "threw" => Faulty
      BY <1>1, <1>9 DEF HadInv, HasSize, Faulty
    <3>2. \A d \in Entries : task'[d] = "threw" => Faulty
      BY <1>1, <2>1, <3>1 DEF HadInv
    <3>3. \A d \in Entries : task[d] = "threw" => task'[d] = "threw"
      BY <1>4, <2>1
    <3> QED
      BY <1>1, <1>6, <1>9, <3>2, <3>3 DEF HadInv, Faulty, Exists
  <2>5. SumInv'
    BY <1>4, <1>5, <1>6, <1>9 DEF SumInv, SumOfSizes
  <2> QED
    BY <2>2, <2>3, <2>4, <2>5
<1>10. CASE /\ MayThrow(u)
            /\ task' = [task EXCEPT ![e] = "threw"] /\ visiting' = [visiting EXCEPT ![e] = {}]
            /\ stage' = [stage EXCEPT ![e] = "next"] /\ queue' \in AfterThrow(e)
            /\ UNCHANGED outcome
  <2>1. (\E g \in DuFiles : ~HasSize(g)) /\ queue' \in [Queues -> SUBSET DuFiles]
    BY <1>1, <1>3, <1>10 DEF DuTypes, MayThrow, AfterThrow
  <2>2. DuTypes' /\ VisitInv' /\ HadInv' /\ SumInv'
    BY <1>9, <1>10, <2>1
  <2>3. ~Calm'
    BY <1>6, <2>1 DEF Calm, HasSize
  <2> QED
    BY <2>2, <2>3 DEF DuInv, RankInv
<1>11. CASE /\ Capacity # 0
            /\ \E left \in AfterPush(u, f) : queue' = [queue EXCEPT ![u] = left]
            /\ visiting' = IF u = "min" THEN [visiting EXCEPT ![e] = {}] ELSE visiting
            /\ stage' = [stage EXCEPT ![e] = IF u = "max" THEN "min" ELSE "next"]
            /\ UNCHANGED <<task, outcome>>
  <2>1. PICK left \in AfterPush(u, f) : queue' = [queue EXCEPT ![u] = left]
    BY <1>11
  <2>2. left \subseteq queue[u] \cup {f}
    BY DEF AfterPush
  <2>3. queue' \in [Queues -> SUBSET DuFiles]
    BY <1>1, <2>1, <2>2 DEF DuTypes
  <2>4. /\ task' = [task EXCEPT ![e] = "running"]
        /\ visiting' = [visiting EXCEPT ![e] = IF u = "min" THEN {} ELSE {f}]
    <3>1. task' = [task EXCEPT ![e] = "running"]
      <4>1. task = [d \in Entries |-> task[d]] /\ task' = task
        BY <1>1, <1>11 DEF DuTypes
      <4> QED
        BY <1>4, <4>1
    <3>2. visiting = [d \in Entries |-> visiting[d]]
      BY <1>1 DEF DuTypes
    <3>3. CASE u = "min"
      BY <1>11, <3>1, <3>3
    <3>4. CASE u # "min"
      BY <1>3, <1>11, <3>1, <3>2, <3>4
    <3> QED
      BY <3>3, <3>4
  <2>5. DuTypes' /\ VisitInv' /\ HadInv' /\ SumInv'
    BY <1>2, <1>9, <1>11, <2>3, <2>4
  <2>6. RankInv'
    <3> SUFFICES ASSUME Calm PROVE RankInv'
      BY <1>6 DEF RankInv, Calm, HasSize
    <3>1. \A h \in DuFiles : HasSize(h) /\ size[h] \in Nat
      BY <1>1, DuAssumption DEF Calm, HasSize, DuTypes
    <3>2. ~stale[u] /\ wanted \in [Queues -> Int]
      BY <1>1 DEF HadInv, DuTypes, Calm
    <3>3. /\ Capacity' = Capacity /\ \A r, h, g : Beats(r, h, g)' = Beats(r, h, g)
      BY <1>6, Zenon DEF Capacity, Beats, Smaller, Exists
    <3>4. \A h \in DuFiles, r \in Queues :
            h \in PushedTo(r)' <=> h \in PushedTo(r) \/ (r = u /\ h = f)
      <4> TAKE h \in DuFiles, r \in Queues
      <4>1. DuEntry[h] \in Entries
        BY DEF Entries
      <4>2. h # f => h \notin visiting[e] /\ h \notin visiting'[e]
        BY <1>1, <1>3, <2>4 DEF DuTypes
      <4>3. /\ visiting'[e] = IF u = "min" THEN {} ELSE {f}
            /\ stage'[e] = IF u = "max" THEN "min" ELSE "next"
            /\ \A d \in Entries : d # e => visiting'[d] = visiting[d] /\ stage'[d] = stage[d]
        BY <1>1, <1>11, <2>4 DEF DuTypes
      <4>4. CASE h = f
        BY <1>2, <1>3, <1>4, <1>6, <4>3, <4>4 DEF PushedTo, Queues
      <4>5. CASE h # f
        BY <1>6, <4>1, <4>2, <4>3, <4>5 DEF PushedTo
      <4> QED
        BY <4>4, <4>5
    <3>5. /\ \A r : PushedTo(r) \subseteq DuFiles /\ PushedTo(r)' \subseteq DuFiles
          /\ f \notin PushedTo(u)
      BY <1>2, <1>3, <1>4 DEF PushedTo
    <3>6. PushedTo(u)' = PushedTo(u) \cup {f} /\ \A r \in Queues : r # u => PushedTo(r)' = PushedTo(r)
      BY <3>4, <3>5
    <3>7. \A r \in Queues :
           /\ queue[r] \subseteq PushedTo(r)
           /\ Cardinality(queue[r]) = Sets!Min({Capacity, Cardinality(PushedTo(r))})
           /\ \A h \in queue[r], g \in PushedTo(r) \ queue[r] : ~Beats(r, g, h)
           /\ shown[r] = {}
      BY <1>1, <1>4, <1>5 DEF RankInv
    <3>8. /\ left \subseteq PushedTo(u) \cup {f}
          /\ Cardinality(left) = Sets!Min({Capacity, Cardinality(PushedTo(u) \cup {f})})
          /\ \A h \in left, g \in (PushedTo(u) \cup {f}) \ left : ~Beats(u, g, h)
      <4> DEFINE P == PushedTo(u)
      <4>1. /\ P \in SUBSET DuFiles /\ f \in DuFiles \ P /\ queue[u] \subseteq P
            /\ Cardinality(queue[u]) = Sets!Min({Capacity, Cardinality(P)})
            /\ \A h \in queue[u], g \in P \ queue[u] : ~Beats(u, g, h)
        BY <3>5, <3>7
      <4> HIDE DEF P
      <4>2. /\ left \subseteq P \cup {f}
            /\ Cardinality(left) = Sets!Min({Capacity, Cardinality(P \cup {f})})
            /\ \A h \in left, g \in (P \cup {f}) \ left : ~Beats(u, g, h)
        BY <1>11, <3>1, <3>2, <4>1, PushKeepsTheBest
      <4> QED
        BY <4>2 DEF P
    <3>9. \A r \in Queues :
           /\ queue'[r] \subseteq PushedTo(r)'
           /\ Cardinality(queue'[r]) = Sets!Min({Capacity, Cardinality(PushedTo(r)')})
           /\ \A h \in queue'[r], g \in PushedTo(r)' \ queue'[r] : ~Beats(r, g, h)
           /\ shown'[r] = {}
      <4> TAKE r \in Queues
      <4>1. CASE r = u
        <5>1. queue'[u] = left
          BY <1>1, <2>1 DEF DuTypes
        <5> QED
          BY <1>6, <3>6, <3>7, <3>8, <4>1, <5>1
      <4>2. CASE r # u
        <5>1. queue'[r] = queue[r]
          BY <1>1, <2>1, <4>2 DEF DuTypes
        <5> QED
          BY <1>6, <3>6, <3>7, <4>2, <5>1
      <4> QED
        BY <4>1, <4>2
    <3>10. outcome' = "running"
      BY <1>5, <1>11
    <3> QED
      BY <3>3, <3>9, <3>10 DEF RankInv, Queues
  <2> QED
    BY <2>5, <2>6 DEF DuInv
<1> QED
  <2>1. \E g \in visiting[e] :
         \/ outcome' = "undefined" /\ UNCHANGED <<task, queue, visiting, stage>>
         \/ /\ MayThrow(u)
            /\ task' = [task EXCEPT ![e] = "threw"] /\ visiting' = [visiting EXCEPT ![e] = {}]
            /\ stage' = [stage EXCEPT ![e] = "next"] /\ queue' \in AfterThrow(e)
            /\ UNCHANGED outcome
         \/ /\ Capacity # 0
            /\ \E left \in AfterPush(u, g) : queue' = [queue EXCEPT ![u] = left]
            /\ visiting' = IF u = "min" THEN [visiting EXCEPT ![e] = {}] ELSE visiting
            /\ stage' = [stage EXCEPT ![e] = IF u = "max" THEN "min" ELSE "next"]
            /\ UNCHANGED <<task, outcome>>
    BY Zenon DEF EndPush
  <2>2. \A g \in visiting[e] : g = f
    BY <1>3
  <2> QED
    BY <1>8, <1>10, <1>11, <2>1, <2>2, Zenon

(* Adding up what the tasks counted is adding up what the files counted.     *)
LEMMA SumOfSums ==
  ASSUME NEW g \in [DuFiles -> Nat], NEW s \in [Entries -> Nat],
         \A e \in Entries : s[e] = Cardinality(Units(g, FilesOf(e)))
  PROVE  Total(s, Entries) = Total(g, DuFiles)
<1> DEFINE FilesIn(T) == {f \in DuFiles : DuEntry[f] \in T}
           bad == {T \in SUBSET Entries : Cardinality(Units(s, T)) # Cardinality(Units(g, FilesIn(T)))}
<1>1. /\ \A R \in SUBSET DuFiles : IsFiniteSet(Units(g, R)) /\ Cardinality(Units(g, R)) \in Nat
      /\ \A R \in SUBSET Entries : IsFiniteSet(Units(s, R)) /\ Cardinality(Units(s, R)) \in Nat
  BY UnitsFinite, DuAssumption, EntriesFinite, FS_CardinalityType
<1>2. bad = {}
  <2> SUFFICES ASSUME bad # {} PROVE FALSE
    OBVIOUS
  <2>1. PICK T \in bad : \A x \in T : T \ {x} \notin bad
    BY EntriesFinite, SmallestSubset
  <2>2. Units(s, {}) = {} /\ Units(g, FilesIn({})) = {}
    BY DEF Units
  <2>3. PICK e \in T : TRUE
    BY <2>1, <2>2
  <2> DEFINE R == T \ {e}
  <2>4. e \in Entries /\ R \in SUBSET Entries /\ Cardinality(Units(s, R)) = Cardinality(Units(g, FilesIn(R)))
    BY <2>1, <2>3
  <2>5. Cardinality(Units(s, T)) = s[e] + Cardinality(Units(s, R))
    BY <1>1, <2>3, <2>4, UnitsGrow
  <2>6. /\ Units(g, FilesIn(T)) = Units(g, FilesIn(R)) \cup Units(g, FilesOf(e))
        /\ Units(g, FilesIn(R)) \cap Units(g, FilesOf(e)) = {}
    <3>1. FilesIn(T) = FilesIn(R) \cup FilesOf(e) /\ FilesIn(R) \cap FilesOf(e) = {}
      BY <2>3 DEF FilesOf
    <3> HIDE DEF FilesIn, R
    <3> QED
      BY <3>1 DEF Units
  <2>7. FilesIn(R) \in SUBSET DuFiles /\ FilesOf(e) \in SUBSET DuFiles
    BY DEF FilesOf
  <2> DEFINE A == Units(g, FilesIn(R))
             B == Units(g, FilesOf(e))
  <2>8. /\ IsFiniteSet(A) /\ IsFiniteSet(B) /\ Cardinality(A) \in Nat /\ Cardinality(B) \in Nat
    BY <1>1, <2>7
  <2>9. Units(g, FilesIn(T)) = A \cup B /\ A \cap B = {} /\ s[e] = Cardinality(B) /\ T \in bad
    BY <2>1, <2>4, <2>6
  <2> HIDE DEF A, B
  <2>10. Cardinality(A \cup B) = Cardinality(A) + Cardinality(B)
    <3>1. Cardinality(A \cup B) = Cardinality(A) + Cardinality(B) - Cardinality(A \cap B)
      BY <2>8, FS_Union
    <3>2. Cardinality(A \cap B) = 0
      BY <2>9, FS_EmptySet, Zenon
    <3> QED
      BY <2>8, <3>1, <3>2
  <2>11. Cardinality(Units(s, T)) = Cardinality(Units(g, FilesIn(T)))
    <3>1. Cardinality(Units(s, R)) = Cardinality(A) /\ Cardinality(Units(g, FilesIn(T))) = Cardinality(A \cup B)
      BY <2>4, <2>9, Zenon DEF A
    <3>2. Cardinality(Units(s, T)) = Cardinality(B) + Cardinality(A)
      BY <2>5, <2>9, <3>1, Zenon
    <3> QED
      BY <2>8, <2>10, <3>1, <3>2
  <2> QED
    BY <2>9, <2>11
<1>3. FilesIn(Entries) = DuFiles
  BY DEF Entries
<1>4. Cardinality(Units(s, Entries)) = Cardinality(Units(g, DuFiles))
  BY <1>2, <1>3
<1>5. Total(s, Entries) = Cardinality(Units(s, Entries)) /\ Total(g, DuFiles) = Cardinality(Units(g, DuFiles))
  BY EntriesFinite, DuAssumption, SumIsUnits
<1> QED
  BY <1>4, <1>5

(* main() collects the tasks: it has their sum, or dies of what one threw.   *)
LEMMA CollectStep ==
  ASSUME DuInv, Collect
  PROVE  DuInv'
<1>1. DuTypes /\ VisitInv /\ HadInv /\ SumInv /\ RankInv
  BY DEF DuInv
<1>2. /\ outcome = "running" /\ Collected
      /\ shown' = [shown EXCEPT !["sum"] = {Total(sz, Entries)}]
      /\ UNCHANGED <<mode, wanted, size, task, todo, visiting, stage, sz, queue, lock, stale,
                     checked, had, unread, changes>>
  BY DEF Collect
<1>3. /\ outcome' \in {"terminated", "printed", "max"}
      /\ outcome' = "terminated" => \E e \in Entries : task[e] = "threw"
      /\ outcome' # "terminated" => \A e \in Entries : task[e] # "threw"
      /\ outcome' = "printed" => mode = "sum"
      /\ outcome' = "max" => mode = "rank"
  <2>1. outcome' = IF \E e \in Entries : task[e] = "threw" THEN "terminated"
                   ELSE IF mode = "sum" THEN "printed" ELSE "max"
    BY DEF Collect
  <2>2. mode \in {"sum", "rank"}
    BY <1>1 DEF DuTypes
  <2> QED
    BY <2>1, <2>2
<1>4. outcome' # "terminated" => \A e \in Entries : task[e] = "done" /\ todo[e] = {} /\ visiting[e] = {}
  BY <1>1, <1>2, <1>3 DEF Collected, VisitInv
<1>5. /\ shown'["sum"] = {Total(sz, Entries)} /\ shown' = [x \in Queues \cup {"sum"} |-> shown'[x]]
      /\ \A u \in Queues : shown'[u] = shown[u]
  <2>1. shown = [x \in Queues \cup {"sum"} |-> shown[x]]
    BY <1>1 DEF DuTypes
  <2> QED
    BY <1>2, <2>1 DEF Queues
<1>6. DuTypes'
  BY <1>1, <1>2, <1>3, <1>5 DEF DuTypes
<1>7. VisitInv'
  BY <1>1, <1>2, <1>3, <1>4, SMTT(30) DEF VisitInv, Collected, FilesOf
<1>8. HadInv'
  BY <1>1, <1>2, <1>3 DEF HadInv, Faulty, Exists
<1>9. SumInv'
  <2>1. (mode = "sum" => \E g \in [DuFiles -> DuSizes \cup {0}] :
           /\ \A f \in DuFiles : IF f \in todo[DuEntry[f]] \cup visiting[DuEntry[f]] THEN g[f] = 0
                                 ELSE Threw(f) \/ g[f] \in had[f] \/ (g[f] = 0 /\ Gone \in had[f])
           /\ \A e \in Entries : sz[e] = Cardinality(Units(g, FilesOf(e))))
    BY <1>1 DEF SumInv
  <2>2. ASSUME mode = "sum", outcome' = "printed"
        PROVE  \E g \in [DuFiles -> DuSizes \cup {0}] :
                 /\ \A f \in DuFiles : g[f] \in had[f] \/ (g[f] = 0 /\ Gone \in had[f])
                 /\ shown'["sum"] = {Total(g, DuFiles)}
    <3>1. PICK g \in [DuFiles -> DuSizes \cup {0}] :
           /\ \A f \in DuFiles : IF f \in todo[DuEntry[f]] \cup visiting[DuEntry[f]] THEN g[f] = 0
                                 ELSE Threw(f) \/ g[f] \in had[f] \/ (g[f] = 0 /\ Gone \in had[f])
           /\ \A e \in Entries : sz[e] = Cardinality(Units(g, FilesOf(e)))
      BY <2>1, <2>2
    <3>2. \A f \in DuFiles : DuEntry[f] \in Entries
      BY DEF Entries
    <3>3. \A f \in DuFiles : g[f] \in had[f] \/ (g[f] = 0 /\ Gone \in had[f])
      BY <1>3, <1>4, <2>2, <3>1, <3>2 DEF Threw
    <3>4. g \in [DuFiles -> Nat] /\ sz \in [Entries -> Nat]
      <4>1. \A m \in DuSizes \cup {0} : m \in Nat
        BY DuAssumption
      <4> QED
        BY <1>1, <3>1, <4>1 DEF DuTypes
    <3>5. Total(sz, Entries) = Total(g, DuFiles)
      BY <3>1, <3>4, SumOfSums
    <3> QED
      BY <1>5, <3>1, <3>3, <3>5, Zenon
  <2>3. SumOfSizes'
    BY <1>2, <2>2, Zenon DEF SumOfSizes
  <2> QED
    BY <1>2, <2>1, <2>3 DEF SumInv, FilesOf, Threw
<1>10. RankInv'
  <2>1. /\ Capacity' = Capacity /\ \A u : PushedTo(u)' = PushedTo(u)
        /\ \A u, f, g : Beats(u, f, g)' = Beats(u, f, g)
    BY <1>2, Zenon DEF Capacity, PushedTo, Beats, Smaller, Exists
  <2> SUFFICES ASSUME mode = "rank", Calm, outcome' = "max" PROVE RankInv'
    BY <1>2, <1>3 DEF RankInv, Queues, Calm, HasSize
  <2>2. \A u \in Queues :
           /\ queue[u] \subseteq PushedTo(u)
           /\ Cardinality(queue[u]) = Sets!Min({Capacity, Cardinality(PushedTo(u))})
           /\ \A f \in queue[u], g \in PushedTo(u) \ queue[u] : ~Beats(u, g, f)
           /\ shown[u] = {}
    BY <1>1, <1>2 DEF RankInv
  <2> QED
    BY <1>2, <1>5, <2>1, <2>2 DEF RankInv
<1> QED
  BY <1>6, <1>7, <1>8, <1>9, <1>10 DEF DuInv

(* When main() pops, everything was pushed.                                  *)
LEMMA AllPushed ==
  ASSUME DuInv, outcome \in {"max", "min"}, NEW u \in Queues
  PROVE  PushedTo(u) = DuFiles
<1>1. \A e \in Entries : task[e] = "done"
  BY DEF DuInv, VisitInv
<1>2. \A e \in Entries : todo[e] = {} /\ visiting[e] = {}
  BY <1>1 DEF DuInv, VisitInv
<1>3. \A f \in DuFiles : DuEntry[f] \in Entries
  BY DEF Entries
<1> QED
  BY <1>2, <1>3 DEF PushedTo

(* What a queue has when it is popped.                                       *)
LEMMA PopFacts ==
  ASSUME DuInv, NEW u \in Queues, outcome = u
  PROVE  /\ mode = "rank" /\ u \in {"max", "min"} /\ outcome \in {"max", "min"}
         /\ AfterPop(u) = IF u = "max" THEN "min" ELSE "printed"
         /\ Collected /\ \A e \in Entries : task[e] = "done"
<1>1. u \in {"max", "min"}
  BY DEF Queues
<1>2. VisitInv
  BY DEF DuInv
<1> QED
  BY <1>1, <1>2, Zenon DEF VisitInv, AfterPop

(* A list that is right is right when main() goes on to the next.            *)
LEMMA NextList ==
  ASSUME DuInv, NEW u \in Queues, outcome = u, outcome' = AfterPop(u), NEW list,
         shown' = [shown EXCEPT ![u] = list],
         \A r \in Queues : r # u => queue'[r] = queue[r],
         Calm =>
           /\ Cardinality(list) = Sets!Min({Sets!Max({wanted[u], 0}), Cardinality(DuFiles)})
           /\ \A f \in list, g \in DuFiles \ list : ~Beats(u, g, f),
         UNCHANGED <<mode, wanted, size, task, todo, visiting, stage, sz, had, unread, changes>>
  PROVE  SumInv' /\ RankInv'
<1>1. DuTypes /\ SumInv /\ RankInv
  BY DEF DuInv
<1>2. mode = "rank" /\ u \in {"max", "min"} /\ outcome' = IF u = "max" THEN "min" ELSE "printed"
  BY PopFacts
<1>3. shown'[u] = list /\ \A r \in Queues : r # u => shown'[r] = shown[r]
  <2>1. shown = [x \in Queues \cup {"sum"} |-> shown[x]]
    BY <1>1 DEF DuTypes
  <2> QED
    BY <2>1 DEF Queues
<1>4. SumInv'
  BY <1>2 DEF SumInv, SumOfSizes
<1>5. RankInv'
  <2>1. /\ Capacity' = Capacity /\ \A r : PushedTo(r)' = PushedTo(r)
        /\ \A r, f, g : Beats(r, f, g)' = Beats(r, f, g)
    BY Zenon DEF Capacity, PushedTo, Beats, Smaller, Exists
  <2> SUFFICES ASSUME Calm, NEW r \in Queues
               PROVE  /\ outcome' = "running" \/ outcome' = r \/ (r = "min" /\ outcome' = "max") =>
                           /\ queue'[r] \subseteq PushedTo(r)
                           /\ Cardinality(queue'[r]) = Sets!Min({Capacity, Cardinality(PushedTo(r))})
                           /\ \A f \in queue'[r], g \in PushedTo(r) \ queue'[r] : ~Beats(r, g, f)
                           /\ shown'[r] = {}
                      /\ outcome' = "printed" \/ (r = "max" /\ outcome' = "min") =>
                           /\ Cardinality(shown'[r]) =
                                Sets!Min({Sets!Max({wanted[r], 0}), Cardinality(DuFiles)})
                           /\ \A f \in shown'[r], g \in DuFiles \ shown'[r] : ~Beats(r, g, f)
    BY <2>1 DEF RankInv, Calm, HasSize
  <2>2. CASE r = u
    BY <1>2, <1>3, <2>2
  <2>3. CASE r # u /\ u = "max"
    <3>1. r = "min" /\ outcome' = "min" /\ outcome = "max"
      BY <1>2, <2>3 DEF Queues
    <3>2. queue'[r] = queue[r] /\ shown'[r] = shown[r]
      BY <1>3, <2>3
    <3> QED
      BY <1>1, <1>2, <3>1, <3>2 DEF RankInv
  <2>4. CASE r # u /\ u = "min"
    <3>1. r = "max" /\ outcome' = "printed" /\ outcome = "min"
      BY <1>2, <2>4 DEF Queues
    <3>2. shown'[r] = shown[r]
      BY <1>3, <2>4
    <3> QED
      BY <1>1, <1>2, <3>1, <3>2 DEF RankInv
  <2> QED
    BY <1>2, <2>2, <2>3, <2>4
<1> QED
  BY <1>4, <1>5

(* main() takes the lock of a queue, if its list is wanted.                  *)
LEMMA BeginPopStep ==
  ASSUME DuInv, NEW u \in Queues, BeginPop(u)
  PROVE  DuInv'
<1>1. DuTypes /\ VisitInv /\ HadInv /\ SumInv /\ RankInv
  BY DEF DuInv
<1>2. /\ outcome = u
      /\ UNCHANGED <<mode, wanted, size, task, todo, visiting, stage, sz, queue, stale, shown,
                     had, unread, changes>>
  BY DEF BeginPop
<1>3. /\ mode = "rank" /\ u \in {"max", "min"}
      /\ AfterPop(u) = IF u = "max" THEN "min" ELSE "printed"
      /\ Collected /\ \A e \in Entries : task[e] = "done"
  BY <1>2, PopFacts
<1>4. CASE wanted[u] <= 0 /\ outcome' = AfterPop(u) /\ UNCHANGED <<lock, checked>>
  <2>1. DuTypes'
    BY <1>1, <1>2, <1>3, <1>4 DEF DuTypes
  <2>2. VisitInv'
    BY <1>1, <1>2, <1>3, <1>4, SMTT(30) DEF VisitInv, Collected, FilesOf
  <2>3. HadInv'
    BY <1>1, <1>2, <1>3, <1>4 DEF HadInv, Faulty, Exists
  <2>4. shown' = [shown EXCEPT ![u] = {}] \/ ~Calm
    <3>1. Calm => shown[u] = {}
      BY <1>1, <1>2, <1>3 DEF RankInv
    <3>2. shown = [x \in Queues \cup {"sum"} |-> shown[x]]
      BY <1>1 DEF DuTypes
    <3> QED
      BY <1>2, <3>1, <3>2
  <2>5. Cardinality({}) = Sets!Min({Sets!Max({wanted[u], 0}), Cardinality(DuFiles)})
    <3>1. wanted[u] \in Int /\ Cardinality(DuFiles) \in Nat /\ Cardinality({}) = 0
      BY <1>1, FileSets DEF DuTypes
    <3>2. Sets!Max({wanted[u], 0}) = 0
      BY <1>4, <3>1, MaxOfTwo
    <3>3. Sets!Min({0, Cardinality(DuFiles)}) = 0
      BY <3>1, MinOfTwo
    <3> QED
      BY <3>1, <3>2, <3>3
  <2>6. SumInv' /\ RankInv'
    <3>1. CASE Calm
      <4>1. shown' = [shown EXCEPT ![u] = {}]
        BY <2>4, <3>1
      <4> QED
        BY <1>2, <1>4, <2>5, <4>1, NextList
    <3>2. CASE ~Calm
      BY <1>2, <1>3, <3>2 DEF RankInv, SumInv, SumOfSizes, Calm, HasSize
    <3> QED
      BY <3>1, <3>2
  <2> QED
    BY <2>1, <2>2, <2>3, <2>6 DEF DuInv
<1>5. CASE /\ lock' = [lock EXCEPT ![u] = {Main}]
           /\ checked' = [checked EXCEPT ![u] = {f \in queue[u] : Exists(f)}]
           /\ UNCHANGED outcome
  <2>1. DuTypes'
    <3>1. checked' \in [Queues -> SUBSET DuFiles] /\ lock' \in [Queues -> SUBSET (Entries \cup {Main})]
      BY <1>1, <1>5 DEF DuTypes
    <3> QED
      BY <1>1, <1>2, <1>5, <3>1 DEF DuTypes
  <2>2. VisitInv'
    <3>1. \A r \in Queues : lock'[r] = IF r = u THEN {Main} ELSE lock[r]
      BY <1>1, <1>5 DEF DuTypes
    <3> QED
      BY <1>1, <1>2, <1>3, <1>5, <3>1, SMTT(30) DEF VisitInv, Collected, FilesOf
  <2>3. HadInv'
    BY <1>1, <1>2, <1>3, <1>5 DEF HadInv, Faulty, Exists
  <2>4. SumInv' /\ RankInv'
    BY <1>1, <1>2, <1>5, SumKept, RankKept
  <2> QED
    BY <2>1, <2>2, <2>3, <2>4 DEF DuInv
<1> QED
  BY <1>4, <1>5, Zenon DEF BeginPop

(* The best of the best.                                                     *)
LEMMA BestOfQueue ==
  ASSUME DuInv, NEW u \in Queues, outcome = u, Calm,
         NEW list \in SUBSET queue[u],
         Cardinality(list) = Sets!Min({wanted[u], Cardinality(queue[u])}),
         \A f \in list, g \in queue[u] \ list : ~Beats(u, g, f)
  PROVE  /\ Cardinality(list) = Sets!Min({Sets!Max({wanted[u], 0}), Cardinality(DuFiles)})
         /\ \A f \in list, g \in DuFiles \ list : ~Beats(u, g, f)
<1>1. DuTypes /\ RankInv /\ mode = "rank" /\ u \in {"max", "min"} /\ PushedTo(u) = DuFiles
  BY PopFacts, AllPushed DEF DuInv
<1>2. /\ queue[u] \subseteq DuFiles
      /\ Cardinality(queue[u]) = Sets!Min({Capacity, Cardinality(DuFiles)})
      /\ \A f \in queue[u], g \in DuFiles \ queue[u] : ~Beats(u, g, f)
  BY <1>1 DEF RankInv
<1> DEFINE w == wanted[u]
           c == Cardinality(queue[u])
           n == Cardinality(DuFiles)
           most == Sets!Max({wanted[u], 0})
<1>3. /\ w \in Int /\ c \in Nat /\ n \in Nat /\ Cardinality(list) \in Nat /\ Capacity \in Nat
      /\ w > 0 => w <= Capacity
  BY <1>1, <1>2, FileSets, CapacityIs DEF DuTypes
<1>4. most = IF w >= 0 THEN w ELSE 0
  BY <1>3, MaxOfTwo
<1>5. c = IF Capacity <= n THEN Capacity ELSE n
  BY <1>2, <1>3, MinOfTwo
<1>6. Cardinality(list) = IF w <= c THEN w ELSE c
  BY <1>3, MinOfTwo
<1>7. Sets!Min({most, n}) = IF most <= n THEN most ELSE n
  <2>1. most \in Int
    BY <1>3, <1>4
  <2> HIDE DEF most
  <2> QED
    BY <1>3, <2>1, MinOfTwo
<1>8. Cardinality(list) = Sets!Min({most, n})
  <2> HIDE DEF w, c, n, most
  <2> QED
    BY <1>3, <1>4, <1>5, <1>6, <1>7
<1>9. \A f \in list, g \in DuFiles \ list : ~Beats(u, g, f)
  BY <1>2
<1> QED
  BY <1>8, <1>9

(* It prints what it drained from the queue.                                 *)
LEMMA EndPopStep ==
  ASSUME DuInv, NEW u \in Queues, EndPop(u)
  PROVE  DuInv'
<1>1. DuTypes /\ VisitInv /\ HadInv /\ SumInv /\ RankInv
  BY DEF DuInv
<1>2. /\ outcome = u /\ lock' = [lock EXCEPT ![u] = {}] /\ checked' = [checked EXCEPT ![u] = {}]
      /\ UNCHANGED <<mode, wanted, size, task, todo, visiting, stage, sz, stale, had, unread, changes>>
  BY DEF EndPop
<1>3. /\ mode = "rank" /\ u \in {"max", "min"}
      /\ AfterPop(u) = IF u = "max" THEN "min" ELSE "printed"
      /\ Collected /\ \A e \in Entries : task[e] = "done"
  BY <1>2, PopFacts
<1>4. /\ checked' \in [Queues -> SUBSET DuFiles] /\ lock' \in [Queues -> SUBSET (Entries \cup {Main})]
      /\ \A r \in Queues : lock'[r] = IF r = u THEN {} ELSE lock[r]
  BY <1>1, <1>2 DEF DuTypes
<1>5. ASSUME outcome' \in {"min", "printed", "terminated"}
      PROVE  VisitInv'
  BY <1>1, <1>2, <1>3, <1>4, <1>5, SMTT(30) DEF VisitInv, Collected, FilesOf
<1>6. CASE /\ MayThrow(u)
           /\ outcome' = "terminated"
           /\ UNCHANGED <<shown, queue>>
  <2>1. \E g \in DuFiles : ~HasSize(g)
    BY <1>1, <1>6 DEF DuTypes, MayThrow
  <2>2. DuTypes' /\ VisitInv'
    BY <1>1, <1>2, <1>4, <1>5, <1>6 DEF DuTypes
  <2>3. HadInv'
    <3>1. Faulty
      BY <1>1, <2>1 DEF HadInv, HasSize, Faulty
    <3> QED
      BY <1>1, <1>2, <1>3, <1>6, <3>1 DEF HadInv, Faulty, Exists
  <2>4. SumInv' /\ RankInv'
    BY <1>1, <1>2, <1>3, <1>6, <2>1 DEF SumInv, SumOfSizes, RankInv, Calm, HasSize
  <2> QED
    BY <2>2, <2>3, <2>4 DEF DuInv
<1>7. ASSUME NEW list \in SUBSET queue[u],
             Cardinality(list) = Sets!Min({wanted[u], Cardinality(queue[u])}),
             Settled(u, queue[u]) => \A f \in list, g \in queue[u] \ list : ~Beats(u, g, f),
             shown' = [shown EXCEPT ![u] = list], queue' = [queue EXCEPT ![u] = {}],
             outcome' = AfterPop(u)
      PROVE  DuInv'
  <2>1. /\ queue' \in [Queues -> SUBSET DuFiles] /\ \A r \in Queues : r # u => queue'[r] = queue[r]
    BY <1>1, <1>7 DEF DuTypes
  <2>2. shown' = [x \in Queues \cup {"sum"} |-> shown'[x]]
    <3>1. shown = [x \in Queues \cup {"sum"} |-> shown[x]]
      BY <1>1 DEF DuTypes
    <3> QED
      BY <1>7, <3>1
  <2>3. DuTypes' /\ VisitInv'
    BY <1>1, <1>2, <1>3, <1>4, <1>5, <1>7, <2>1, <2>2 DEF DuTypes
  <2>4. HadInv'
    BY <1>1, <1>2, <1>3, <1>7 DEF HadInv, Faulty, Exists
  <2>5. Calm =>
           /\ Cardinality(list) = Sets!Min({Sets!Max({wanted[u], 0}), Cardinality(DuFiles)})
           /\ \A f \in list, g \in DuFiles \ list : ~Beats(u, g, f)
    <3> SUFFICES ASSUME Calm
                 PROVE  /\ Cardinality(list) = Sets!Min({Sets!Max({wanted[u], 0}), Cardinality(DuFiles)})
                        /\ \A f \in list, g \in DuFiles \ list : ~Beats(u, g, f)
      OBVIOUS
    <3>1. Settled(u, queue[u])
      BY <1>1 DEF HadInv, Settled, Calm, HasSize, DuTypes
    <3> QED
      BY <1>2, <1>7, <3>1, BestOfQueue
  <2>6. SumInv' /\ RankInv'
    BY <1>2, <1>7, <2>1, <2>5, NextList
  <2> QED
    BY <2>3, <2>4, <2>6 DEF DuInv
<1> QED
  BY <1>6, <1>7, Zenon DEF EndPop

(* A task that may not read what it asks about throws, wherever it is.       *)
LEMMA AccessStep ==
  ASSUME DuInv, NEW e \in Entries, AccessFails(e)
  PROVE  DuInv'
<1>1. DuTypes /\ VisitInv /\ HadInv /\ SumInv /\ MaxChanges \in Nat
  BY DuAssumption DEF DuInv
<1>2. /\ task[e] = "running" /\ changes' = changes + 1 /\ unread' = unread \cup {e}
      /\ task' = [task EXCEPT ![e] = "threw"] /\ visiting' = [visiting EXCEPT ![e] = {}]
      /\ stage' = [stage EXCEPT ![e] = "next"] /\ lock' = [u \in Queues |-> lock[u] \ {e}]
      /\ queue' \in AfterThrow(e)
      /\ UNCHANGED <<mode, wanted, size, todo, sz, stale, checked, shown, outcome, had>>
  BY DEF AccessFails
<1>3. /\ visiting'[e] = {} /\ stage'[e] = "next" /\ task'[e] = "threw"
      /\ \A d \in Entries : d # e => visiting'[d] = visiting[d] /\ stage'[d] = stage[d] /\ task'[d] = task[d]
      /\ changes' \in Nat /\ changes' # 0 /\ Faulty'
      /\ \A u \in Queues : lock'[u] = lock[u] \ {e}
  BY <1>1, <1>2 DEF DuTypes, Faulty
<1>4. DuTypes'
  <2>1. queue' \in [Queues -> SUBSET DuFiles]
    BY <1>1, <1>2 DEF DuTypes, AfterThrow
  <2>2. /\ task' \in [Entries -> {"queued", "running", "done", "threw"}]
        /\ visiting' \in [Entries -> SUBSET DuFiles]
        /\ stage' \in [Entries -> {"next", "valid"} \cup Queues]
        /\ lock' \in [Queues -> SUBSET (Entries \cup {Main})]
    BY <1>1, <1>2 DEF DuTypes
  <2> QED
    BY <1>1, <1>2, <1>3, <2>1, <2>2 DEF DuTypes
<1>5. outcome \in {"running", "undefined", "terminated"}
  <2>1. ~Collected
    BY <1>2 DEF Collected
  <2> QED
    BY <1>1, <2>1, Zenon DEF VisitInv
<1>6. VisitInv'
  <2>1. \A d \in Entries :
       /\ visiting'[d] \subseteq FilesOf(d) /\ todo[d] \subseteq FilesOf(d)
       /\ todo[d] \cap visiting'[d] = {}
       /\ stage'[d] = "next" => visiting'[d] = {}
       /\ stage'[d] # "next" => /\ \E h \in DuFiles : visiting'[d] = {h}
                                /\ task'[d] = "running"
                                /\ (stage'[d] = "valid") <=> (mode = "sum")
       /\ task'[d] = "done" => todo[d] = {}
    <3> TAKE d \in Entries
    <3>1. CASE d # e
      BY <1>1, <1>3, <3>1 DEF VisitInv
    <3>2. CASE d = e
      BY <1>1, <1>3, <3>2 DEF VisitInv
    <3> QED
      BY <3>1, <3>2
  <2>2. \A u \in Queues : \/ lock'[u] = {} \/ lock'[u] = {Main}
                          \/ \E d \in Entries : lock'[u] = {d} /\ stage'[d] = u
    <3> TAKE u \in Queues
    <3>1. e # Main
      BY DuAssumption DEF Entries
    <3>2. \/ lock[u] = {} \/ lock[u] = {Main} \/ lock[u] = {e}
          \/ \E d \in Entries : d # e /\ lock[u] = {d} /\ stage[d] = u
      BY <1>1 DEF VisitInv
    <3> QED
      BY <1>3, <3>1, <3>2
  <2> QED
    BY <1>2, <1>5, <2>1, <2>2 DEF VisitInv, FilesOf
<1>7. HadInv'
  <2>1. \E d \in Entries : task'[d] = "threw"
    BY <1>3
  <2> QED
    BY <1>1, <1>2, <1>3, <2>1 DEF HadInv
<1>8. SumInv'
  <2>1. \A f \in DuFiles : DuEntry[f] \in Entries
    BY DEF Entries
  <2>2. SumOfSizes'
    BY <1>1, <1>2 DEF SumInv, SumOfSizes
  <2>3. ASSUME mode = "sum"
        PROVE  \E g \in [DuFiles -> DuSizes \cup {0}] :
          /\ \A h \in DuFiles : IF h \in todo[DuEntry[h]] \cup visiting'[DuEntry[h]] THEN g[h] = 0
                             ELSE Threw(h)' \/ g[h] \in had[h] \/ (g[h] = 0 /\ Gone \in had[h])
          /\ \A d \in Entries : sz[d] = Cardinality(Units(g, FilesOf(d)))
    <3>1. PICK g \in [DuFiles -> DuSizes \cup {0}] :
          /\ \A h \in DuFiles : IF h \in todo[DuEntry[h]] \cup visiting[DuEntry[h]] THEN g[h] = 0
                             ELSE Threw(h) \/ g[h] \in had[h] \/ (g[h] = 0 /\ Gone \in had[h])
          /\ \A d \in Entries : sz[d] = Cardinality(Units(g, FilesOf(d)))
      BY <1>1, <2>3 DEF SumInv
    <3>2. \A h \in DuFiles : IF h \in todo[DuEntry[h]] \cup visiting'[DuEntry[h]] THEN g[h] = 0
                             ELSE Threw(h)' \/ g[h] \in had[h] \/ (g[h] = 0 /\ Gone \in had[h])
      <4> TAKE h \in DuFiles
      <4>1. CASE DuEntry[h] = e
        BY <1>3, <3>1, <4>1 DEF Threw
      <4>2. CASE DuEntry[h] # e
        BY <1>3, <2>1, <3>1, <4>2 DEF Threw
      <4> QED
        BY <4>1, <4>2
    <3> QED
      BY <3>1, <3>2, Zenon
  <2> QED
    BY <1>2, <2>2, <2>3 DEF SumInv, FilesOf
<1>9. RankInv'
  BY <1>3 DEF RankInv, Calm
<1> QED
  BY <1>4, <1>6, <1>7, <1>8, <1>9 DEF DuInv

(* What main() may not read ends the program.                                *)
LEMMA ListingStep ==
  ASSUME DuInv, ListingFails
  PROVE  DuInv'
<1>1. DuTypes /\ VisitInv /\ HadInv /\ SumInv /\ MaxChanges \in Nat
  BY DuAssumption DEF DuInv
<1>2. /\ outcome' = "terminated" /\ changes' = changes + 1 /\ unread' = unread \cup {Main}
      /\ UNCHANGED <<mode, wanted, size, task, todo, visiting, stage, sz, queue, lock, stale,
                     checked, shown, had>>
  BY DEF ListingFails
<1>3. changes' \in Nat /\ changes' # 0 /\ Faulty'
  BY <1>1, <1>2 DEF DuTypes, Faulty
<1>4. DuTypes'
  BY <1>1, <1>2, <1>3 DEF DuTypes
<1>5. VisitInv'
  BY <1>1, <1>2, SMTT(30) DEF VisitInv, FilesOf
<1>6. HadInv'
  BY <1>1, <1>2, <1>3 DEF HadInv, Exists
<1>7. SumInv'
  BY <1>1, <1>2, SumKept
<1>8. RankInv'
  BY <1>3 DEF RankInv, Calm
<1> QED
  BY <1>4, <1>5, <1>6, <1>7, <1>8 DEF DuInv

(* Every step of ducpp keeps the invariant.                                  *)
LEMMA DuStep == DuInv /\ (DuNext \/ UNCHANGED duVars) => DuInv'
<1> SUFFICES ASSUME DuInv, DuNext \/ UNCHANGED duVars PROVE DuInv'
  OBVIOUS
<1>1. CASE UNCHANGED duVars
  <2>1. DuTypes /\ VisitInv /\ HadInv /\ SumInv /\ RankInv
    BY DEF DuInv
  <2>2. DuTypes'
    BY <1>1, <2>1 DEF DuTypes, duVars
  <2>3. VisitInv'
    BY <1>1, <2>1, Zenon DEF VisitInv, duVars, Collected, FilesOf
  <2>4. HadInv'
    BY <1>1, <2>1 DEF HadInv, duVars, Faulty, Exists
  <2>5. SumInv' /\ RankInv'
    BY <1>1, <2>1, SumKept, RankKept DEF duVars
  <2> QED
    BY <2>2, <2>3, <2>4, <2>5 DEF DuInv
<1>2. CASE DuNext
  <2>1. outcome \notin {"printed", "terminated", "undefined"}
    BY <1>2 DEF DuNext
  <2>2. CASE \E f \in DuFiles : Change(f)
    BY <2>2, ChangeStep
  <2>3. ASSUME NEW e \in Entries,
               StartTask(e) \/ AccessFails(e) \/ AddSize(e) \/ EndTask(e) \/ (\E f \in DuFiles : Visit(e, f))
                 \/ (\E u \in Queues : BeginPush(e, u) \/ EndPush(e, u))
        PROVE  DuInv'
    <3>1. outcome = "running" \/ ~Collected \/ ~(StartTask(e) \/ EndTask(e))
      <4>1. StartTask(e) \/ EndTask(e) => task[e] \in {"queued", "running"}
        BY DEF StartTask, EndTask
      <4> QED
        BY <4>1 DEF Collected
    <3> QED
      BY <2>1, <2>3, <3>1, StartEndStep, AccessStep, AddSizeStep, VisitStep, BeginPushStep, EndPushStep
  <2>4. CASE ListingFails \/ Collect
    BY <2>4, ListingStep, CollectStep
  <2>5. CASE \E u \in Queues : BeginPop(u) \/ EndPop(u)
    BY <2>5, BeginPopStep, EndPopStep
  <2> QED
    BY <1>2, <2>2, <2>3, <2>4, <2>5, Zenon DEF DuNext
<1> QED
  BY <1>1, <1>2

(* With the invariant the lists and the sum are what they should be.         *)
LEMMA DucppIs == DuInv => DucppCorrect
<1> SUFFICES ASSUME DuInv PROVE DucppCorrect
  OBVIOUS
<1>1. DuTypes /\ VisitInv /\ HadInv /\ SumInv /\ RankInv
  BY DEF DuInv
<1>2. DuTypeOK
  <2>1. \A e \in Entries : /\ visiting[e] \subseteq {f \in DuFiles : DuEntry[f] = e}
                           /\ Cardinality(visiting[e]) <= 1
    <3> TAKE e \in Entries
    <3>1. visiting[e] = {} \/ \E f : visiting[e] = {f}
      BY <1>1 DEF VisitInv
    <3>2. Cardinality(visiting[e]) = 0 \/ Cardinality(visiting[e]) = 1
      <4>1. Cardinality({}) = 0 /\ \A y : Cardinality({y}) = 1
        BY FS_EmptySet, FS_Singleton
      <4> QED
        BY <3>1, <4>1, Zenon
    <3> QED
      BY <1>1, <3>2, SMTT(30) DEF VisitInv, FilesOf
  <2>2. \A u \in Queues : Cardinality(lock[u]) <= 1 /\ checked[u] \subseteq DuFiles
    <3> TAKE u \in Queues
    <3>1. lock[u] = {} \/ \E e : lock[u] = {e}
      BY <1>1 DEF VisitInv
    <3>2. Cardinality(lock[u]) = 0 \/ Cardinality(lock[u]) = 1
      <4>1. Cardinality({}) = 0 /\ \A y : Cardinality({y}) = 1
        BY FS_EmptySet, FS_Singleton
      <4> QED
        BY <3>1, <4>1, Zenon
    <3> QED
      BY <1>1, <3>2, SMTT(30) DEF DuTypes
  <2> QED
    BY <1>1, <2>1, <2>2 DEF DuTypes, DuTypeOK
<1>3. RanksTheBest
  BY <1>1 DEF RankInv, RanksTheBest, Calm
<1>4. DiesOnlyOfFaults
  BY <1>1 DEF HadInv, VisitInv, DiesOnlyOfFaults
<1> QED
  BY <1>1, <1>2, <1>3, <1>4 DEF SumInv, DucppCorrect

(* Whatever the files become meanwhile, ducpp sums up sizes that they had,   *)
(* dies only of one that vanished or has no size or of what it may not read, *)
(* and lists the best if they are left alone.                                *)
THEOREM DucppHolds == DuSpec => []DucppCorrect
<1>1. DuInv /\ [DuNext]_duVars => DuInv'
  BY DuStep, Zenon
<1> QED
  BY <1>1, DucppIs, DuInitInv, PTL DEF DuSpec

-----------------------------------------------------------------------------
(* The argument parser: every token once.                                   *)

\* What stands behind the arguments of the front, and whether it is the value of a string.
Rest == SubSeq(args, Len(front) + 1, Len(args))
IsValue ==
  LET is[k \in 1 .. Len(Rest)] == k > 1 /\ Rest[k - 1] = "str" /\ ~is[k - 1]
  IN is
ReadsAs(o, k) == Rest[k] = o /\ ~IsValue[k]
ListWord(k) ==
  /\ ~IsValue[k]
  /\ \E l \in 1 .. Len(Rest) :
        l < k /\ ReadsAs("list", l) /\ \A j \in 1 .. Len(Rest) : l < j /\ j <= k => Rest[j] \notin Options
Words(n) == {k \in 1 .. n : ListWord(k)}

\* How much of it was read, up to what was unexpected.
Done == (IF back = <<>> THEN next - 1 ELSE Len(args) - Len(back)) - Len(front)

ArgTypes ==
  /\ argv \in Seq(Seq(STRING)) /\ args \in Seq(STRING) /\ next \in 1 .. Len(args) + 1
  /\ front \in Seq(STRING) /\ back \in Seq(STRING) /\ optValue \in [Options -> Seq(STRING)]
  /\ has \in [Options -> BOOLEAN] /\ parse \in {"begin", "front", "middle", "over", "threw"}
  /\ \A o \in Options \ {"list"} : Len(optValue[o]) <= 1

FrontInv ==
  /\ Len(front) < next /\ front = SubSeq(args, 1, Len(front))
  /\ \A k \in 1 .. Len(front) : args[k] \notin Options
  /\ parse = "begin" => args = <<>>
  /\ parse \in {"begin", "front", "threw"} =>
       /\ next = Len(front) + 1 /\ back = <<>>
       /\ optValue = [o \in Options |-> <<>>] /\ has = [o \in Options |-> FALSE]
  /\ parse \in {"middle", "over"} /\ Len(front) < Len(args) => args[Len(front) + 1] \in Options
  /\ parse = "over" => next = Len(args) + 1

BackInv ==
  back # <<>> => /\ next = Len(args) + 1 /\ Len(front) + Len(back) <= Len(args)
                 /\ back = SubSeq(args, Len(args) - Len(back) + 1, Len(args))
                 /\ back[1] \notin Options

\* What the options have after n of the tokens.
OptionsAfter(n) ==
  /\ has["bool"] <=> \E k \in 1 .. n : ReadsAs("bool", k)
  /\ has["int"] <=> \E k \in 1 .. n : k < n /\ ReadsAs("int", k) /\ Rest[k + 1] = Number
  /\ has["str"] <=> \E k \in 1 .. n : k < n /\ ReadsAs("str", k)
  /\ \A k \in 1 .. n : k < n /\ ReadsAs("str", k) =>
       \/ optValue["str"] = <<Rest[k + 1]>>
       \/ \E l \in 1 .. n : k < l /\ l < n /\ ReadsAs("str", l)

ListAfter(n) ==
  /\ has["list"] <=> \E k \in 1 .. n : ListWord(k)
  /\ Len(optValue["list"]) = Cardinality(Words(n))
  /\ \A k \in 1 .. n : ListWord(k) => optValue["list"][Cardinality(Words(k))] = Rest[k]

MiddleInv ==
  parse \in {"middle", "over"} =>
  /\ Done < Len(Rest) => ~IsValue[Done + 1]
  /\ OptionsAfter(Done) /\ ListAfter(Done)
  /\ \A k \in 1 .. Done : Rest[k] \in Options \/ ListWord(k) \/ IsValue[k]
                            \/ (Rest[k] = Number /\ k > 1 /\ ReadsAs("int", k - 1))

ArgInv == ArgTypes /\ FrontInv /\ BackInv /\ MiddleInv

(* Every second of the words that could be values is one.                    *)
LEMMA Alternates ==
  ASSUME NEW n \in Nat, NEW s
  PROVE  \E is : is = [k \in 1 .. n |-> k > 1 /\ s[k - 1] = "str" /\ ~is[k - 1]]
<1> DEFINE Solves(m, is) == is = [k \in 1 .. m |-> k > 1 /\ s[k - 1] = "str" /\ ~is[k - 1]]
           bad == {m \in Nat : ~ \E is : Solves(m, is)}
<1>0. SUFFICES \E is : Solves(n, is)
  OBVIOUS
<1>1. \E is : Solves(0, is)
  <2>1. Solves(0, [k \in 1 .. 0 |-> TRUE])
    OBVIOUS
  <2> QED
    BY <2>1
<1>2. ASSUME NEW m \in Nat, NEW is, Solves(m, is)
      PROVE  \E new : Solves(m + 1, new)
  <2> DEFINE new == [k \in 1 .. m + 1 |->
                       IF k <= m THEN is[k] ELSE k > 1 /\ s[k - 1] = "str" /\ ~is[k - 1]]
  <2>1. \A k \in 1 .. m : is[k] = (k > 1 /\ s[k - 1] = "str" /\ ~is[k - 1])
    BY <1>2
  <2>2. ASSUME NEW k \in 1 .. m + 1
        PROVE  new[k] = (k > 1 /\ s[k - 1] = "str" /\ ~new[k - 1])
    <3>1. CASE k <= m
      <4>1. k \in 1 .. m /\ (k > 1 => new[k - 1] = is[k - 1]) /\ new[k] = is[k]
        BY <3>1
      <4> QED
        BY <2>1, <4>1
    <3>2. CASE k = m + 1
      <4>1. /\ new[k] = (k > 1 /\ s[k - 1] = "str" /\ ~is[k - 1])
            /\ k > 1 => new[k - 1] = is[k - 1]
        BY <3>2
      <4> QED
        BY <4>1
    <3> QED
      BY <3>1, <3>2
  <2>3. new = [k \in 1 .. m + 1 |-> new[k]]
    OBVIOUS
  <2> HIDE DEF new
  <2>4. Solves(m + 1, new)
    BY <2>2, <2>3, Zenon
  <2> QED
    BY <2>4
<1>3. bad = {}
  <2> SUFFICES ASSUME bad # {} PROVE FALSE
    OBVIOUS
  <2> HIDE DEF Solves
  <2>1. PICK m \in bad : \A i \in bad : m <= i
    BY SmallestNat
  <2>2. m # 0 /\ m \in Nat
    BY <1>1, <2>1
  <2>3. m - 1 \in Nat /\ m - 1 \notin bad
    BY <2>1, <2>2
  <2>4. PICK is : Solves(m - 1, is)
    BY <2>3
  <2>5. \E new : Solves(m - 1 + 1, new)
    BY <1>2, <2>3, <2>4
  <2> QED
    BY <2>1, <2>2, <2>5
<1> QED
  BY <1>3

(* What the tokens behind the front are.                                     *)
LEMMA RestIs ==
  ASSUME args \in Seq(STRING), front \in Seq(STRING), Len(front) <= Len(args)
  PROVE  /\ Rest \in Seq(STRING) /\ Len(Rest) = Len(args) - Len(front)
         /\ \A k \in 1 .. Len(Rest) : Rest[k] = args[Len(front) + k]
BY DEF Rest

(* A token is a value if the one before it takes one and is no value itself. *)
LEMMA ValueIs ==
  ASSUME args \in Seq(STRING), front \in Seq(STRING), Len(front) <= Len(args)
  PROVE  \A k \in 1 .. Len(Rest) : IsValue[k] <=> (k > 1 /\ Rest[k - 1] = "str" /\ ~IsValue[k - 1])
<1>1. Len(Rest) \in Nat
  BY RestIs
<1>2. \E is : is = [k \in 1 .. Len(Rest) |-> k > 1 /\ Rest[k - 1] = "str" /\ ~is[k - 1]]
  BY <1>1, Alternates, Zenon
<1>3. IsValue = [k \in 1 .. Len(Rest) |-> k > 1 /\ Rest[k - 1] = "str" /\ ~IsValue[k - 1]]
  BY <1>2, Zenon DEF IsValue
<1> QED
  BY <1>3

(* A sequence is cut in two.                                                 *)
LEMMA CutInTwo ==
  ASSUME NEW S, NEW s \in Seq(S), NEW m \in Nat, NEW n \in Nat, m <= n, n <= Len(s)
  PROVE  SubSeq(s, 1, m) \o SubSeq(s, m + 1, n) = SubSeq(s, 1, n)
<1> DEFINE a == SubSeq(s, 1, m)
           b == SubSeq(s, m + 1, n)
           c == SubSeq(s, 1, n)
<1>1. a \in Seq(S) /\ Len(a) = m /\ \A k \in 1 .. m : a[k] = s[k]
  OBVIOUS
<1>2. b \in Seq(S) /\ Len(b) = n - m /\ \A k \in 1 .. n - m : b[k] = s[m + k]
  OBVIOUS
<1>3. c \in Seq(S) /\ Len(c) = n /\ \A k \in 1 .. n : c[k] = s[k]
  OBVIOUS
<1> HIDE DEF a, b, c
<1>4. a \o b \in Seq(S) /\ Len(a \o b) = n
  <2>1. a \o b \in Seq(S) /\ Len(a \o b) = Len(a) + Len(b)
    BY <1>1, <1>2, ConcatProperties
  <2> QED
    BY <1>1, <1>2, <2>1
<1>5. ASSUME NEW k \in 1 .. n PROVE (a \o b)[k] = c[k]
  <2>0. (a \o b)[k] = IF k <= m THEN a[k] ELSE b[k - m]
    <3>1. \A i \in 1 .. Len(a) + Len(b) : (a \o b)[i] = IF i <= Len(a) THEN a[i] ELSE b[i - Len(a)]
      BY <1>1, <1>2, ConcatProperties
    <3>2. k \in 1 .. Len(a) + Len(b)
      BY <1>1, <1>2
    <3> QED
      BY <1>1, <3>1, <3>2
  <2>1. CASE k <= m
    <3>1. k \in 1 .. m
      BY <2>1
    <3>2. (a \o b)[k] = a[k]
      BY <2>0, <2>1, Zenon
    <3> QED
      BY <1>1, <1>3, <3>1, <3>2
  <2>2. CASE k > m
    <3>1. ~(k <= m) /\ k - m \in 1 .. n - m /\ m + (k - m) = k
      BY <2>2
    <3>2. (a \o b)[k] = b[k - m]
      BY <2>0, <3>1, Zenon
    <3>3. b[k - m] = s[m + (k - m)]
      BY <1>2, <3>1, Zenon
    <3> QED
      BY <1>3, <3>1, <3>2, <3>3, Zenon
  <2>3. k <= m \/ k > m
    OBVIOUS
  <2> QED
    BY <2>1, <2>2, <2>3, Zenon
<1> QED
  BY <1>3, <1>4, <1>5, SeqEqual DEF a, b, c

(* The middle is what was read of it, and its values are values.             *)
LEMMA MiddleIs ==
  ASSUME ArgTypes, FrontInv, BackInv, parse = "over"
  PROVE  /\ Done \in 0 .. Len(Rest) /\ Len(Middle) = Done /\ DOMAIN Middle = 1 .. Done
         /\ \A k \in 1 .. Done : Middle[k] = Rest[k]
         /\ \A k \in 1 .. Done : Swallowed[k] <=> IsValue[k]
         /\ args = front \o Middle \o back
<1>1. /\ args \in Seq(STRING) /\ front \in Seq(STRING) /\ back \in Seq(STRING)
      /\ Len(front) <= Len(args) /\ next = Len(args) + 1 /\ front = SubSeq(args, 1, Len(front))
  BY DEF ArgTypes, FrontInv
<1>2. /\ Rest \in Seq(STRING) /\ Len(Rest) = Len(args) - Len(front)
      /\ \A k \in 1 .. Len(Rest) : Rest[k] = args[Len(front) + k]
  BY <1>1, RestIs
<1>3. /\ Len(front) + Len(back) <= Len(args) /\ Done = Len(args) - Len(back) - Len(front)
      /\ back = SubSeq(args, Len(args) - Len(back) + 1, Len(args))
  <2>1. CASE back = <<>>
    BY <1>1, <2>1 DEF Done
  <2>2. CASE back # <<>>
    <3>1. Len(front) + Len(back) <= Len(args) /\ back = SubSeq(args, Len(args) - Len(back) + 1, Len(args))
      BY <2>2 DEF BackInv
    <3>2. Done = Len(args) - Len(back) - Len(front)
      BY <2>2 DEF Done
    <3> QED
      BY <3>1, <3>2
  <2> QED
    BY <2>1, <2>2
<1> DEFINE f == Len(front)
           m == Len(args) - Len(back)
<1>4. /\ f \in Nat /\ m \in Nat /\ Len(args) \in Nat /\ f <= m /\ m <= Len(args) /\ Done = m - f
      /\ Middle = SubSeq(args, f + 1, m) /\ Len(Rest) = Len(args) - f
      /\ front = SubSeq(args, 1, f) /\ back = SubSeq(args, m + 1, Len(args))
      /\ \A k \in 1 .. Len(Rest) : Rest[k] = args[f + k]
  BY <1>1, <1>2, <1>3 DEF Middle
<1> HIDE DEF f, m
<1>5. /\ Done \in 0 .. Len(Rest) /\ Len(Middle) = Done /\ DOMAIN Middle = 1 .. Done
      /\ \A k \in 1 .. Done : Middle[k] = Rest[k]
  <2> HIDE DEF Rest, Done
  <2>1. /\ SubSeq(args, f + 1, m) \in Seq(STRING) /\ Len(SubSeq(args, f + 1, m)) = m - f
        /\ \A k \in 1 .. m - f : SubSeq(args, f + 1, m)[k] = args[f + k]
    BY <1>1, <1>4
  <2> DEFINE mid == SubSeq(args, f + 1, m)
  <2> HIDE DEF mid
  <2>2. /\ mid \in Seq(STRING) /\ Len(mid) = m - f /\ \A k \in 1 .. m - f : mid[k] = args[f + k]
    BY <2>1, Zenon DEF mid
  <2>3. Middle = mid
    BY <1>4, Zenon DEF mid
  <2> HIDE DEF Middle
  <2>4. Len(mid) = Done /\ DOMAIN mid = 1 .. Done /\ \A k \in 1 .. Done : mid[k] = Rest[k]
    BY <1>4, <2>2
  <2> QED
    BY <1>4, <2>3, <2>4
<1>6. args = front \o Middle \o back
  <2>1. Len(args) <= Len(args) /\ f <= Len(args)
    BY <1>4
  <2>2. SubSeq(args, 1, f) \o SubSeq(args, f + 1, m) = SubSeq(args, 1, m)
    BY <1>1, <1>4, <2>1, CutInTwo, Zenon
  <2>3. SubSeq(args, 1, m) \o SubSeq(args, m + 1, Len(args)) = SubSeq(args, 1, Len(args))
    BY <1>1, <1>4, <2>1, CutInTwo, Zenon
  <2>4. SubSeq(args, 1, Len(args)) = args
    BY <1>1
  <2> QED
    BY <1>4, <2>2, <2>3, <2>4, Zenon
<1>7. \A k \in 1 .. Done : Swallowed[k] <=> IsValue[k]
  <2> DEFINE is[k \in DOMAIN Middle] == k > 1 /\ Middle[k - 1] = "str" /\ ~is[k - 1]
  <2>1. \A k \in 1 .. Len(Rest) : IsValue[k] <=> (k > 1 /\ Rest[k - 1] = "str" /\ ~IsValue[k - 1])
    BY <1>1, ValueIs
  <2>2. Swallowed = [k \in DOMAIN Middle |-> is[k]]
    BY Zenon DEF Swallowed
  <2>3. \E is0 : is0 = [k \in DOMAIN Middle |-> k > 1 /\ Middle[k - 1] = "str" /\ ~is0[k - 1]]
    <3>1. Done \in Nat
      BY <1>5
    <3> DEFINE D == DOMAIN Middle
               mid == Middle
    <3>2. D = 1 .. Done
      BY <1>5
    <3> HIDE DEF D, mid
    <3>3. PICK is0 : is0 = [k \in 1 .. Done |-> k > 1 /\ mid[k - 1] = "str" /\ ~is0[k - 1]]
      BY <3>1, Alternates, Zenon
    <3> HIDE DEF Done
    <3>4. is0 = [k \in D |-> k > 1 /\ mid[k - 1] = "str" /\ ~is0[k - 1]]
      BY <3>2, <3>3
    <3> QED
      BY <3>4, Zenon DEF D, mid
  <2>4. is = [k \in DOMAIN Middle |-> k > 1 /\ Middle[k - 1] = "str" /\ ~is[k - 1]]
    BY <2>3, Zenon
  <2> HIDE DEF is
  <2>5. \A k \in DOMAIN Middle : is[k] <=> (k > 1 /\ Middle[k - 1] = "str" /\ ~is[k - 1])
    BY <2>4, Zenon
  <2> DEFINE bad == {k \in 1 .. Done : ~(is[k] <=> IsValue[k])}
  <2>6. bad = {}
    <3> SUFFICES ASSUME bad # {} PROVE FALSE
      OBVIOUS
    <3>1. bad \in SUBSET Nat
      OBVIOUS
    <3>2. PICK k \in bad : \A i \in bad : k <= i
      BY <3>1, SmallestNat
    <3>3. k \in 1 .. Done /\ k \in 1 .. Len(Rest)
      BY <1>5
    <3>4. k > 1 => k - 1 \in 1 .. Done /\ k - 1 \notin bad
      <4>1. k \in Int /\ Done \in Int
        BY <1>5, <3>3
      <4> HIDE DEF bad
      <4> QED
        BY <3>2, <3>3, <4>1
    <3> QED
      BY <1>5, <2>1, <2>5, <3>2, <3>3, <3>4
  <2> QED
    BY <1>5, <2>2, <2>6
<1> QED
  BY <1>5, <1>6, <1>7

(* The tokens of the arguments.                                              *)
LEMMA FlattenIs ==
  ASSUME NEW s \in Seq(Seq(STRING))
  PROVE  Seqs!FlattenSeq(s) \in Seq(STRING)
<1> DEFINE n == Len(s)
           flatten[i \in 1 .. n] == IF i = 1 THEN s[i] ELSE flatten[i - 1] \o s[i]
<1>1. Seqs!FlattenSeq(s) = IF n = 0 THEN s ELSE flatten[n]
  BY Zenon DEF Seqs!FlattenSeq
<1>2. n \in Nat /\ (n = 0 => s = <<>>) /\ \A i \in 1 .. n : s[i] \in Seq(STRING)
  OBVIOUS
<1> HIDE DEF n
<1> DEFINE Solves(m, f) == f = [i \in 1 .. m |-> IF i = 1 THEN s[i] ELSE f[i - 1] \o s[i]]
           bad == {m \in Nat : m <= n /\ ~ \E f \in [1 .. m -> Seq(STRING)] : Solves(m, f)}
<1>3. \E f \in [1 .. 0 -> Seq(STRING)] : Solves(0, f)
  <2>1. Solves(0, [i \in 1 .. 0 |-> <<>>]) /\ [i \in 1 .. 0 |-> <<>>] \in [1 .. 0 -> Seq(STRING)]
    OBVIOUS
  <2> QED
    BY <2>1
<1>4. ASSUME NEW m \in Nat, m + 1 <= n, NEW f \in [1 .. m -> Seq(STRING)], Solves(m, f)
      PROVE  \E g \in [1 .. m + 1 -> Seq(STRING)] : Solves(m + 1, g)
  <2> DEFINE g == [i \in 1 .. m + 1 |->
                     IF i <= m THEN f[i] ELSE IF i = 1 THEN s[i] ELSE f[i - 1] \o s[i]]
  <2>1. \A i \in 1 .. m : f[i] = IF i = 1 THEN s[i] ELSE f[i - 1] \o s[i]
    BY <1>4
  <2>2. ASSUME NEW i \in 1 .. m + 1
        PROVE  g[i] \in Seq(STRING) /\ g[i] = IF i = 1 THEN s[i] ELSE g[i - 1] \o s[i]
    <3>0. s[i] \in Seq(STRING)
      BY <1>2, <1>4
    <3>1. CASE i <= m
      <4>1. i \in 1 .. m /\ (i # 1 => g[i - 1] = f[i - 1]) /\ g[i] = f[i] /\ f[i] \in Seq(STRING)
        BY <3>1
      <4>2. f[i] = IF i = 1 THEN s[i] ELSE f[i - 1] \o s[i]
        BY <2>1, <4>1
      <4> HIDE DEF g
      <4> QED
        BY <4>1, <4>2, Zenon
    <3>2. CASE i = m + 1
      <4>1. /\ g[i] = IF i = 1 THEN s[i] ELSE f[i - 1] \o s[i]
            /\ i # 1 => g[i - 1] = f[i - 1] /\ f[i - 1] \in Seq(STRING)
        BY <3>2
      <4>2. i # 1 => f[i - 1] \o s[i] \in Seq(STRING)
        BY <3>0, <4>1, ConcatProperties
      <4> HIDE DEF g
      <4> QED
        BY <3>0, <4>1, <4>2, Zenon
    <3>3. i <= m \/ i = m + 1
      OBVIOUS
    <3> QED
      BY <3>1, <3>2, <3>3, Zenon
  <2>3. g = [i \in 1 .. m + 1 |-> g[i]]
    OBVIOUS
  <2> HIDE DEF g
  <2>4. Solves(m + 1, g)
    BY <2>2, <2>3, Zenon
  <2>5. g \in [1 .. m + 1 -> Seq(STRING)]
    BY <2>2, <2>3
  <2> QED
    BY <2>4, <2>5
<1>5. bad = {}
  <2> SUFFICES ASSUME bad # {} PROVE FALSE
    OBVIOUS
  <2> HIDE DEF Solves
  <2>1. PICK m \in bad : \A i \in bad : m <= i
    BY SmallestNat
  <2>2. m # 0 /\ m \in Nat /\ m <= n
    BY <1>3, <2>1
  <2>3. m - 1 \in Nat /\ m - 1 < m /\ m - 1 <= n
    BY <1>2, <2>2
  <2>7. m - 1 \notin bad
    <3> HIDE DEF bad
    <3> QED
      BY <2>1, <2>2, <2>3
  <2>4. PICK f \in [1 .. m - 1 -> Seq(STRING)] : Solves(m - 1, f)
    BY <2>3, <2>7, Zenon
  <2>5. m - 1 + 1 = m
    BY <2>2
  <2>6. \E g \in [1 .. m - 1 + 1 -> Seq(STRING)] : Solves(m - 1 + 1, g)
    BY <1>4, <2>2, <2>3, <2>4, <2>5
  <2> QED
    BY <2>1, <2>2, <2>5, <2>6
<1>6. PICK f \in [1 .. n -> Seq(STRING)] : Solves(n, f)
  <2> HIDE DEF Solves
  <2> HIDE DEF bad
  <2>1. n <= n /\ n \notin bad
    BY <1>2, <1>5
  <2> USE DEF bad
  <2> QED
    BY <1>2, <2>1, Zenon
<1>7. flatten = [i \in 1 .. n |-> IF i = 1 THEN s[i] ELSE flatten[i - 1] \o s[i]]
  BY <1>6, Zenon
<1> HIDE DEF flatten
<1>8. \A i \in 1 .. n : flatten[i] = IF i = 1 THEN s[i] ELSE flatten[i - 1] \o s[i]
  BY <1>7, Zenon
<1> DEFINE wrong == {i \in 1 .. n : flatten[i] \notin Seq(STRING)}
<1>9. wrong = {}
  <2> SUFFICES ASSUME wrong # {} PROVE FALSE
    OBVIOUS
  <2>1. wrong \in SUBSET Nat
    OBVIOUS
  <2>2. PICK i \in wrong : \A j \in wrong : i <= j
    BY <2>1, SmallestNat
  <2>3. i # 1
    BY <1>2, <1>8
  <2>4. i \in 1 .. n /\ i - 1 \in 1 .. n /\ i - 1 \notin wrong
    BY <1>2, <2>2, <2>3
  <2>5. flatten[i - 1] \in Seq(STRING) /\ s[i] \in Seq(STRING)
    BY <1>2, <2>4
  <2>6. flatten[i] = flatten[i - 1] \o s[i]
    BY <1>8, <2>3, <2>4
  <2>7. flatten[i] \in Seq(STRING)
    BY <2>5, <2>6
  <2> QED
    BY <2>2, <2>7
<1> QED
  BY <1>1, <1>2, <1>9

(* Before the first argument is looked at the invariant holds.               *)
LEMMA ArgInitInv == ArgInit => ArgInv
<1> SUFFICES ASSUME ArgInit PROVE ArgInv
  OBVIOUS
<1>1. argv \in Seq(Seq(STRING))
  <2>1. PICK n \in 0 .. MaxArgs : argv \in [1 .. n -> ArgvItems]
    BY DEF ArgInit
  <2>2. n \in Nat /\ argv \in [1 .. n -> Seq(STRING)]
    BY <2>1, ArgAssumption
  <2> QED
    BY <2>2
<1>2. /\ args = <<>> /\ next = 1 /\ front = <<>> /\ back = <<>>
      /\ optValue = [o \in Options |-> <<>>] /\ has = [o \in Options |-> FALSE] /\ parse = "begin"
  BY DEF ArgInit
<1>3. ArgTypes
  <2>1. <<>> \in Seq(STRING) /\ Len(<<>>) = 0
    BY EmptySeq
  <2>2. optValue \in [Options -> Seq(STRING)] /\ \A o \in Options : optValue[o] = <<>>
    BY <1>2, <2>1
  <2> QED
    BY <1>1, <1>2, <2>1, <2>2 DEF ArgTypes
<1>4. FrontInv
  BY <1>2 DEF FrontInv
<1> QED
  BY <1>2, <1>3, <1>4 DEF ArgInv, BackInv, MiddleInv

(* Taking the arguments apart, and those of the front.                       *)
LEMMA FlattenStep == ArgInv /\ Flatten => ArgInv'
<1> SUFFICES ASSUME ArgInv, Flatten PROVE ArgInv'
  OBVIOUS
<1>1. ArgTypes /\ FrontInv /\ BackInv /\ parse = "begin"
  BY DEF ArgInv, Flatten
<1>2. /\ args' \in Seq(STRING) /\ parse' \in {"threw", "front"}
      /\ UNCHANGED <<argv, next, front, back, optValue, has>>
  BY <1>1, FlattenIs DEF Flatten, ArgTypes
<1>3. front = <<>> /\ next = 1 /\ back = <<>>
  <2>1. Len(front) = 0
    BY <1>1 DEF FrontInv, ArgTypes
  <2> QED
    BY <1>1, <2>1 DEF FrontInv, ArgTypes
<1>4. ArgTypes'
  BY <1>1, <1>2, <1>3 DEF ArgTypes
<1>5. FrontInv'
  <2>1. SubSeq(args', 1, 0) = <<>>
    BY <1>2
  <2> QED
    BY <1>1, <1>2, <1>3, <2>1 DEF FrontInv
<1> QED
  BY <1>2, <1>3, <1>4, <1>5 DEF ArgInv, BackInv, MiddleInv

(* A word before the first option is taken, or there are no more.            *)
LEMMA TakeFrontStep == ArgInv /\ TakeFront => ArgInv'
<1> SUFFICES ASSUME ArgInv, TakeFront PROVE ArgInv'
  OBVIOUS
<1>1. /\ ArgTypes /\ FrontInv /\ parse = "front" /\ back = <<>> /\ back' = back /\ args' = args
      /\ next = Len(front) + 1 /\ args \in Seq(STRING) /\ front \in Seq(STRING)
      /\ optValue = [o \in Options |-> <<>>] /\ has = [o \in Options |-> FALSE]
      /\ next \in 1 .. Len(args) + 1 /\ UNCHANGED <<argv, optValue, has>>
  BY DEF ArgInv, TakeFront, FrontInv, ArgTypes
<1>2. CASE /\ next <= Len(args) /\ args[next] \notin Options
           /\ front' = Append(front, args[next]) /\ next' = next + 1 /\ UNCHANGED parse
  <2>1. /\ front' \in Seq(STRING) /\ Len(front') = Len(front) + 1
        /\ \A k \in 1 .. Len(front) : front'[k] = front[k]
        /\ front'[Len(front) + 1] = args[next]
    BY <1>1, <1>2
  <2>2. front' = SubSeq(args, 1, Len(front'))
    <3> DEFINE s == SubSeq(args, 1, Len(front) + 1)
    <3>1. s \in Seq(STRING) /\ Len(s) = Len(front) + 1 /\ \A k \in 1 .. Len(front) + 1 : s[k] = args[k]
      BY <1>1, <1>2
    <3>2. \A k \in 1 .. Len(front) : front[k] = args[k]
      BY <1>1 DEF FrontInv
    <3> HIDE DEF s
    <3>3. \A k \in 1 .. Len(front') : front'[k] = s[k]
      <4> TAKE k \in 1 .. Len(front')
      <4>1. k \in 1 .. Len(front) + 1 /\ (k \in 1 .. Len(front) \/ k = Len(front) + 1)
        BY <1>1, <2>1
      <4> QED
        BY <1>1, <2>1, <3>1, <3>2, <4>1
    <3>4. front' = s
      BY <2>1, <3>1, <3>3, SeqEqual
    <3> QED
      BY <2>1, <3>4, Zenon DEF s
  <2>3. ArgTypes'
    BY <1>1, <1>2, <2>1 DEF ArgTypes
  <2>4. FrontInv'
    <3>1. \A k \in 1 .. Len(front') : args[k] \notin Options
      BY <1>1, <1>2, <2>1 DEF FrontInv
    <3> QED
      BY <1>1, <1>2, <2>1, <2>2, <3>1 DEF FrontInv
  <2> QED
    BY <1>1, <1>2, <2>3, <2>4 DEF ArgInv, BackInv, MiddleInv
<1>3. CASE /\ next <= Len(args) => args[next] \in Options
           /\ parse' = "middle" /\ UNCHANGED <<front, next>>
  <2>1. ArgTypes'
    BY <1>1, <1>3 DEF ArgTypes
  <2>2. FrontInv'
    BY <1>1, <1>3 DEF FrontInv
  <2>3. Done' = 0 /\ Rest' = Rest /\ IsValue' = IsValue
    BY <1>1, <1>3 DEF Done, Rest, IsValue
  <2>4. Words(0) = {} /\ Cardinality({}) = 0
    BY FS_EmptySet DEF Words
  <2>5. OptionsAfter(0)'
    <3>1. has'["bool"] = FALSE /\ has'["int"] = FALSE /\ has'["str"] = FALSE
      BY <1>1 DEF Options
    <3> QED
      BY <3>1 DEF OptionsAfter
  <2>6. ListAfter(0)'
    <3>1. Words(0)' = {} /\ Cardinality(Words(0)') = 0
      BY <2>4, FS_EmptySet DEF Words
    <3>2. has'["list"] = FALSE /\ optValue'["list"] = <<>>
      BY <1>1 DEF Options
    <3> QED
      BY <3>1, <3>2 DEF ListAfter
  <2>7. Done' < Len(Rest') => ~IsValue'[Done' + 1]
    <3>1. Len(front) <= Len(args)
      BY <1>1
    <3>2. 0 < Len(Rest) => ~IsValue[1]
      <4>1. /\ \A k \in 1 .. Len(Rest) : IsValue[k] <=> (k > 1 /\ Rest[k - 1] = "str" /\ ~IsValue[k - 1])
            /\ Len(Rest) \in Nat
        BY <1>1, <3>1, ValueIs, RestIs
      <4> HIDE DEF IsValue, Rest
      <4> QED
        BY <4>1
    <3> QED
      BY <2>3, <3>2
  <2>8. MiddleInv'
    BY <2>3, <2>5, <2>6, <2>7 DEF MiddleInv
  <2> QED
    BY <1>1, <2>1, <2>2, <2>8 DEF ArgInv, BackInv
<1> QED
  BY <1>2, <1>3 DEF TakeFront

(* What the middle of parse() reads next.                                    *)
LEMMA ReadsNext ==
  ASSUME ArgInv, parse = "middle"
  PROVE  /\ Len(front) <= Len(args) /\ Rest \in Seq(STRING) /\ Len(Rest) = Len(args) - Len(front)
         /\ \A k \in 1 .. Len(Rest) : /\ Rest[k] = args[Len(front) + k]
                                      /\ IsValue[k] <=> (k > 1 /\ Rest[k - 1] = "str" /\ ~IsValue[k - 1])
         /\ next <= Len(args) => /\ back = <<>> /\ Done \in 0 .. Len(Rest) - 1
                                 /\ next = Len(front) + Done + 1 /\ ~IsValue[Done + 1]
                                 /\ Rest[Done + 1] = args[next]
         /\ Done \in 0 .. Len(Rest)
<1>1. /\ args \in Seq(STRING) /\ front \in Seq(STRING) /\ back \in Seq(STRING) /\ Len(front) < next
      /\ next \in 1 .. Len(args) + 1 /\ (next <= Len(args) => back = <<>>)
      /\ back # <<>> => Len(front) + Len(back) <= Len(args)
  BY DEF ArgInv, ArgTypes, FrontInv, BackInv
<1>2. Len(front) <= Len(args)
  BY <1>1
<1>3. /\ Rest \in Seq(STRING) /\ Len(Rest) = Len(args) - Len(front)
      /\ \A k \in 1 .. Len(Rest) : Rest[k] = args[Len(front) + k]
  BY <1>1, <1>2, RestIs
<1>4. \A k \in 1 .. Len(Rest) : IsValue[k] <=> (k > 1 /\ Rest[k - 1] = "str" /\ ~IsValue[k - 1])
  BY <1>1, <1>2, ValueIs
<1>5. Done \in 0 .. Len(Rest) /\ (next <= Len(args) => Done = next - 1 - Len(front))
  BY <1>1, <1>2, <1>3 DEF Done
<1>6. next <= Len(args) => Done \in 0 .. Len(Rest) - 1 /\ next = Len(front) + Done + 1
  BY <1>1, <1>2, <1>3, <1>5
<1>7. next <= Len(args) => ~IsValue[Done + 1]
  BY <1>3, <1>6 DEF ArgInv, MiddleInv
<1>8. next <= Len(args) => Rest[Done + 1] = args[next]
  <2> SUFFICES ASSUME next <= Len(args) PROVE Rest[Done + 1] = args[next]
    OBVIOUS
  <2> HIDE DEF Rest, Done
  <2>1. Done + 1 \in 1 .. Len(Rest) /\ Len(front) + (Done + 1) = next
    BY <1>1, <1>3, <1>6
  <2> QED
    BY <1>3, <2>1, Zenon
<1> QED
  BY <1>1, <1>2, <1>3, <1>4, <1>5, <1>6, <1>7, <1>8

(* What was read stays as it was read.                                       *)
LEMMA ReadBefore ==
  ASSUME UNCHANGED <<args, front>>
  PROVE  /\ Rest' = Rest /\ IsValue' = IsValue
         /\ \A k : ListWord(k)' = ListWord(k)
         /\ \A n : Words(n)' = Words(n)
         /\ \A o, k : ReadsAs(o, k)' = ReadsAs(o, k)
<1>1. Rest' = Rest
  BY DEF Rest
<1>2. IsValue' = IsValue
  BY <1>1, Zenon DEF IsValue
<1> QED
  BY <1>1, <1>2 DEF ListWord, Words, ReadsAs

(* The options when an option was read, with what belongs to it.             *)
LEMMA OptionsThen ==
  ASSUME ArgInv, parse = "middle", next <= Len(args), UNCHANGED <<args, front>>,
         args[next] \in Options,
         NEW m \in Nat, m = Done, NEW n \in Nat, m < n, n <= Len(Rest),
         \A k \in 1 .. n : k > m + 1 => \A o \in {"bool", "int", "str"} : ~ReadsAs(o, k),
         has'["bool"] <=> (has["bool"] \/ args[next] = "bool"),
         has'["int"] <=> (has["int"] \/ (args[next] = "int" /\ m + 1 < n /\ Rest[m + 2] = Number)),
         has'["str"] <=> (has["str"] \/ (args[next] = "str" /\ m + 1 < n)),
         optValue'["str"] = IF args[next] = "str" /\ m + 1 < n THEN <<Rest[m + 2]>>
                            ELSE optValue["str"]
  PROVE  OptionsAfter(n)'
<1>1. /\ m \in 0 .. Len(Rest) - 1 /\ m \in Nat /\ Len(Rest) \in Nat /\ args[next] = Rest[m + 1]
      /\ ~IsValue[m + 1]
      /\ \A k \in 1 .. Len(Rest) : IsValue[k] <=> (k > 1 /\ Rest[k - 1] = "str" /\ ~IsValue[k - 1])
  <2>1. /\ Rest \in Seq(STRING) /\ m \in 0 .. Len(Rest) - 1 /\ ~IsValue[m + 1] /\ Rest[m + 1] = args[next]
    BY ReadsNext
  <2>2. \A k \in 1 .. Len(Rest) : IsValue[k] <=> (k > 1 /\ Rest[k - 1] = "str" /\ ~IsValue[k - 1])
    BY ReadsNext
  <2>3. Len(Rest) \in Nat
    BY <2>1
  <2> QED
    BY <2>1, <2>2, <2>3, Zenon
<1>2. OptionsAfter(m)
  BY DEF ArgInv, MiddleInv
<1>3. Rest' = Rest /\ \A o, k : ReadsAs(o, k)' = ReadsAs(o, k)
  BY ReadBefore
<1>4. m > 0 => ~ReadsAs("str", m) /\ ~(ReadsAs("int", m) /\ Rest[m + 1] = Number)
  <2>1. m > 0 => m + 1 > 1 /\ m + 1 - 1 = m /\ m + 1 \in 1 .. Len(Rest)
    BY <1>1
  <2> QED
    BY <1>1, <2>1 DEF ReadsAs, Options, Number
<1>5. \A o : ReadsAs(o, m + 1) <=> args[next] = o
  BY <1>1 DEF ReadsAs
<1> HIDE DEF ReadsAs, Rest, IsValue
<1>6. has'["bool"] <=> \E k \in 1 .. n : ReadsAs("bool", k)
  <2>1. has["bool"] <=> \E k \in 1 .. m : ReadsAs("bool", k)
    BY <1>2 DEF OptionsAfter
  <2> QED
    BY <1>1, <1>5, <2>1
<1>7. has'["int"] <=> \E k \in 1 .. n : k < n /\ ReadsAs("int", k) /\ Rest[k + 1] = Number
  <2>1. has["int"] <=> \E k \in 1 .. m : k < m /\ ReadsAs("int", k) /\ Rest[k + 1] = Number
    BY <1>2 DEF OptionsAfter
  <2>2. ASSUME has'["int"] PROVE \E k \in 1 .. n : k < n /\ ReadsAs("int", k) /\ Rest[k + 1] = Number
    <3>1. CASE has["int"]
      BY <1>1, <2>1, <3>1
    <3>2. CASE args[next] = "int" /\ m + 1 < n /\ Rest[m + 2] = Number
      <4>1. m + 1 \in 1 .. n /\ m + 1 + 1 = m + 2
        BY <1>1
      <4> QED
        BY <1>5, <3>2, <4>1
    <3> QED
      BY <2>2, <3>1, <3>2
  <2>3. ASSUME NEW k \in 1 .. n, k < n, ReadsAs("int", k), Rest[k + 1] = Number PROVE has'["int"]
    <3>1. k <= m + 1
      BY <1>1, <2>3
    <3>2. CASE k = m + 1
      <4>1. k + 1 = m + 2
        BY <1>1, <3>2
      <4> QED
        BY <1>5, <2>3, <3>2, <4>1
    <3>3. CASE k <= m
      <4>1. k # m
        BY <1>1, <1>4, <2>3
      <4>2. k \in 1 .. m /\ k < m
        BY <1>1, <3>3, <4>1
      <4> QED
        BY <2>1, <2>3, <4>2
    <3> QED
      BY <1>1, <3>1, <3>2, <3>3
  <2> QED
    BY <2>2, <2>3
<1>8. has'["str"] <=> \E k \in 1 .. n : k < n /\ ReadsAs("str", k)
  <2>1. has["str"] <=> \E k \in 1 .. m : k < m /\ ReadsAs("str", k)
    BY <1>2 DEF OptionsAfter
  <2> QED
    BY <1>1, <1>4, <1>5, <2>1
<1>9. ASSUME NEW k \in 1 .. n, k < n, ReadsAs("str", k)
      PROVE  \/ optValue'["str"] = <<Rest[k + 1]>>
             \/ \E l \in 1 .. n : k < l /\ l < n /\ ReadsAs("str", l)
  <2>1. k <= m + 1
    BY <1>1, <1>9
  <2>2. CASE k = m + 1
    <3>1. k + 1 = m + 2 /\ m + 1 < n
      BY <1>1, <1>9, <2>2
    <3> QED
      BY <1>5, <1>9, <2>2, <3>1
  <2>3. CASE k <= m
    <3>1. k # m
      BY <1>1, <1>4, <1>9
    <3>2. k \in 1 .. m /\ k < m
      BY <1>1, <2>3, <3>1
    <3>3. \/ optValue["str"] = <<Rest[k + 1]>>
          \/ \E l \in 1 .. m : k < l /\ l < m /\ ReadsAs("str", l)
      BY <1>2, <1>9, <3>2 DEF OptionsAfter
    <3>4. args[next] = "str" /\ m + 1 < n => \E l \in 1 .. n : k < l /\ l < n /\ ReadsAs("str", l)
      BY <1>1, <1>5, <3>2
    <3> QED
      BY <1>1, <3>3, <3>4
  <2> QED
    BY <1>1, <2>1, <2>2, <2>3
<1> QED
  BY <1>3, <1>6, <1>7, <1>8, <1>9 DEF OptionsAfter

(* The list when another option was read.                                    *)
LEMMA NoListThen ==
  ASSUME ArgInv, parse = "middle", UNCHANGED <<args, front>>,
         NEW m \in Nat, m = Done, NEW n \in Nat, m <= n, n <= Len(Rest),
         \A k \in 1 .. n : k > m => ~ListWord(k),
         has'["list"] <=> has["list"], optValue'["list"] = optValue["list"]
  PROVE  ListAfter(n)'
<1>1. ListAfter(m)
  BY DEF ArgInv, MiddleInv
<1>2. /\ Rest' = Rest /\ \A k : ListWord(k)' = ListWord(k)
      /\ \A k : Words(k)' = Words(k)
  BY ReadBefore
<1> HIDE DEF Rest, ListWord
<1>3. Words(n) = Words(m)
  BY DEF Words
<1>4. \A k \in 1 .. n : ListWord(k) => k \in 1 .. m
  OBVIOUS
<1>5. 1 .. m \subseteq 1 .. n
  OBVIOUS
<1> HIDE DEF Words
<1> QED
  BY <1>1, <1>2, <1>3, <1>4, <1>5 DEF ListAfter

(* Behind an option that takes one value at most there is no word of a list. *)
LEMMA NoWord ==
  ASSUME ArgInv, parse = "middle", next <= Len(args), args[next] \in Options, args[next] # "list",
         NEW m \in Nat, m = Done
  PROVE  ~ListWord(m + 1) /\ (m + 2 <= Len(Rest) => ~ListWord(m + 2))
<1>1. /\ m + 1 \in 1 .. Len(Rest) /\ Len(Rest) \in Nat /\ Rest[m + 1] = args[next]
  BY ReadsNext
<1> HIDE DEF Rest, IsValue
<1>2. ASSUME NEW k \in {m + 1, m + 2}, k <= Len(Rest), ListWord(k) PROVE FALSE
  <2>1. PICK l \in 1 .. Len(Rest) : /\ l < k /\ Rest[l] = "list"
                                   /\ \A j \in 1 .. Len(Rest) : l < j /\ j <= k => Rest[j] \notin Options
    BY <1>2 DEF ListWord, ReadsAs
  <2>2. l # m + 1
    BY <1>1, <2>1
  <2>3. l < m + 1
    BY <1>2, <2>1, <2>2
  <2>4. m + 1 <= k
    BY <1>2
  <2> QED
    BY <1>1, <2>1, <2>3, <2>4
<1> QED
  BY <1>1, <1>2

(* Behind an option and its value there is the next option, or no value.     *)
LEMMA NextIsNoValue ==
  ASSUME ArgInv, parse = "middle", NEW k \in Nat, k < Len(Rest), k > 0,
         Rest[k] = "str" => IsValue[k]
  PROVE  ~IsValue[k + 1]
<1>1. \A i \in 1 .. Len(Rest) : IsValue[i] <=> (i > 1 /\ Rest[i - 1] = "str" /\ ~IsValue[i - 1])
  BY ReadsNext
<1>2. Len(Rest) \in Nat
  BY ReadsNext
<1> HIDE DEF Rest, IsValue
<1>3. k + 1 \in 1 .. Len(Rest) /\ k + 1 - 1 = k
  BY <1>2
<1> QED
  BY <1>1, <1>3

(* An option was read: it remains to show what has become of the options.    *)
LEMMA OptionRead ==
  ASSUME ArgInv, parse = "middle", next <= Len(args), UNCHANGED <<argv, args, front, back, parse>>,
         NEW m \in Nat, m = Done, NEW n \in Nat, m < n, n <= Len(Rest), next' = Len(front) + n + 1,
         optValue' \in [Options -> Seq(STRING)], has' \in [Options -> BOOLEAN],
         \A o \in Options \ {"list"} : Len(optValue'[o]) <= 1,
         n < Len(Rest) => ~IsValue[n + 1], OptionsAfter(n)', ListAfter(n)',
         \A k \in 1 .. n : k > m =>
           \/ Rest[k] \in Options \/ ListWord(k) \/ IsValue[k]
           \/ (Rest[k] = Number /\ k > 1 /\ ReadsAs("int", k - 1))
  PROVE  ArgInv'
<1>1. ArgTypes /\ FrontInv /\ BackInv /\ MiddleInv
  BY DEF ArgInv
<1>2. /\ args \in Seq(STRING) /\ front \in Seq(STRING) /\ Len(front) \in Nat /\ Len(args) \in Nat
      /\ Len(front) < next /\ next \in 1 .. Len(args) + 1
  BY <1>1 DEF ArgTypes, FrontInv
<1>3. back = <<>> /\ next = Len(front) + m + 1 /\ Len(Rest) = Len(args) - Len(front)
  BY ReadsNext
<1>4. next' \in 1 .. Len(args) + 1 /\ Len(front) < next' /\ next' - 1 - Len(front) = n
  <2> HIDE DEF Rest
  <2> QED
    BY <1>2, <1>3
<1>5. ArgTypes'
  BY <1>1, <1>4 DEF ArgTypes
<1>6. FrontInv'
  BY <1>1, <1>4 DEF FrontInv
<1>7. BackInv'
  BY <1>3 DEF BackInv
<1>8. Done' = n
  <2>1. back' = <<>>
    BY <1>3
  <2> QED
    BY <1>4, <2>1 DEF Done
<1>9. /\ Rest' = Rest /\ IsValue' = IsValue /\ \A k : ListWord(k)' = ListWord(k)
      /\ \A o, k : ReadsAs(o, k)' = ReadsAs(o, k)
  BY ReadBefore
<1>10. \A k \in 1 .. n :
           \/ Rest[k] \in Options \/ ListWord(k) \/ IsValue[k]
           \/ (Rest[k] = Number /\ k > 1 /\ ReadsAs("int", k - 1))
  <2> TAKE k \in 1 .. n
  <2>1. CASE k > m
    BY <2>1
  <2>2. CASE ~(k > m)
    <3>1. k \in 1 .. m
      BY <2>2
    <3> HIDE DEF Rest, ListWord, IsValue, ReadsAs
    <3> QED
      BY <1>1, <3>1 DEF MiddleInv
  <2> QED
    BY <2>1, <2>2
<1>11. MiddleInv'
  <2> HIDE DEF Rest, ListWord, IsValue, ReadsAs, Done, OptionsAfter, ListAfter
  <2>1. /\ OptionsAfter(Done)' /\ ListAfter(Done)'
        /\ Done' < Len(Rest') => ~IsValue'[Done' + 1]
    BY <1>8, <1>9, Zenon
  <2>2. (\A k \in 1 .. Done : \/ Rest[k] \in Options \/ ListWord(k) \/ IsValue[k]
           \/ (Rest[k] = Number /\ k > 1 /\ ReadsAs("int", k - 1)))'
    BY <1>8, <1>9, <1>10
  <2> QED
    BY <2>1, <2>2 DEF MiddleInv
<1> QED
  BY <1>5, <1>6, <1>7, <1>11 DEF ArgInv

(* An option without a value.                                                *)
LEMMA BoolStep == ArgInv /\ IsBool => ArgInv'
<1> SUFFICES ASSUME ArgInv, IsBool PROVE ArgInv'
  OBVIOUS
<1>1. /\ parse = "middle" /\ next <= Len(args) /\ args[next] = "bool" /\ next' = next + 1
      /\ has' = [has EXCEPT !["bool"] = TRUE] /\ parse' = parse
      /\ UNCHANGED <<argv, args, front, back, optValue>>
  BY DEF IsBool
<1>2. /\ has \in [Options -> BOOLEAN] /\ optValue \in [Options -> Seq(STRING)]
      /\ \A o \in Options \ {"list"} : Len(optValue[o]) <= 1
  BY DEF ArgInv, ArgTypes
<1>3. args[next] \in Options
  BY <1>1 DEF Options
<1>4. /\ Done \in 0 .. Len(Rest) - 1 /\ Len(Rest) \in Nat /\ Done \in Nat /\ Rest[Done + 1] = args[next]
      /\ next = Len(front) + Done + 1 /\ ~IsValue[Done + 1] /\ Len(front) \in Nat
  <2>1. front \in Seq(STRING)
    BY DEF ArgInv, ArgTypes
  <2> QED
    BY <1>1, <2>1, ReadsNext
<1>12. PICK m \in Nat : m = Done
  BY <1>4
<1> DEFINE n == m + 1
<1>5. /\ m \in Nat /\ n \in Nat /\ m < n /\ n <= Len(Rest) /\ m <= n /\ m = Done
      /\ next' = Len(front) + n + 1 /\ \A k \in 1 .. n : k > m => k = n
  BY <1>1, <1>4, <1>12
<1>6. Rest[n] = "bool" /\ ~IsValue[n]
  BY <1>1, <1>4, <1>12
<1> HIDE DEF n
<1>7. /\ has'["bool"] /\ optValue' = optValue /\ has' \in [Options -> BOOLEAN]
      /\ has'["int"] = has["int"] /\ has'["str"] = has["str"] /\ has'["list"] = has["list"]
  BY <1>1, <1>2 DEF Options
<1>8. n < Len(Rest) => ~IsValue[n + 1]
  <2>1. n > 0 /\ Rest[n] # "str"
    BY <1>5, <1>6
  <2> QED
    BY <1>1, <1>5, <2>1, NextIsNoValue
<1>9. OptionsAfter(n)'
  <2>1. \A k \in 1 .. n : ~(k > m + 1)
    BY <1>5 DEF n
  <2> HIDE DEF OptionsAfter
  <2> QED
    BY <1>1, <1>3, <1>5, <1>7, <2>1, OptionsThen
<1>10. ListAfter(n)'
  <2>1. ~ListWord(n)
    BY <1>1, <1>3, <1>5, NoWord DEF n
  <2>2. \A k \in 1 .. n : k > m => ~ListWord(k)
    BY <1>5, <2>1
  <2> HIDE DEF ListAfter, ListWord
  <2> QED
    BY <1>1, <1>5, <1>7, <2>2, NoListThen
<1>11. \A k \in 1 .. n : k > m => Rest[k] \in Options
  BY <1>5, <1>6 DEF Options
<1> QED
  BY <1>1, <1>2, <1>5, <1>7, <1>8, <1>9, <1>10, <1>11, OptionRead

(* An option that takes the token behind it as its value, if it can.         *)
LEMMA ValueStep == ASSUME ArgInv, NEW o \in {"int", "str"}, HasValue(o) PROVE ArgInv'
<1>1. /\ parse = "middle" /\ next <= Len(args) /\ args[next] = o /\ parse' = parse
      /\ UNCHANGED <<argv, args, front, back>>
  BY DEF HasValue
<1>2. /\ has \in [Options -> BOOLEAN] /\ optValue \in [Options -> Seq(STRING)]
      /\ \A x \in Options \ {"list"} : Len(optValue[x]) <= 1
      /\ args \in Seq(STRING)
  BY DEF ArgInv, ArgTypes
<1>3. args[next] \in Options /\ args[next] # "list" /\ args[next] # "bool"
  BY <1>1 DEF Options
<1>4. /\ Done \in 0 .. Len(Rest) - 1 /\ Len(Rest) \in Nat /\ Done \in Nat /\ Rest[Done + 1] = args[next]
      /\ next = Len(front) + Done + 1 /\ ~IsValue[Done + 1] /\ Len(front) \in Nat
      /\ Len(Rest) = Len(args) - Len(front) /\ Len(args) \in Nat
      /\ \A k \in 1 .. Len(Rest) : Rest[k] = args[Len(front) + k]
  <2>1. front \in Seq(STRING)
    BY DEF ArgInv, ArgTypes
  <2>2. \A k \in 1 .. Len(Rest) : Rest[k] = args[Len(front) + k]
    BY <1>1, ReadsNext
  <2>3. Len(Rest) = Len(args) - Len(front)
    BY <1>1, ReadsNext
  <2> HIDE DEF Rest, IsValue, Done
  <2> QED
    BY <1>1, <1>2, <2>1, <2>2, <2>3, ReadsNext
<1>5. PICK m \in Nat : m = Done
  BY <1>4
<1>6. ~ListWord(m + 1) /\ (m + 2 <= Len(Rest) => ~ListWord(m + 2))
  BY <1>1, <1>3, <1>5, NoWord
<1>7. ~IsValue[m + 1] /\ Rest[m + 1] = o /\ m + 1 \in 1 .. Len(Rest)
  BY <1>1, <1>4, <1>5
<1> HIDE DEF Rest, IsValue, Done, ListWord
<1>8. CASE /\ next = Len(args) \/ (o = "int" /\ args[next + 1] # Number)
           /\ next' = next + 1 /\ UNCHANGED <<optValue, has>>
  <2> DEFINE n == m + 1
  <2>1. /\ n \in Nat /\ m < n /\ n <= Len(Rest) /\ m <= n
        /\ next' = Len(front) + n + 1 /\ \A k \in 1 .. n : k > m => k = n
    BY <1>4, <1>5, <1>8
  <2>2. OptionsAfter(n)'
    <3>1. \A k \in 1 .. n : ~(k > m + 1)
      BY <2>1
    <3>2. ~(m + 1 < n)
      BY <2>1
    <3> HIDE DEF n, OptionsAfter
    <3>3. ~(args[next] = "bool")
      BY <1>3
    <3> QED
      BY <1>1, <1>3, <1>5, <1>8, <2>1, <3>1, <3>2, <3>3, OptionsThen
  <2>3. ListAfter(n)'
    <3>1. \A k \in 1 .. n : k > m => ~ListWord(k)
      BY <1>6, <2>1
    <3> HIDE DEF n, ListAfter
    <3> QED
      BY <1>1, <1>5, <1>8, <2>1, <3>1, NoListThen
  <2>4. n < Len(Rest) => ~IsValue[n + 1]
    <3> SUFFICES ASSUME n < Len(Rest) PROVE ~IsValue[n + 1]
      OBVIOUS
    <3>1. \A k \in 1 .. Len(Rest) : IsValue[k] <=> (k > 1 /\ Rest[k - 1] = "str" /\ ~IsValue[k - 1])
      BY <1>1, ReadsNext
    <3>2. n + 1 \in 1 .. Len(Rest) /\ n + 1 - 1 = n /\ next # Len(args)
      BY <1>4, <1>5, <2>1
    <3>3. Rest[n] = "int"
      BY <1>7, <1>8, <3>2
    <3> QED
      BY <3>1, <3>2, <3>3
  <2>5. \A k \in 1 .. n : k > m => Rest[k] \in Options
    BY <1>1, <1>3, <1>7, <2>1
  <2>6. optValue' \in [Options -> Seq(STRING)] /\ has' \in [Options -> BOOLEAN]
    BY <1>2, <1>8
  <2>7. \A x \in Options \ {"list"} : Len(optValue'[x]) <= 1
    BY <1>2, <1>8
  <2> HIDE DEF n, OptionsAfter, ListAfter
  <2> QED
    BY <1>1, <1>5, <2>1, <2>2, <2>3, <2>4, <2>5, <2>6, <2>7, OptionRead
<1>9. CASE /\ ~(next = Len(args) \/ (o = "int" /\ args[next + 1] # Number))
           /\ next' = next + 2
           /\ optValue' = [optValue EXCEPT ![o] = <<args[next + 1]>>]
           /\ has' = [has EXCEPT ![o] = TRUE]
  <2> DEFINE n == m + 2
  <2>1. /\ n \in Nat /\ m < n /\ n <= Len(Rest) /\ m <= n /\ m + 1 < n /\ n \in 1 .. Len(Rest)
        /\ next' = Len(front) + n + 1 /\ \A k \in 1 .. n : k > m => k = m + 1 \/ k = m + 2
    <3>1. next # Len(args) /\ next = Len(front) + m + 1
      BY <1>4, <1>5, <1>9
    <3>2. m + 2 <= Len(Rest)
      <4> DEFINE F == Len(front)
                 L == Len(args)
                 R == Len(Rest)
      <4>1. F \in Nat /\ L \in Nat /\ R = L - F /\ next = F + m + 1 /\ next <= L /\ next # L
        BY <1>1, <1>4, <3>1, Zenon
      <4> HIDE DEF F, L, R
      <4>2. m + 2 <= R
        BY <4>1
      <4> QED
        BY <4>2 DEF R
    <3>3. next' = Len(front) + (m + 2) + 1
      BY <1>4, <1>9, <3>1
    <3>4. Len(Rest) \in Nat
      BY <1>4
    <3>5. m + 2 \in 1 .. Len(Rest) /\ \A k \in 1 .. m + 2 : k > m => k = m + 1 \/ k = m + 2
      BY <3>2, <3>4
    <3> QED
      BY <3>2, <3>3, <3>5
  <2>2. args[next + 1] = Rest[m + 2] /\ args[next + 1] \in STRING
    <3>1. Len(front) + (m + 2) = next + 1 /\ next + 1 \in 1 .. Len(args)
      BY <1>1, <1>4, <1>5, <2>1
    <3>2. Rest[m + 2] = args[Len(front) + (m + 2)]
      BY <1>4, <2>1, Zenon
    <3> QED
      BY <1>2, <3>1, <3>2
  <2>3. o = "int" => Rest[m + 2] = Number
    BY <1>9, <2>2
  <2>4. o = "str" => IsValue[m + 2]
    <3>1. \A k \in 1 .. Len(Rest) : IsValue[k] <=> (k > 1 /\ Rest[k - 1] = "str" /\ ~IsValue[k - 1])
      BY <1>1, ReadsNext
    <3>2. m + 2 \in 1 .. Len(Rest) /\ m + 2 - 1 = m + 1 /\ m + 2 > 1
      BY <2>1
    <3> QED
      BY <1>7, <3>1, <3>2
  <2>5. /\ optValue' \in [Options -> Seq(STRING)] /\ has' \in [Options -> BOOLEAN]
        /\ has'["list"] = has["list"] /\ optValue'["list"] = optValue["list"]
        /\ has'["bool"] = has["bool"]
        /\ has'["int"] <=> (has["int"] \/ o = "int")
        /\ has'["str"] <=> (has["str"] \/ o = "str")
        /\ optValue'["str"] = IF o = "str" THEN <<Rest[m + 2]>> ELSE optValue["str"]
    <3>1. "int" \in Options /\ "str" \in Options /\ o \in Options /\ o # "list" /\ o # "bool"
      BY DEF Options
    <3>2. <<args[next + 1]>> \in Seq(STRING)
      BY <2>2
    <3>3. optValue' \in [Options -> Seq(STRING)] /\ has' \in [Options -> BOOLEAN]
      BY <1>2, <1>9, <3>1, <3>2
    <3>4. \A x \in Options : /\ has'[x] <=> (has[x] \/ o = x)
                             /\ o # x => has'[x] = has[x] /\ optValue'[x] = optValue[x]
                             /\ o = x => optValue'[x] = <<args[next + 1]>>
      BY <1>2, <1>9
    <3>5. "list" \in Options /\ "bool" \in Options
      BY DEF Options
    <3> QED
      BY <2>2, <3>1, <3>3, <3>4, <3>5
  <2>6. \A x \in Options \ {"list"} : Len(optValue'[x]) <= 1
    <3>1. Len(<<args[next + 1]>>) <= 1
      OBVIOUS
    <3> QED
      BY <1>2, <1>9, <3>1
  <2>7. OptionsAfter(n)'
    <3>1. \A k \in 1 .. n : k > m + 1 => \A x \in {"bool", "int", "str"} : ~ReadsAs(x, k)
      <4>1. \A k \in 1 .. n : k > m + 1 => k = m + 2
        BY <2>1
      <4>2. \A x \in {"bool", "int", "str"} : ~ReadsAs(x, m + 2)
        BY <2>3, <2>4 DEF ReadsAs, Number
      <4> QED
        BY <4>1, <4>2
    <3>2. m + 1 < n
      BY <2>1
    <3> HIDE DEF n, OptionsAfter
    <3>3. has'["bool"] <=> (has["bool"] \/ args[next] = "bool")
      BY <1>3, <2>5
    <3>4. has'["int"] <=> (has["int"] \/ (args[next] = "int" /\ m + 1 < n /\ Rest[m + 2] = Number))
      BY <1>1, <2>3, <2>5, <3>2
    <3>5. has'["str"] <=> (has["str"] \/ (args[next] = "str" /\ m + 1 < n))
      BY <1>1, <2>5, <3>2
    <3>6. optValue'["str"] = IF args[next] = "str" /\ m + 1 < n THEN <<Rest[m + 2]>> ELSE optValue["str"]
      BY <1>1, <2>5, <3>2
    <3> QED
      BY <1>1, <1>3, <1>5, <2>1, <3>1, <3>3, <3>4, <3>5, <3>6, OptionsThen
  <2>8. ListAfter(n)'
    <3>1. \A k \in 1 .. n : k > m => ~ListWord(k)
      BY <1>6, <2>1
    <3>2. has'["list"] <=> has["list"]
      BY <2>5
    <3> HIDE DEF n, ListAfter
    <3> QED
      BY <1>1, <1>5, <2>1, <2>5, <3>1, <3>2, NoListThen
  <2>9. n < Len(Rest) => ~IsValue[n + 1]
    <3>1. n > 0 /\ (Rest[n] = "str" => IsValue[n])
      BY <2>1, <2>3, <2>4 DEF Number
    <3> HIDE DEF n
    <3> QED
      BY <1>1, <2>1, <3>1, NextIsNoValue
  <2>10. \A k \in 1 .. n : k > m =>
           \/ Rest[k] \in Options \/ ListWord(k) \/ IsValue[k]
           \/ (Rest[k] = Number /\ k > 1 /\ ReadsAs("int", k - 1))
    <3>1. Rest[m + 1] \in Options
      BY <1>1, <1>3, <1>7
    <3>2. \/ IsValue[m + 2]
          \/ (Rest[m + 2] = Number /\ m + 2 > 1 /\ ReadsAs("int", m + 2 - 1))
      <4>1. m + 2 > 1 /\ m + 2 - 1 = m + 1
        OBVIOUS
      <4> QED
        BY <1>7, <2>3, <2>4, <4>1 DEF ReadsAs
    <3> QED
      BY <2>1, <3>1, <3>2
  <2> HIDE DEF n, OptionsAfter, ListAfter
  <2> QED
    BY <1>1, <1>5, <2>1, <2>5, <2>6, <2>7, <2>8, <2>9, <2>10, OptionRead
<1> QED
  BY <1>8, <1>9 DEF HasValue

(* The words behind a list are one after the other.                          *)
LEMMA WordsBehind ==
  ASSUME NEW m \in Nat, NEW n \in Nat, m < n, ~ListWord(m + 1),
         \A k \in 1 .. n : k > m + 1 => ListWord(k)
  PROVE  /\ \A k \in 1 .. n : IsFiniteSet(Words(k)) /\ Cardinality(Words(k)) \in Nat
         /\ IsFiniteSet(Words(m)) /\ Cardinality(Words(m)) \in Nat
         /\ \A k \in 1 .. n : k > m => Cardinality(Words(k)) = Cardinality(Words(m)) + (k - m - 1)
         /\ \A k \in 1 .. m : ListWord(k) => Cardinality(Words(k)) \in 1 .. Cardinality(Words(m))
<1> HIDE DEF ListWord
<1>1. \A k \in Nat : IsFiniteSet(Words(k)) /\ Cardinality(Words(k)) \in Nat
  <2> TAKE k \in Nat
  <2>1. IsFiniteSet(1 .. k) /\ Words(k) \subseteq 1 .. k
    BY FS_Interval DEF Words
  <2> QED
    BY <2>1, FS_Subset, FS_CardinalityType
<1>2. ASSUME NEW k \in 1 .. n, k > m
      PROVE  Cardinality(Words(k)) = Cardinality(Words(m)) + (k - m - 1)
  <2> DEFINE A == Words(m)
             B == m + 2 .. k
  <2>1. Words(k) = A \cup B
    <3>1. \A i : i \in Words(k) <=> i \in A \/ i \in B
      <4> TAKE i
      <4>1. CASE i \in 1 .. m
        BY <1>2, <4>1 DEF Words
      <4>2. CASE i = m + 1
        BY <1>2, <4>2 DEF Words
      <4>3. CASE i \in m + 2 .. k
        BY <1>2, <4>3 DEF Words
      <4> QED
        BY <1>2, <4>1, <4>2, <4>3 DEF Words
    <3> HIDE DEF A, B
    <3> QED
      BY <3>1
  <2>2. A \cap B = {}
    BY DEF Words
  <2>3. IsFiniteSet(B) /\ Cardinality(B) = k - m - 1
    <3>1. m + 2 \in Int /\ k \in Int /\ (m + 2 > k => k - m - 1 = 0) /\ k - (m + 2) + 1 = k - m - 1
      BY <1>2
    <3>2. IsFiniteSet(B) /\ Cardinality(B) = IF m + 2 > k THEN 0 ELSE k - (m + 2) + 1
      BY <3>1, FS_Interval
    <3> QED
      BY <3>1, <3>2, Zenon
  <2>4. IsFiniteSet(A) /\ Cardinality(A) \in Nat
    BY <1>1
  <2>5. Cardinality({}) = 0
    BY FS_EmptySet
  <2> HIDE DEF A, B
  <2>6. Cardinality(A \cup B) = Cardinality(A) + Cardinality(B) - Cardinality(A \cap B)
    BY <2>3, <2>4, FS_Union
  <2>7. Cardinality(A \cup B) = Cardinality(A) + (k - m - 1) - 0
    BY <2>2, <2>3, <2>5, <2>6, Zenon
  <2>8. Cardinality(A \cup B) = Cardinality(A) + (k - m - 1)
    BY <2>4, <2>7
  <2> QED
    BY <2>1, <2>8, Zenon DEF A
<1>3. ASSUME NEW k \in 1 .. m, ListWord(k) PROVE Cardinality(Words(k)) \in 1 .. Cardinality(Words(m))
  <2>1. Words(k) \subseteq Words(m) /\ k \in Words(k) /\ k \in Nat
    BY <1>3 DEF Words
  <2>2. Cardinality(Words(k)) <= Cardinality(Words(m))
    BY <1>1, <2>1, FS_Subset
  <2>3. Cardinality(Words(k)) # 0
    BY <1>1, <2>1, FS_EmptySet
  <2> QED
    BY <1>1, <2>1, <2>2, <2>3
<1>4. \A k \in 1 .. n : k \in Nat
  OBVIOUS
<1> QED
  BY <1>1, <1>2, <1>3, <1>4

(* A list, which takes the words up to the next option.                      *)
LEMMA ListStep == ArgInv /\ IsList => ArgInv'
<1> SUFFICES ASSUME ArgInv, IsList PROVE ArgInv'
  OBVIOUS
<1>1. /\ parse = "middle" /\ next <= Len(args) /\ args[next] = "list" /\ parse' = parse
      /\ UNCHANGED <<argv, args, front, back>>
      /\ has' = [has EXCEPT !["list"] = (optValue'["list"] # <<>>)]
  BY DEF IsList
<1>2. PICK last \in next .. Len(args) :
          /\ \A k \in next + 1 .. last : args[k] \notin Options
          /\ last < Len(args) => args[last + 1] \in Options
          /\ optValue' = [optValue EXCEPT !["list"] = @ \o SubSeq(args, next + 1, last)]
          /\ next' = last + 1
  BY DEF IsList
<1>3. /\ has \in [Options -> BOOLEAN] /\ optValue \in [Options -> Seq(STRING)]
      /\ \A x \in Options \ {"list"} : Len(optValue[x]) <= 1
      /\ args \in Seq(STRING)
  BY DEF ArgInv, ArgTypes
<1>4. /\ Done \in 0 .. Len(Rest) - 1 /\ Rest[Done + 1] = args[next]
      /\ next = Len(front) + Done + 1 /\ ~IsValue[Done + 1]
      /\ Len(Rest) = Len(args) - Len(front)
  BY <1>1, ReadsNext
<1>5. \A k \in 1 .. Len(Rest) : IsValue[k] <=> (k > 1 /\ Rest[k - 1] = "str" /\ ~IsValue[k - 1])
  BY <1>1, ReadsNext
<1>21. \A k \in 1 .. Len(Rest) : Rest[k] = args[Len(front) + k]
  BY <1>1, ReadsNext
<1> DEFINE F == Len(front)
           L == Len(args)
           R == Len(Rest)
<1>6. F \in Nat /\ L \in Nat /\ R \in Nat
  <2>1. front \in Seq(STRING) /\ Rest \in Seq(STRING)
    BY <1>1, ReadsNext DEF ArgInv, ArgTypes
  <2> QED
    BY <1>3, <2>1
<1>7. PICK m \in Nat : m = Done
  BY <1>4
<1> HIDE DEF IsValue, Done, ListWord, Words
<1>8. m + 1 \in 1 .. R /\ R = L - F /\ next = F + m + 1
  BY <1>4, <1>6, <1>7
<1>9. PICK n \in Nat : last = F + n
  <2>1. last \in next .. L /\ next = F + m + 1
    BY <1>2, <1>8
  <2> HIDE DEF F, L
  <2>2. last - F \in Nat /\ last = F + (last - F)
    BY <1>6, <2>1
  <2> QED
    BY <2>2
<1>10. /\ m < n /\ n <= R /\ m <= n /\ next' = F + n + 1 /\ m + 1 \in 1 .. n
  BY <1>2, <1>6, <1>8, <1>9
<1>11. \A k \in 1 .. R : Rest[k] = args[F + k]
  BY <1>21
<1> HIDE DEF F, L, R, Rest
<1>12. Rest[m + 1] = "list" /\ ~IsValue[m + 1]
  BY <1>1, <1>4, <1>7
<1>13. ASSUME NEW k \in 1 .. n, k > m + 1 PROVE Rest[k] \notin Options /\ k \in 1 .. R
  <2>1. F + k \in next + 1 .. last /\ k \in 1 .. R
    BY <1>6, <1>8, <1>9, <1>10, <1>13
  <2> QED
    BY <1>2, <1>11, <2>1
<1>14. ASSUME NEW k \in 1 .. n, k >= m + 1 PROVE Rest[k] # "str"
  BY <1>12, <1>13, <1>14 DEF Options
<1>15. ASSUME NEW k \in 1 .. n, k > m + 1 PROVE ListWord(k)
  <2>1. ~IsValue[k]
    <3>1. k - 1 \in 1 .. n /\ k - 1 >= m + 1 /\ k \in 1 .. R
      BY <1>13, <1>15
    <3>2. Rest[k - 1] # "str"
      BY <1>14, <3>1
    <3>3. k \in 1 .. Len(Rest)
      BY <3>1 DEF R
    <3> QED
      BY <1>5, <3>2, <3>3
  <2>2. \A j \in 1 .. R : m + 1 < j /\ j <= k => j \in 1 .. n
    BY <1>6, <1>10
  <2>3. \A j \in 1 .. R : m + 1 < j /\ j <= k => Rest[j] \notin Options
    BY <1>13, <2>2
  <2>4. m + 1 \in 1 .. R /\ m + 1 < k
    BY <1>8, <1>15
  <2> QED
    BY <1>12, <2>1, <2>3, <2>4 DEF ListWord, ReadsAs, R
<1>16. ~ListWord(m + 1)
  <2>1. Rest[m + 1] \in Options
    BY <1>12 DEF Options
  <2> QED
    BY <1>8, <2>1 DEF ListWord, R
<1>17. n < Len(Rest) => ~IsValue[n + 1]
  <2>1. n > 0 /\ Rest[n] # "str"
    BY <1>10, <1>14
  <2> QED
    BY <1>1, <2>1, NextIsNoValue
<1>18. /\ SubSeq(args, next + 1, last) \in Seq(STRING) /\ Len(SubSeq(args, next + 1, last)) = n - m - 1
       /\ \A i \in 1 .. n - m - 1 : SubSeq(args, next + 1, last)[i] = args[F + m + 1 + i]
  <2>1. next + 1 = F + m + 2 /\ last = F + n /\ F + n <= Len(args)
    BY <1>2, <1>6, <1>8, <1>9
  <2>2. /\ SubSeq(args, F + m + 2, F + n) \in Seq(STRING)
        /\ Len(SubSeq(args, F + m + 2, F + n)) = n - m - 1
        /\ \A i \in 1 .. n - m - 1 : SubSeq(args, F + m + 2, F + n)[i] = args[F + m + 1 + i]
    BY <1>3, <1>6, <1>10, <2>1
  <2> QED
    BY <2>1, <2>2
<1> DEFINE list == optValue["list"]
           new == SubSeq(args, next + 1, last)
<1>19. /\ optValue' \in [Options -> Seq(STRING)] /\ has' \in [Options -> BOOLEAN]
       /\ optValue'["list"] = list \o new /\ list \in Seq(STRING)
       /\ has'["list"] <=> list \o new # <<>>
       /\ has'["bool"] = has["bool"] /\ has'["int"] = has["int"] /\ has'["str"] = has["str"]
       /\ \A x \in Options \ {"list"} : optValue'[x] = optValue[x]
  <2>1. "list" \in Options /\ "bool" \in Options /\ "int" \in Options /\ "str" \in Options
    BY DEF Options
  <2>2. list \in Seq(STRING) /\ list \o new \in Seq(STRING)
    BY <1>3, <1>18, <2>1, ConcatProperties
  <2>3. optValue' = [optValue EXCEPT !["list"] = list \o new]
    BY <1>2, Zenon
  <2> HIDE DEF list, new
  <2>4. optValue'["list"] = list \o new /\ optValue' \in [Options -> Seq(STRING)]
    BY <1>3, <2>1, <2>2, <2>3
  <2> QED
    BY <1>1, <1>3, <2>1, <2>2, <2>3, <2>4
<1>20. OptionsAfter(n)'
  <2>1. \A k \in 1 .. n : k > m + 1 => \A x \in {"bool", "int", "str"} : ~ReadsAs(x, k)
    BY <1>13 DEF ReadsAs, Options
  <2>2. args[next] \in Options /\ "str" \in Options
    BY <1>1 DEF Options
  <2>3. n <= Len(Rest)
    BY <1>10 DEF R
  <2> HIDE DEF OptionsAfter, list, new
  <2> QED
    BY <1>1, <1>7, <1>10, <1>19, <2>1, <2>2, <2>3, OptionsThen
<1>22. ListAfter(n)'
  <2> DEFINE c == Cardinality(Words(m))
             both == list \o new
  <2>1. /\ \A k \in 1 .. n : IsFiniteSet(Words(k)) /\ Cardinality(Words(k)) \in Nat
        /\ c \in Nat
        /\ \A k \in 1 .. n : k > m => Cardinality(Words(k)) = c + (k - m - 1)
        /\ \A k \in 1 .. m : ListWord(k) => Cardinality(Words(k)) \in 1 .. c
    BY <1>10, <1>15, <1>16, WordsBehind
  <2>2. /\ Len(list) = c
        /\ \A k \in 1 .. m : ListWord(k) => list[Cardinality(Words(k))] = Rest[k]
    BY <1>1, <1>7 DEF ArgInv, MiddleInv, ListAfter
  <2>3. /\ list \in Seq(STRING) /\ new \in Seq(STRING) /\ Len(new) = n - m - 1
        /\ \A i \in 1 .. n - m - 1 : new[i] = args[F + m + 1 + i]
    BY <1>18, <1>19
  <2>4. /\ Rest' = Rest /\ \A k : ListWord(k)' = ListWord(k)
        /\ \A k : Words(k)' = Words(k)
    BY <1>1, ReadBefore
  <2> HIDE DEF list, new, c
  <2>5. /\ both \in Seq(STRING) /\ Len(both) = c + (n - m - 1)
        /\ \A i \in 1 .. c + (n - m - 1) : both[i] = IF i <= c THEN list[i] ELSE new[i - c]
    BY <2>2, <2>3, ConcatProperties
  <2> HIDE DEF both
  <2>6. n \in 1 .. n /\ Len(both) = Cardinality(Words(n))
    BY <1>10, <2>1, <2>5
  <2>7. ASSUME NEW k \in 1 .. n, ListWord(k) PROVE both[Cardinality(Words(k))] = Rest[k]
    <3>1. CASE k \in 1 .. m
      <4> DEFINE i == Cardinality(Words(k))
      <4>1. i \in 1 .. c /\ list[i] = Rest[k]
        BY <2>1, <2>2, <2>7, <3>1
      <4> HIDE DEF i
      <4>2. i \in 1 .. c + (n - m - 1) /\ i <= c
        BY <1>10, <2>1, <4>1
      <4>3. both[i] = list[i]
        BY <2>5, <4>2
      <4> QED
        BY <4>1, <4>3 DEF i
    <3>2. CASE k > m + 1
      <4>1. PICK i \in Nat : i = k - m - 1
        BY <3>2
      <4>2. i \in 1 .. n - m - 1 /\ k \in 1 .. R /\ F + m + 1 + i = F + k
        BY <1>6, <1>13, <3>2, <4>1
      <4>3. Cardinality(Words(k)) = c + i
        BY <2>1, <3>2, <4>1
      <4>4. PICK j \in Nat : j = c + i
        BY <2>1
      <4>5. j \in 1 .. c + (n - m - 1) /\ ~(j <= c) /\ j - c = i
        BY <1>10, <2>1, <4>2, <4>4
      <4>6. both[j] = IF j <= c THEN list[j] ELSE new[j - c]
        BY <2>5, <4>5, Zenon
      <4>7. both[j] = new[i]
        BY <4>5, <4>6, Zenon
      <4>8. new[i] = args[F + k] /\ args[F + k] = Rest[k]
        BY <1>11, <2>3, <4>2
      <4> QED
        BY <4>3, <4>4, <4>7, <4>8
    <3>3. k # m + 1
      BY <1>16, <2>7
    <3>4. k \in 1 .. m \/ k > m + 1
      BY <3>3
    <3> QED
      BY <3>1, <3>2, <3>4, Zenon
  <2>8. has'["list"] <=> \E k \in 1 .. n : ListWord(k)
    <3>1. both # <<>> <=> Len(both) # 0
      BY <2>5, EmptySeq
    <3>2. Cardinality(Words(n)) = 0 <=> Words(n) = {}
      BY <2>1, <2>6, FS_EmptySet
    <3>3. Words(n) = {} <=> ~ \E k \in 1 .. n : ListWord(k)
      BY DEF Words
    <3> QED
      BY <1>19, <2>6, <3>1, <3>2, <3>3, Zenon DEF both
  <2>9. optValue'["list"] = both
    BY <1>19, Zenon DEF both
  <2> QED
    BY <2>4, <2>6, <2>7, <2>8, <2>9, Zenon DEF ListAfter
<1>23. \A k \in 1 .. n : k > m => Rest[k] \in Options \/ ListWord(k)
  <2> TAKE k \in 1 .. n
  <2>1. k > m => k = m + 1 \/ k > m + 1
    OBVIOUS
  <2>2. Rest[m + 1] \in Options
    BY <1>12 DEF Options
  <2> QED
    BY <1>15, <2>1, <2>2
<1>24. \A x \in Options \ {"list"} : Len(optValue'[x]) <= 1
  BY <1>3, <1>19
<1>25. n <= Len(Rest) /\ next' = Len(front) + n + 1
  BY <1>10 DEF R, F
<1> HIDE DEF OptionsAfter, ListAfter, list, new
<1> QED
  BY <1>1, <1>7, <1>10, <1>17, <1>19, <1>20, <1>22, <1>23, <1>24, <1>25, OptionRead

(* What the options have does not depend on what stands behind them.         *)
LEMMA SameMiddle ==
  ASSUME ArgInv, parse = "middle", UNCHANGED <<args, front, has, optValue>>, Done' = Done
  PROVE  MiddleInv'
<1>1. PICK n : n = Done
  OBVIOUS
<1>2. /\ n < Len(Rest) => ~IsValue[n + 1]
      /\ OptionsAfter(n) /\ ListAfter(n)
      /\ \A k \in 1 .. n : Rest[k] \in Options \/ ListWord(k) \/ IsValue[k]
                            \/ (Rest[k] = Number /\ k > 1 /\ ReadsAs("int", k - 1))
  BY <1>1 DEF ArgInv, MiddleInv
<1>3. /\ Rest' = Rest /\ IsValue' = IsValue /\ has' = has /\ optValue' = optValue
      /\ \A k : ListWord(k)' = ListWord(k)
      /\ \A k : Words(k)' = Words(k)
      /\ \A o, k : ReadsAs(o, k)' = ReadsAs(o, k)
  BY ReadBefore
<1> HIDE DEF Rest, IsValue, ListWord, Words, ReadsAs, Done
<1>4. OptionsAfter(n)' /\ ListAfter(n)'
  BY <1>2, <1>3 DEF OptionsAfter, ListAfter
<1>5. Done' = n
  BY <1>1
<1> HIDE DEF OptionsAfter, ListAfter
<1>6. OptionsAfter(Done)' /\ ListAfter(Done)'
  BY <1>4, <1>5, Zenon
<1> QED
  BY <1>2, <1>3, <1>5, <1>6 DEF MiddleInv

(* A word that belongs to no option: it and the rest are left over.          *)
LEMMA UnexpectedStep == ArgInv /\ Unexpected => ArgInv'
<1> SUFFICES ASSUME ArgInv, Unexpected PROVE ArgInv'
  OBVIOUS
<1>1. /\ parse = "middle" /\ next <= Len(args) /\ args[next] \notin Options
      /\ back' = SubSeq(args, next, Len(args)) /\ next' = Len(args) + 1
      /\ UNCHANGED <<argv, args, front, optValue, has, parse>>
  BY DEF Unexpected
<1>2. ArgTypes /\ FrontInv /\ MiddleInv /\ args \in Seq(STRING) /\ front \in Seq(STRING)
      /\ next \in 1 .. Len(args) + 1 /\ Len(front) < next
  BY DEF ArgInv, ArgTypes, FrontInv
<1>3. /\ Done = next - 1 - Len(front)
  BY <1>1, <1>2, ReadsNext DEF Done
<1>4. /\ back' \in Seq(STRING) /\ Len(back') = Len(args) - next + 1 /\ back'[1] = args[next]
      /\ back' # <<>>
  <2>1. Len(args) \in Nat /\ next \in 1 .. Len(args)
    BY <1>1, <1>2
  <2>2. /\ back' \in Seq(STRING) /\ Len(back') = Len(args) - next + 1 /\ back'[1] = args[next]
    BY <1>1, <1>2, <2>1
  <2>3. Len(back') # 0
    BY <2>1, <2>2
  <2> QED
    BY <2>2, <2>3
<1>5. Len(args) - Len(back') = next - 1
  BY <1>2, <1>4
<1>6. Done' = Done
  BY <1>1, <1>3, <1>4, <1>5 DEF Done
<1>7. ArgTypes'
  BY <1>1, <1>2, <1>4 DEF ArgTypes
<1>8. FrontInv'
  BY <1>1, <1>2 DEF FrontInv
<1>9. BackInv'
  <2>1. Len(front) + Len(back') <= Len(args) /\ Len(args) - Len(back') + 1 = next
    BY <1>2, <1>4
  <2> QED
    BY <1>1, <1>4, <2>1 DEF BackInv
<1>10. MiddleInv'
  BY <1>1, <1>6, SameMiddle
<1> QED
  BY <1>7, <1>8, <1>9, <1>10 DEF ArgInv

(* No token is left.                                                         *)
LEMMA EndParseStep == ArgInv /\ EndParse => ArgInv'
<1> SUFFICES ASSUME ArgInv, EndParse PROVE ArgInv'
  OBVIOUS
<1>1. /\ parse = "middle" /\ next > Len(args) /\ parse' = "over"
      /\ UNCHANGED <<argv, args, next, front, back, optValue, has>>
  BY DEF EndParse
<1>2. ArgTypes /\ FrontInv /\ BackInv /\ MiddleInv /\ args \in Seq(STRING) /\ next \in 1 .. Len(args) + 1
  BY DEF ArgInv, ArgTypes
<1>3. ArgTypes'
  BY <1>1, <1>2 DEF ArgTypes
<1>4. FrontInv'
  BY <1>1, <1>2 DEF FrontInv
<1>5. BackInv'
  BY <1>1, <1>2 DEF BackInv
<1>6. Done' = Done
  BY <1>1 DEF Done
<1>7. MiddleInv'
  BY <1>1, <1>6, SameMiddle
<1> QED
  BY <1>3, <1>4, <1>5, <1>7 DEF ArgInv

(* Every step of parse() keeps the invariant.                                *)
LEMMA ArgStep == ArgInv /\ (ArgNext \/ UNCHANGED argVars) => ArgInv'
<1>1. ASSUME ArgInv, UNCHANGED argVars PROVE ArgInv'
  <2>1. UNCHANGED <<argv, args, next, front, back, optValue, has, parse>>
    BY <1>1 DEF argVars
  <2>2. /\ Done' = Done /\ Rest' = Rest /\ IsValue' = IsValue
        /\ \A k : ListWord(k)' = ListWord(k) /\ Words(k)' = Words(k)
        /\ \A o, k : ReadsAs(o, k)' = ReadsAs(o, k)
    BY <2>1, ReadBefore DEF Done
  <2>3. ArgTypes' /\ FrontInv' /\ BackInv'
    BY <1>1, <2>1 DEF ArgInv, ArgTypes, FrontInv, BackInv
  <2>4. MiddleInv'
    BY <1>1, <2>1, <2>2 DEF ArgInv, MiddleInv, OptionsAfter, ListAfter
  <2> QED
    BY <2>3, <2>4 DEF ArgInv
<1> QED
  BY <1>1, FlattenStep, TakeFrontStep, UnexpectedStep, BoolStep, ListStep, EndParseStep, ValueStep DEF ArgNext

(* With the invariant every token is used once.                              *)
LEMMA ArgIs == ArgInv => ArgParserCorrect
<1> SUFFICES ASSUME ArgInv PROVE ArgParserCorrect
  OBVIOUS
<1>1. ArgTypes /\ FrontInv /\ BackInv
  BY DEF ArgInv
<1>2. ArgTypeOK
  BY <1>1 DEF ArgTypes, ArgTypeOK
<1> SUFFICES ASSUME parse = "over" PROVE EveryTokenOnce
  BY <1>2 DEF ArgParserCorrect, EveryTokenOnce
<1>3. /\ Done \in 0 .. Len(Rest) /\ Len(Middle) = Done /\ DOMAIN Middle = 1 .. Done
      /\ \A k \in 1 .. Done : Middle[k] = Rest[k]
      /\ \A k \in 1 .. Done : Swallowed[k] <=> IsValue[k]
      /\ args = front \o Middle \o back
  BY <1>1, MiddleIs
<1>4. PICK n \in Nat : n = Done
  <2>1. Len(Rest) \in Nat
    BY <1>1, RestIs DEF ArgTypes, FrontInv
  <2> HIDE DEF Rest, Done
  <2> QED
    BY <1>3, <2>1
<1>5. /\ OptionsAfter(n) /\ ListAfter(n)
      /\ \A k \in 1 .. n : Rest[k] \in Options \/ ListWord(k) \/ IsValue[k]
                            \/ (Rest[k] = Number /\ k > 1 /\ ReadsAs("int", k - 1))
  BY <1>4 DEF ArgInv, MiddleInv
<1>6. n <= Len(Rest) /\ Len(Rest) \in Nat
  BY <1>3, <1>4
<1>7. /\ DOMAIN Middle = 1 .. n /\ \A k \in 1 .. n : Middle[k] = Rest[k]
      /\ \A k \in 1 .. n : Swallowed[k] <=> IsValue[k]
  BY <1>3, <1>4
<1> HIDE DEF Middle, Swallowed, Rest, IsValue, Done
<1>8. \A o : \A k \in 1 .. n : k \in Read(o) <=> ReadsAs(o, k)
  BY <1>7 DEF Read, ReadsAs
<1>9. \A o : Read(o) \subseteq 1 .. n
  BY <1>7 DEF Read
<1>10. ASSUME NEW k \in 1 .. n PROVE InList(k) <=> ListWord(k)
  <2>1. \A l \in 1 .. n : \A j \in l + 1 .. k : j \in 1 .. n
    OBVIOUS
  <2>2. \A l \in Read("list") : (l < k /\ \A j \in l + 1 .. k : Middle[j] \notin Options)
          <=> (l < k /\ \A j \in 1 .. Len(Rest) : l < j /\ j <= k => Rest[j] \notin Options)
    <3> TAKE l \in Read("list")
    <3>1. l \in 1 .. n
      BY <1>9
    <3>2. \A j : j \in l + 1 .. k <=> j \in 1 .. Len(Rest) /\ l < j /\ j <= k
      BY <1>6, <3>1
    <3> QED
      BY <1>7, <2>1, <3>1, <3>2
  <2>3. \A l \in 1 .. Len(Rest) : l < k => l \in 1 .. n
    BY <1>6
  <2>4. 1 .. n \subseteq 1 .. Len(Rest)
    BY <1>6
  <2> QED
    BY <1>7, <1>8, <1>9, <2>2, <2>3, <2>4 DEF InList, ListWord
<1>11. {k \in DOMAIN Middle : InList(k)} = Words(n)
  BY <1>7, <1>10 DEF Words
<1>12. \A k \in 1 .. n : {j \in 1 .. k : InList(j)} = Words(k)
  <2> TAKE k \in 1 .. n
  <2>1. \A j \in 1 .. k : j \in 1 .. n
    OBVIOUS
  <2> QED
    BY <1>10, <2>1 DEF Words
<1> HIDE DEF InList, ListWord, Words, ReadsAs, Read
<1>13. \A k \in 1 .. n : k + 1 \in DOMAIN Middle <=> k < n
  BY <1>7
<1>14. \A k \in 1 .. n : k < n => Middle[k + 1] = Rest[k + 1]
  <2> TAKE k \in 1 .. n
  <2>1. k < n => k + 1 \in 1 .. n
    OBVIOUS
  <2> QED
    BY <1>7, <2>1
<1>15. /\ \A k \in DOMAIN front : front[k] \notin Options
       /\ Len(front) < Len(args) => args[Len(front) + 1] \in Options
       /\ back # <<>> => back[1] \notin Options
  <2>1. DOMAIN front = 1 .. Len(front) /\ \A k \in 1 .. Len(front) : front[k] = args[k]
    <3>1. front \in Seq(STRING) /\ Len(front) < next /\ next \in 1 .. Len(args) + 1 /\ args \in Seq(STRING)
      BY <1>1 DEF ArgTypes, FrontInv
    <3>2. front = SubSeq(args, 1, Len(front)) /\ Len(front) <= Len(args) /\ Len(front) \in Nat
      BY <1>1, <3>1 DEF FrontInv
    <3> QED
      BY <3>1, <3>2
  <2> QED
    BY <1>1, <2>1 DEF FrontInv, BackInv
<1>16. /\ has["bool"] <=> Read("bool") # {}
       /\ has["int"] <=> \E k \in Read("int") : k + 1 \in DOMAIN Middle /\ Middle[k + 1] = Number
       /\ has["str"] <=> \E k \in Read("str") : k + 1 \in DOMAIN Middle
  <2>1. has["bool"] <=> Read("bool") # {}
    BY <1>5, <1>8, <1>9 DEF OptionsAfter
  <2>2. has["int"] <=> \E k \in Read("int") : k + 1 \in DOMAIN Middle /\ Middle[k + 1] = Number
    BY <1>5, <1>8, <1>9, <1>13, <1>14 DEF OptionsAfter
  <2>3. has["str"] <=> \E k \in Read("str") : k + 1 \in DOMAIN Middle
    BY <1>5, <1>8, <1>9, <1>13 DEF OptionsAfter
  <2> QED
    BY <2>1, <2>2, <2>3
<1>17. \A k \in Read("str") : k + 1 \in DOMAIN Middle =>
            \/ optValue["str"] = <<Middle[k + 1]>>
            \/ \E l \in Read("str") : l > k /\ l + 1 \in DOMAIN Middle
  BY <1>5, <1>8, <1>9, <1>13, <1>14 DEF OptionsAfter
<1>18. /\ has["list"] <=> \E k \in DOMAIN Middle : InList(k)
       /\ Len(optValue["list"]) = Cardinality({k \in DOMAIN Middle : InList(k)})
       /\ \A k \in DOMAIN Middle : InList(k) =>
            optValue["list"][Cardinality({j \in 1 .. k : InList(j)})] = Middle[k]
  <2>1. has["list"] <=> \E k \in DOMAIN Middle : InList(k)
    BY <1>5, <1>7, <1>10, Zenon DEF ListAfter
  <2>2. Len(optValue["list"]) = Cardinality({k \in DOMAIN Middle : InList(k)})
    BY <1>5, <1>11, Zenon DEF ListAfter
  <2>3. ASSUME NEW k \in DOMAIN Middle, InList(k)
        PROVE  optValue["list"][Cardinality({j \in 1 .. k : InList(j)})] = Middle[k]
    <3>1. k \in 1 .. n /\ ListWord(k) /\ Middle[k] = Rest[k]
      BY <1>7, <1>10, <2>3
    <3>2. {j \in 1 .. k : InList(j)} = Words(k)
      BY <1>12, <3>1
    <3>3. optValue["list"][Cardinality(Words(k))] = Rest[k]
      BY <1>5, <3>1, Zenon DEF ListAfter
    <3> QED
      BY <3>1, <3>2, <3>3, Zenon
  <2> QED
    BY <2>1, <2>2, <2>3, Zenon
<1>19. \A k \in DOMAIN Middle : Middle[k] \in Options \/ InList(k) \/ Swallowed[k]
            \/ (Middle[k] = Number /\ k - 1 \in Read("int"))
  <2> TAKE k \in DOMAIN Middle
  <2>1. k \in 1 .. n /\ (k > 1 => k - 1 \in 1 .. n)
    BY <1>7
  <2> QED
    BY <1>5, <1>7, <1>8, <1>10, <2>1
<1> QED
  BY <1>3, <1>15, <1>16, <1>17, <1>18, <1>19, Zenon DEF EveryTokenOnce

(* The argument parser uses every token once, and gives each option the      *)
(* value that the words behind it make.                                      *)
THEOREM ArgumentsOnce == ArgSpec => []ArgParserCorrect
<1> QED
  BY ArgInitInv, ArgStep, ArgIs, PTL DEF ArgSpec
==============================================================================
