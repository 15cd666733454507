--------------------------- MODULE WhenAllProofs ----------------------------
(***************************************************************************)
(* when_all() counts its wrappers exactly, is resumed at most once and     *)
(* implements Gather, for every number of children and whichever of them   *)
(* may suspend. WhenAllInv is not inductive: IInv adds how far the launch  *)
(* loop has come, what each wrapper has stored by then, and who still may  *)
(* read the continuation.                                                  *)
(***************************************************************************)
EXTENDS WhenAll, FiniteSetTheorems, TLAPS

Over == {"ready", "suspend", "suspended", "result", "cleanup", "done"}

\* The launch loop: wrappers before next were resumed, those after it were
\* not, and every one but the last resumed has returned to the loop.
LaunchInv ==
    /\ \A i \in Children : wrapper[i] # "created" => i <= next
    /\ \A i \in Children : i < next => wrapper[i] = "final" \/ host[i] = "own"
    /\ \A i \in Children : i < next \/ host[i] = "own" => wrapper[i] # "created"
    /\ body = "start" => next = 1 /\ \A i \in Children : wrapper[i] = "created"
    /\ body = "launch" => next \in Children
    /\ body \in Over => N = 0 \/ next = N + 1

\* What a child has left behind once its wrapper is past the try block.
StoredInv ==
    /\ \A i \in Children :
          wrapper[i] \in {"created", "child"} <=> outcome[i] = "none"
    /\ \A i \in Children : i \in results <=> outcome[i] = "value"
    /\ exception # 0 <=> \E i \in Children : outcome[i] = "error"

\* The one wrapper that found itself the last, and the state it finds.
LastInv ==
    /\ \A i \in Children : wrapper[i] = "load" => Uncounted = {} /\ resumed = 0
    /\ \A i, j \in Children : wrapper[i] = "load" /\ wrapper[j] = "load" => i = j
    /\ resumed > 0 => Uncounted = {}

\* The continuation is set by a body that suspends, and read once.
ResumeInv ==
    /\ resumed \in {0, 1}
    /\ resumers \in {0, 1}
    /\ resumers = 1 => resumed = 1
    /\ continuation => body \in {"suspended", "result", "cleanup", "done"}
    /\ body = "suspended" => continuation
    /\ body = "suspended" /\ resumed = 1 => resumers = 1
    /\ continuation /\ body # "suspended" => resumed = 1 /\ resumers = 0
    /\ ~continuation => resumed = 0
    /\ body \in {"result", "cleanup", "done"} => Uncounted = {}

\* The verdict is the one that the outcomes call for.
VerdictInv ==
    /\ verdict = "none" <=> body \notin {"cleanup", "done"}
    /\ verdict = "error" <=> exception # 0 /\ body \in {"cleanup", "done"}

IInv ==
    /\ TypeOK
    /\ CountExact
    /\ LaunchInv
    /\ StoredInv
    /\ LastInv
    /\ ResumeInv
    /\ VerdictInv

USE NAssumption, AsyncAssumption

-----------------------------------------------------------------------------
(* What has not been counted down can be counted.                            *)
LEMMA ChildrenFinite == IsFiniteSet(Uncounted) /\ Cardinality(Uncounted) \in Nat
<1>1. IsFiniteSet(Children) /\ Uncounted \subseteq Children
  BY FS_Interval DEF Children, Uncounted
<1> QED
  BY <1>1, FS_Subset, FS_CardinalityType

(* Only the fetch_sub changes the set of wrappers that are not yet counted.  *)
LEMMA UncountedStep ==
    ASSUME TypeOK, [Next]_vars
    PROVE  \/ Uncounted' = Uncounted /\ \A i \in Children : ~FetchSub(i)
           \/ \E i \in Children : /\ FetchSub(i)
                                 /\ i \in Uncounted
                                 /\ Uncounted' = Uncounted \ {i}
<1> USE DEF TypeOK, Uncounted
<1>1. CASE \E i \in Children : FetchSub(i)
  <2>1. PICK i \in Children : FetchSub(i)
    BY <1>1
  <2>2. \A j \in Children : wrapper'[j] = IF j = i THEN wrapper'[i] ELSE wrapper[j]
    BY <2>1 DEF FetchSub
  <2>3. i \in Uncounted /\ wrapper'[i] \notin {"created", "child", "sub"}
    BY <2>1 DEF FetchSub
  <2> QED
    BY <2>1, <2>2, <2>3
<1>2. CASE \A i \in Children : ~FetchSub(i)
  <2>1. CASE UNCHANGED wrapper
    BY <1>2, <2>1
  <2>2. CASE Launch
    BY <1>2, <2>2 DEF Launch
  <2>3. ASSUME NEW i \in Children, Complete(i) \/ Load(i) \/ FinalSuspend(i)
        PROVE  Uncounted' = Uncounted
    BY <2>3 DEF Complete, Load, FinalSuspend
  <2> QED
    BY <1>2, <2>1, <2>2, <2>3
    DEF Next, vars, BodyStep, WrapperStep, Begin, Launched, AwaitReady, AwaitSuspend,
        AwaitResume, Cleanup, Resume, SuspendChild
<1> QED
  BY <1>1, <1>2

(* The counter is exact: it is the number of wrappers not yet subtracted.    *)
LEMMA CountStep ==
    ASSUME IInv, [Next]_vars
    PROVE  CountExact' /\ remaining' \in 0 .. N
<1> USE DEF IInv, CountExact
<1>1. CASE Begin
  <2>1. N # 0 => Cardinality(Uncounted') = N
    <3>1. Uncounted' = Children
      BY <1>1 DEF Begin, Uncounted, LaunchInv
    <3> QED
      BY <3>1, FS_Interval DEF Children
  <2>2. N = 0 => Cardinality(Uncounted') = 0
    <3>1. N = 0 => Uncounted' = {}
      BY DEF Uncounted, Children
    <3> QED
      BY <3>1, FS_EmptySet
  <2>3. N = 0 => remaining' = 0
    BY <1>1 DEF Begin, TypeOK
  <2> QED
    BY <1>1, <2>1, <2>2, <2>3 DEF Begin
<1>2. ASSUME NEW i \in Children, FetchSub(i)
      PROVE  CountExact' /\ remaining' \in 0 .. N
  <2>1. i \in Uncounted /\ Uncounted' = Uncounted \ {i}
    <3>1. PICK j \in Children : FetchSub(j) /\ j \in Uncounted /\ Uncounted' = Uncounted \ {j}
      BY <1>2, UncountedStep
    <3>2. wrapper'[i] \notin {"created", "child", "sub"} /\ wrapper[i] = "sub"
      BY <1>2 DEF FetchSub, TypeOK
    <3> QED
      BY <3>1, <3>2 DEF Uncounted
  <2>2. Cardinality(Uncounted') = Cardinality(Uncounted) - 1
    BY <2>1, ChildrenFinite, FS_RemoveElement
  <2>3. Cardinality(Uncounted) # 0 /\ Cardinality(Uncounted) \in Nat
    BY <2>1, ChildrenFinite, FS_EmptySet
  <2>4. body # "start"
    BY <1>2 DEF FetchSub, LaunchInv
  <2>5. remaining = Cardinality(Uncounted) /\ body' = body /\ remaining' = remaining - 1
    BY <1>2, <2>4 DEF FetchSub
  <2> QED
    BY <2>2, <2>3, <2>5 DEF TypeOK
<1>3. CASE ~Begin /\ \A i \in Children : ~FetchSub(i)
  <2>1. Uncounted' = Uncounted
    BY <1>3, UncountedStep
  <2>2. remaining' = remaining /\ (body' # "start" => body # "start")
    <3>1. CASE Resume
      BY <3>1 DEF Resume, ResumeInv, TypeOK
    <3> QED
      BY <1>3, <3>1
      DEF Next, vars, BodyStep, WrapperStep, Launch, Launched, AwaitReady, AwaitSuspend,
          AwaitResume, Cleanup, SuspendChild, Complete, Load, FinalSuspend
  <2> QED
    BY <2>1, <2>2 DEF TypeOK
<1> QED
  BY <1>1, <1>2, <1>3

-----------------------------------------------------------------------------
(* Every variable but the counter keeps its type; the counter is the matter  *)
(* of CountStep.                                                             *)
LEMMA TypeStep ==
    ASSUME IInv, [Next]_vars
    PROVE  TypeOK'
<1> USE DEF TypeOK
<1>1. remaining' \in 0 .. N
  BY CountStep
<1>2. TypeOK
  BY DEF IInv
<1>3. CASE UNCHANGED vars
  BY <1>2, <1>3 DEF vars
<1>4. CASE BodyStep \/ Resume
  <2>1. CASE Begin
    BY <1>1, <1>2, <2>1 DEF Begin
  <2>2. CASE Launch
    BY <1>2, <2>2 DEF Launch
  <2>3. CASE Launched
    BY <1>2, <2>3 DEF Launched, Children
  <2>4. CASE AwaitReady \/ AwaitSuspend \/ AwaitResume \/ Cleanup
    BY <1>2, <2>4 DEF AwaitReady, AwaitSuspend, AwaitResume, Cleanup
  <2>5. CASE Resume
    BY <1>2, <2>5 DEF Resume
  <2> QED
    BY <1>4, <2>1, <2>2, <2>3, <2>4, <2>5 DEF BodyStep
<1>5. ASSUME NEW i \in Children, SuspendChild(i) \/ WrapperStep(i)
      PROVE  TypeOK'
  <2>1. CASE Complete(i)
    BY <1>2, <2>1 DEF Complete
  <2>2. CASE FetchSub(i)
    BY <1>1, <1>2, <2>2 DEF FetchSub
  <2>3. CASE SuspendChild(i) \/ Load(i) \/ FinalSuspend(i)
    BY <1>2, <2>3 DEF SuspendChild, Load, FinalSuspend
  <2> QED
    BY <1>5, <2>1, <2>2, <2>3 DEF WrapperStep
<1> QED
  BY <1>3, <1>4, <1>5 DEF Next

(* The launch loop and what the wrappers store.                              *)
LEMMA LaunchStep ==
    ASSUME IInv, [Next]_vars
    PROVE  LaunchInv' /\ StoredInv'
<1> USE DEF IInv, TypeOK, LaunchInv, StoredInv, Over
<1>1. CASE UNCHANGED vars
  BY <1>1 DEF vars
<1>2. CASE Begin
  BY <1>2 DEF Begin, Children
<1>3. CASE Launch
  BY <1>3 DEF Launch
<1>4. CASE Launched
  BY <1>4 DEF Launched, Children
<1>5. CASE AwaitReady \/ AwaitSuspend \/ AwaitResume \/ Cleanup
  BY <1>5 DEF AwaitReady, AwaitSuspend, AwaitResume, Cleanup
<1>6. CASE Resume
  <2>1. body = "suspended"
    BY <1>6 DEF Resume, ResumeInv
  <2> QED
    BY <1>6, <2>1 DEF Resume
<1>7. ASSUME NEW i \in Children, Complete(i)
      PROVE  LaunchInv' /\ StoredInv'
  <2>1. outcome[i] = "none"
    BY <1>7 DEF Complete
  <2>2. LaunchInv'
    BY <1>7 DEF Complete
  <2>3. PICK r \in {"value", "error"} :
           /\ outcome' = [outcome EXCEPT ![i] = r]
           /\ IF r = "value"
                THEN results' = results \cup {i} /\ UNCHANGED exception
                ELSE exception' = i /\ UNCHANGED results
    BY <1>7 DEF Complete
  <2>4. i # 0
    BY DEF Children
  <2>5. wrapper' = [wrapper EXCEPT ![i] = "sub"] /\ wrapper[i] = "child"
    BY <1>7 DEF Complete
  <2>6. \A j \in Children : outcome'[j] = IF j = i THEN r ELSE outcome[j]
    BY <2>3
  <2>7. \A j \in Children : wrapper'[j] \in {"created", "child"} <=> outcome'[j] = "none"
    BY <2>5, <2>6
  <2>8. \A j \in Children : j \in results' <=> outcome'[j] = "value"
    BY <2>1, <2>3, <2>6
  <2>9. exception' # 0 <=> \E j \in Children : outcome'[j] = "error"
    BY <2>1, <2>3, <2>4, <2>6
  <2> QED
    BY <2>2, <2>7, <2>8, <2>9
<1>8. ASSUME NEW i \in Children, SuspendChild(i) \/ FetchSub(i) \/ Load(i) \/ FinalSuspend(i)
      PROVE  LaunchInv' /\ StoredInv'
  BY <1>8 DEF SuspendChild, FetchSub, Load, FinalSuspend
<1> QED
  BY <1>1, <1>2, <1>3, <1>4, <1>5, <1>6, <1>7, <1>8 DEF Next, BodyStep, WrapperStep

(* One wrapper at most finds the counter at one, so one thread at most is    *)
(* started, and only for a body that has suspended.                          *)
LEMMA ResumeStep ==
    ASSUME IInv, [Next]_vars
    PROVE  LastInv' /\ ResumeInv'
<1>1. ASSUME NEW i \in Children, FetchSub(i)
      PROVE  LastInv' /\ ResumeInv'
  <2>1. wrapper[i] = "sub" /\ i \in Uncounted
    BY <1>1 DEF FetchSub, Uncounted
  <2>2. \A j \in Children : wrapper[j] # "load"
    BY <2>1 DEF IInv, LastInv
  <2>3. resumed = 0
    BY <2>1 DEF IInv, LastInv, ResumeInv
  <2>4. Uncounted' = Uncounted \ {i}
    <3>1. PICK j \in Children : FetchSub(j) /\ j \in Uncounted /\ Uncounted' = Uncounted \ {j}
      BY <1>1, UncountedStep DEF IInv
    <3>2. wrapper'[i] \notin {"created", "child", "sub"}
      BY <1>1 DEF FetchSub, IInv, TypeOK
    <3> QED
      BY <2>1, <3>1, <3>2 DEF Uncounted
  <2>5. remaining = 1 => Uncounted' = {}
    <3>1. remaining = Cardinality(Uncounted)
      BY <1>1 DEF FetchSub, IInv, LaunchInv, CountExact
    <3>2. Cardinality(Uncounted') = Cardinality(Uncounted) - 1 /\ IsFiniteSet(Uncounted')
      BY <2>1, <2>4, ChildrenFinite, FS_RemoveElement
    <3> QED
      BY <3>1, <3>2, FS_EmptySet
  <2>6. \A j \in Children : wrapper'[j] = "load" => j = i /\ remaining = 1
    BY <1>1, <2>2 DEF FetchSub, IInv, TypeOK
  <2>7. LastInv'
    BY <1>1, <2>3, <2>5, <2>6 DEF FetchSub, LastInv
  <2>8. ResumeInv'
    BY <1>1, <2>1, <2>3, <2>4 DEF FetchSub, IInv, ResumeInv
  <2> QED
    BY <2>7, <2>8
<1>2. CASE \A i \in Children : ~FetchSub(i)
  <2> USE DEF IInv, TypeOK, LastInv, ResumeInv
  <2>1. Uncounted' = Uncounted
    BY <1>2, UncountedStep
  <2>2. CASE UNCHANGED vars
    BY <2>1, <2>2 DEF vars
  <2>3. CASE Begin
    <3>1. N = 0 => Uncounted = {}
      BY DEF Uncounted, Children
    <3> QED
      BY <2>1, <2>3, <3>1 DEF Begin
  <2>4. CASE Launch
    BY <2>1, <2>4 DEF Launch
  <2>5. CASE Launched
    BY <2>1, <2>5 DEF Launched
  <2>6. CASE AwaitReady
    <3>1. remaining = 0 => Uncounted = {}
      BY <2>6, ChildrenFinite, FS_EmptySet DEF AwaitReady, CountExact
    <3> QED
      BY <2>1, <2>6, <3>1 DEF AwaitReady
  <2>7. CASE AwaitSuspend
    BY <2>1, <2>7 DEF AwaitSuspend
  <2>8. CASE AwaitResume
    BY <2>1, <2>8 DEF AwaitResume
  <2>9. CASE Cleanup
    BY <2>1, <2>9 DEF Cleanup
  <2>10. CASE Resume
    BY <2>1, <2>10 DEF Resume
  <2>11. ASSUME NEW i \in Children, SuspendChild(i) \/ Complete(i) \/ FinalSuspend(i)
         PROVE  LastInv' /\ ResumeInv'
    BY <2>1, <2>11 DEF SuspendChild, Complete, FinalSuspend
  <2>12. ASSUME NEW i \in Children, Load(i)
         PROVE  LastInv' /\ ResumeInv'
    <3>1. Uncounted = {} /\ resumed = 0 /\ resumers = 0
      BY <2>12 DEF Load
    <3>2. \A j \in Children : wrapper'[j] # "load"
      BY <2>12 DEF Load
    <3> QED
      BY <2>1, <2>12, <3>1, <3>2 DEF Load
  <2> QED
    BY <1>2, <2>2, <2>3, <2>4, <2>5, <2>6, <2>7, <2>8, <2>9, <2>10, <2>11, <2>12
    DEF Next, BodyStep, WrapperStep
<1> QED
  BY <1>1, <1>2

(* The verdict is given once, after the last child.                          *)
LEMMA VerdictStep ==
    ASSUME IInv, [Next]_vars
    PROVE  VerdictInv'
<1> USE DEF IInv, TypeOK, VerdictInv
<1>1. CASE Begin
  <2>1. N = 0 => exception = 0
    BY DEF StoredInv, Children
  <2> QED
    BY <1>1, <2>1 DEF Begin
<1>2. ASSUME NEW i \in Children, Complete(i)
      PROVE  VerdictInv'
  <2>1. body \notin {"cleanup", "done"}
    BY <1>2 DEF Complete, ResumeInv, Uncounted
  <2> QED
    BY <1>2, <2>1 DEF Complete
<1>3. CASE AwaitResume \/ Cleanup
  BY <1>3 DEF AwaitResume, Cleanup
<1>4. CASE Resume
  <2>1. body = "suspended"
    BY <1>4 DEF Resume, ResumeInv
  <2> QED
    BY <1>4, <2>1 DEF Resume
<1>5. CASE UNCHANGED vars
  BY <1>5 DEF vars
<1>6. CASE Launch \/ Launched \/ AwaitReady \/ AwaitSuspend
  BY <1>6 DEF Launch, Launched, AwaitReady, AwaitSuspend
<1>7. ASSUME NEW i \in Children, SuspendChild(i) \/ FetchSub(i) \/ Load(i) \/ FinalSuspend(i)
      PROVE  VerdictInv'
  BY <1>7 DEF SuspendChild, FetchSub, Load, FinalSuspend
<1> QED
  BY <1>1, <1>2, <1>3, <1>4, <1>5, <1>6, <1>7 DEF Next, BodyStep, WrapperStep

-----------------------------------------------------------------------------
(* Before when_all is called the invariant holds.                            *)
LEMMA IInvInit == Init => IInv
<1> SUFFICES ASSUME Init PROVE IInv
  OBVIOUS
<1>1. TypeOK
  <2>1. 1 \in 1 .. N + 1 /\ 0 \in 0 .. N
    OBVIOUS
  <2>2. \A i \in Children : wrapper[i] = "created" /\ host[i] = "body" /\ outcome[i] = "none"
    BY DEF Init
  <2> QED
    BY <2>1, <2>2 DEF Init, TypeOK
<1>2. CountExact /\ LastInv /\ ResumeInv /\ VerdictInv
  BY DEF Init, CountExact, LastInv, ResumeInv, VerdictInv
<1>3. LaunchInv
  BY DEF Init, LaunchInv, Over, Children
<1>4. StoredInv
  BY DEF Init, StoredInv
<1> QED
  BY <1>1, <1>2, <1>3, <1>4 DEF IInv

(* The invariant that carries the others. *)
THEOREM Invariance == Spec => []IInv
<1>1. IInv /\ [Next]_vars => IInv'
  BY TypeStep, CountStep, LaunchStep, ResumeStep, VerdictStep DEF IInv
<1> QED
  BY <1>1, IInvInit, PTL DEF Spec

(* Whatever the order in which the children end and on which threads, the    *)
(* coroutine is resumed at most once, with every result there.               *)
THEOREM WhenAllCorrect == Spec => []WhenAllInv
<1> SUFFICES IInv => WhenAllInv
  BY Invariance, PTL
<1> SUFFICES ASSUME IInv PROVE WhenAllInv
  OBVIOUS
<1>1. OneLast
  <2> DEFINE L == {i \in Children : wrapper[i] = "load"}
  <2>1. L = {} \/ \E i \in L : L = {i}
    BY DEF IInv, LastInv
  <2>2. Cardinality(L) \in {0, 1}
    BY <2>1, FS_EmptySet, FS_Singleton
  <2> QED
    BY <2>2 DEF OneLast
<1>2. ValuesComplete
  BY DEF ValuesComplete, IInv, TypeOK, VerdictInv, StoredInv, ResumeInv, Uncounted
<1>3. ResumedOnce
  BY DEF ResumedOnce, IInv, TypeOK, ResumeInv
<1>4. InlineFrameSafe
  BY DEF InlineFrameSafe, IInv, LaunchInv, Over, Children
<1> QED
  BY <1>1, <1>2, <1>3, <1>4 DEF IInv, WhenAllInv, CountInv

-----------------------------------------------------------------------------
(* Before when_all is called nothing was gathered.                           *)
LEMMA AbstractInit == Init => Abstract!Init
  BY DEF Init, Abstract!Init

(* Each step is one of Gather, or changes nothing that Gather knows of.      *)
LEMMA AbstractStep ==
    ASSUME IInv, [Next]_vars
    PROVE  [Abstract!Next]_(Abstract!vars)
<1>1. CASE UNCHANGED <<outcome, verdict>>
  BY <1>1 DEF Abstract!vars
<1>2. ASSUME NEW i \in Children, Complete(i)
      PROVE  \E r \in {"value", "error"} : Abstract!Finish(i, r)
  <2>1. outcome[i] = "none"
    BY <1>2 DEF Complete, IInv, StoredInv
  <2> QED
    BY <1>2, <2>1 DEF Complete, Abstract!Finish
<1>3. CASE AwaitResume
  <2>1. verdict = "none" /\ \A i \in Children : outcome[i] # "none"
    BY <1>3 DEF AwaitResume, IInv, TypeOK, VerdictInv, StoredInv, ResumeInv, Uncounted
  <2>2. verdict' = IF \E i \in Children : outcome[i] = "error" THEN "error" ELSE "value"
    BY <1>3 DEF AwaitResume, IInv, StoredInv
  <2> QED
    BY <1>3, <2>1, <2>2 DEF AwaitResume, Abstract!Complete, Abstract!Next
<1>4. CASE Begin /\ N = 0
  <2>1. Children = {}
    BY <1>4 DEF Children
  <2> QED
    BY <1>4, <2>1 DEF Begin, IInv, VerdictInv, Abstract!Complete, Abstract!Next
<1>5. CASE Begin /\ N # 0
  BY <1>5 DEF Begin, Abstract!vars
<1> QED
  BY <1>1, <1>2, <1>3, <1>4, <1>5
  DEF Next, vars, BodyStep, WrapperStep, Launch, Launched, AwaitReady, AwaitSuspend,
      Cleanup, Resume, SuspendChild, FetchSub, Load, FinalSuspend, Abstract!Next

(* when_all() implements Gather: one verdict, after every child, an error    *)
(* exactly if a child failed.                                                *)
THEOREM RefinesGather == Spec => ImplementsGather
<1>1. IInv /\ [Next]_vars => [Abstract!Next]_(Abstract!vars)
  BY AbstractStep
<1> QED
  BY <1>1, AbstractInit, Invariance, PTL DEF Spec, ImplementsGather, Abstract!Spec
=============================================================================
