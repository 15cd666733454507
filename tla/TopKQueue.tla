----------------------------- MODULE TopKQueue ------------------------------
(***************************************************************************)
(* include/skutils/containers/topk_queue.h: topbottomk_queue, two bounded  *)
(* priority queues to which the threads of ducpp push. Each queue has a    *)
(* spin lock that is held for the whole of its push() and pop(), which are *)
(* one step each; topbottomk_queue has none of its own, and its push() is  *)
(* two steps. A priority queue is a bag: how often each value is in it.    *)
(***************************************************************************)
EXTENDS Integers, FiniteSets, Sequences

CONSTANTS
    Pushers,    \* threads
    TopValues,  \* what they push, integers
    Cap,        \* cap of both queues, at least 1: push() to a queue of capacity
                \*   0 reads the top of an empty one
    MaxPushes,  \* bound on the pushes
    Idle        \* the value of a thread that is not in push()

ASSUME TopAssumption ==
    /\ TopValues \subseteq Int /\ IsFiniteSet(TopValues)
    /\ Cap \in Nat \ {0}
    /\ MaxPushes \in Nat
    /\ Idle \notin TopValues

VARIABLES
    maxQueue,   \* max_queue, which keeps the greatest
    minQueue,   \* min_queue, which keeps the least
    pushing,    \* the value each thread has pushed to max_queue and not
                \*   yet to min_queue, or Idle
    pushes,     \* how many pushes were begun
    intoMax,    \* history: what went into max_queue since it was emptied
    intoMin     \* history: what went into min_queue since it was emptied

topVars == <<maxQueue, minQueue, pushing, pushes, intoMax, intoMin>>

EmptyBag == [v \in TopValues |-> 0]
In(bag) == {v \in TopValues : bag[v] > 0}
Add(bag, v) == [bag EXCEPT ![v] = @ + 1]
Remove(bag, v) == [bag EXCEPT ![v] = @ - 1]

\* How many elements a bag has.
Size(bag) ==
    LET sum[S \in SUBSET TopValues] ==
          IF S = {} THEN 0
          ELSE LET v == CHOOSE x \in S : TRUE IN bag[v] + sum[S \ {v}]
    IN sum[TopValues]

\* reverse_comp: not less and not equivalent. The comparator of max_queue is
\* std::less reversed once, that of min_queue std::less reversed twice.
Less == {p \in TopValues \X TopValues : p[1] < p[2]}
Reversed(cmp) ==
    {p \in TopValues \X TopValues :
        p \notin cmp /\ ~(p \notin cmp /\ <<p[2], p[1]>> \notin cmp)}
Greater == Reversed(Less)
NotGreater == Reversed(Greater)

\* top() of a priority queue, the element before which none comes last.
Top(bag, before) == CHOOSE v \in In(bag) : \A u \in In(bag) : <<v, u>> \notin before

-----------------------------------------------------------------------------
(* A mistake that the property below must tell from the code: the queue may  *)
(* grow to cap + 1.                                                          *)
Bug_Pushed(bag, v, before) ==
    IF Size(bag) <= Cap THEN Add(bag, v)
    ELSE IF <<v, Top(bag, before)>> \in before THEN Remove(Add(bag, v), Top(bag, before))
    ELSE bag

-----------------------------------------------------------------------------
\* topk_queue::push(val): below the capacity it enters; otherwise only if it
\* comes before the top, which then leaves.
Pushed(bag, v, before) ==
    IF Size(bag) < Cap THEN Add(bag, v)
    ELSE IF <<v, Top(bag, before)>> \in before
      THEN LET more == Add(bag, v) IN Remove(more, Top(more, before))
      ELSE bag

\* topk_queue::pop(): the tops until it is empty, in reverse.
Drained(bag0, before) ==
    LET drain[bag \in [TopValues -> Nat]] ==
          IF In(bag) = {} THEN <<>>
          ELSE Append(drain[Remove(bag, Top(bag, before))], Top(bag, before))
    IN drain[bag0]

TopInit ==
    /\ maxQueue = EmptyBag
    /\ minQueue = EmptyBag
    /\ pushing = [p \in Pushers |-> Idle]
    /\ pushes = 0
    /\ intoMax = EmptyBag
    /\ intoMin = EmptyBag

\* push(val): max_queue.push(val)
PushMax(p, v) ==
    /\ pushing[p] = Idle
    /\ pushes < MaxPushes
    /\ maxQueue' = Pushed(maxQueue, v, Greater)
    /\ intoMax' = Add(intoMax, v)
    /\ pushing' = [pushing EXCEPT ![p] = v]
    /\ pushes' = pushes + 1
    /\ UNCHANGED <<minQueue, intoMin>>

\* and min_queue.push(val)
PushMin(p) ==
    /\ pushing[p] # Idle
    /\ minQueue' = Pushed(minQueue, pushing[p], NotGreater)
    /\ intoMin' = Add(intoMin, pushing[p])
    /\ pushing' = [pushing EXCEPT ![p] = Idle]
    /\ UNCHANGED <<maxQueue, intoMax, pushes>>

\* pop_top() and pop_bottom() return Drained(...) and leave an empty queue.
PopTop ==
    /\ maxQueue' = EmptyBag
    /\ intoMax' = EmptyBag
    /\ UNCHANGED <<minQueue, pushing, pushes, intoMin>>

PopBottom ==
    /\ minQueue' = EmptyBag
    /\ intoMin' = EmptyBag
    /\ UNCHANGED <<maxQueue, pushing, pushes, intoMax>>

TopNext ==
    \/ \E p \in Pushers : PushMin(p) \/ \E v \in TopValues : PushMax(p, v)
    \/ PopTop
    \/ PopBottom

TopSpec == TopInit /\ [][TopNext]_topVars

-----------------------------------------------------------------------------
(* Properties *)

TopTypeOK ==
    /\ maxQueue \in [TopValues -> Nat]
    /\ minQueue \in [TopValues -> Nat]
    /\ pushing \in [Pushers -> TopValues \cup {Idle}]
    /\ pushes \in 0 .. MaxPushes
    /\ intoMax \in [TopValues -> Nat]
    /\ intoMin \in [TopValues -> Nat]

\* s is the best Cap of bag, best first.
IsBestOf(s, bag, before) ==
    LET held == [v \in TopValues |-> Cardinality({i \in 1 .. Len(s) : s[i] = v})]
    IN /\ Len(s) = IF Size(bag) < Cap THEN Size(bag) ELSE Cap
       /\ \A i, j \in 1 .. Len(s) : i < j => <<s[j], s[i]>> \notin before
       /\ \A v \in TopValues : held[v] <= bag[v]
       /\ \A v \in TopValues, i \in 1 .. Len(s) : held[v] < bag[v] => <<v, s[i]>> \notin before

\* Whatever the order in which the threads push, and whenever one of the queues
\* is emptied, pop_top() returns the greatest that were pushed since, greatest
\* first, and pop_bottom() the least, least first, equal ones counted.
KeepsTheBest ==
    /\ IsBestOf(Drained(maxQueue, Greater), intoMax, Greater)
    /\ IsBestOf(Drained(minQueue, NotGreater), intoMin, NotGreater)

\* The bounded queues return the best of what the threads pushed, best first.
TopCorrect == TopTypeOK /\ KeepsTheBest
=============================================================================
