-------------------------------- MODULE Heap --------------------------------
(***************************************************************************)
(* include/skutils/containers/heap.h: Heap<ValueType> with the default     *)
(* Compare, std::greater. The element that the code keeps in data[0] is    *)
(* never read, and what pop() leaves behind data[elemNums] is overwritten  *)
(* before it is read again: heapData is data[1 .. elemNums].               *)
(***************************************************************************)
EXTENDS Integers, Sequences, FiniteSets

CONSTANTS
    HeapValues, \* what is pushed, integers
    HeapSize    \* bound on elemNums

ASSUME HeapAssumption == HeapValues \subseteq Int /\ HeapSize \in Nat

VARIABLES
    heapData,   \* data[1 .. elemNums]
    heapUse,    \* history: "new" before construction, "pushed" if it was only
                \*   ever pushed to since it was empty, "built" if it was built
                \*   from a vector and then only popped, else "mixed"
    heapBag     \* history: how often each value should be in it

heapVars == <<heapData, heapUse, heapBag>>

\* comp(a, b)
Comp(a, b) == a > b

Swap(d, i, j) == [d EXCEPT ![i] = d[j], ![j] = d[i]]

\* How often v is in d.
Count(d, v) == Cardinality({i \in 1 .. Len(d) : d[i] = v})
Counts(d) == [v \in HeapValues |-> Count(d, v)]

-----------------------------------------------------------------------------
(* Mistakes that the properties below must tell from the code.               *)

\* 2 * k is always the child that is compared
Bug_SiftDown(s) ==
    LET d == s[1]
        k == s[2]
    IN IF 2 * k <= Len(d) /\ Comp(d[k], d[2 * k]) THEN <<Swap(d, k, 2 * k), 2 * k>> ELSE s

-----------------------------------------------------------------------------
(* The algorithms: a loop is the sequence of its states, <<d, k>> for those  *)
(* that sift, which stay as they are when it is over.                        *)

\* Sift down: swap with the smaller child while it is smaller.
SiftDown(s) ==
    LET d == s[1]
        k == s[2]
        j == IF 2 * k < Len(d) /\ Comp(d[2 * k], d[2 * k + 1]) THEN 2 * k + 1 ELSE 2 * k
    IN IF 2 * k <= Len(d) /\ Comp(d[k], d[j]) THEN <<Swap(d, k, j), j>> ELSE s

\* k grows, so that the loop is over after as many iterations as there are elements.
AdjustDown(d0, k0) ==
    LET after[i \in 0 .. Len(d0)] == IF i = 0 THEN <<d0, k0>> ELSE SiftDown(after[i - 1])
    IN after[Len(d0)][1]

\* Sift up: swap with the parent while it is, unlike above, smaller.
SiftUp(s) ==
    LET d == s[1]
        k == s[2]
    IN IF k > 1 /\ Comp(d[k], d[k \div 2]) THEN <<Swap(d, k, k \div 2), k \div 2>> ELSE s

AdjustUp(d0, k0) ==
    LET after[i \in 0 .. Len(d0)] == IF i = 0 THEN <<d0, k0>> ELSE SiftUp(after[i - 1])
    IN after[Len(d0)][1]

\* AdjustDown from the last parent up to the root
BuildHeap(vals) ==
    LET half == Len(vals) \div 2
        build[i \in 0 .. half] == IF i = 0 THEN vals ELSE AdjustDown(build[i - 1], half + 1 - i)
    IN build[half]

\* The heap without its top; nothing if it is empty.
Popped(d) ==
    IF d = <<>> THEN d ELSE AdjustDown(SubSeq(Swap(d, 1, Len(d)), 1, Len(d) - 1), 1)

\* Heap::sort: the tops of a heap built from vc, until it is empty
HeapSort(vc) ==
    LET heap[i \in 0 .. Len(vc)] == IF i = 0 THEN BuildHeap(vc) ELSE Popped(heap[i - 1])
    IN [i \in 1 .. Len(vc) |-> heap[i - 1][1]]

-----------------------------------------------------------------------------
(* The object *)

HeapInit ==
    /\ heapData = <<>>
    /\ heapUse = "new"
    /\ heapBag = [v \in HeapValues |-> 0]

\* Heap() and Heap(vals)
HeapNew(vals) ==
    /\ heapUse = "new"
    /\ heapData' = BuildHeap(vals)
    /\ heapUse' = IF vals = <<>> THEN "pushed" ELSE "built"
    /\ heapBag' = Counts(vals)

\* push(val)
HeapPush(v) ==
    /\ heapUse # "new"
    /\ Len(heapData) < HeapSize
    /\ heapData' = AdjustUp(Append(heapData, v), Len(heapData) + 1)
    /\ heapUse' = IF heapData = <<>> \/ heapUse = "pushed" THEN "pushed" ELSE "mixed"
    /\ heapBag' = [heapBag EXCEPT ![v] = @ + 1]

\* top() and pop(): the top that is read is the one that is removed.
HeapPop ==
    /\ heapUse # "new"
    /\ heapData # <<>>
    /\ heapData' = Popped(heapData)
    /\ heapUse' = IF heapUse = "built" THEN "built" ELSE "mixed"
    /\ heapBag' = [heapBag EXCEPT ![heapData[1]] = @ - 1]

HeapNext ==
    \/ \E n \in 0 .. HeapSize : \E vals \in [1 .. n -> HeapValues] : HeapNew(vals)
    \/ \E v \in HeapValues : HeapPush(v)
    \/ HeapPop

HeapSpec == HeapInit /\ [][HeapNext]_heapVars

-----------------------------------------------------------------------------
(* Properties *)

HeapTypeOK ==
    /\ heapData \in Seq(HeapValues)
    /\ heapUse \in {"new", "pushed", "built", "mixed"}
    /\ heapBag \in [HeapValues -> Nat]

\* Sifting only moves: whatever sequence of pushes and pops it went through,
\* the heap holds what was pushed and not popped, each as often.
HeapKeeps == Counts(heapData) = heapBag

\* top() is the extreme element as long as the heap is used in one direction:
\* the greatest after pushes alone, the least after a construction and pops.
\* (adjustUp() and adjustDown() put Compare to opposite uses, and a heap that
\* was both pushed to and popped promises nothing.)
HeapTop ==
    \A i \in 1 .. Len(heapData) :
        /\ heapUse = "pushed" => heapData[1] >= heapData[i]
        /\ heapUse = "built" => heapData[1] <= heapData[i]

\* Heap::sort() sorts in ascending order, and loses nothing.
HeapSorts ==
    LET s == HeapSort(heapData)
    IN /\ Counts(s) = Counts(heapData)
       /\ \A i \in 1 .. Len(s) - 1 : s[i] <= s[i + 1]

\* A heap is a bag with its extreme on top while it is used in one direction, and sorts.
HeapCorrect == HeapTypeOK /\ HeapKeeps /\ HeapTop /\ HeapSorts
=============================================================================
