------------------------------- MODULE Lists -------------------------------
(***************************************************************************)
(* include/skutils/containers/lc.h: a list that vector2List() builds and   *)
(* reverseList() turns round, an iteration of each loop a step.  A node is *)
(* the position of its value in the vector.                                *)
(***************************************************************************)
EXTENDS Heap, SkipList

CONSTANT ListSize  \* bound on the length of the vector

ASSUME ListsAssumption == ListSize \in Nat

VARIABLES
    data,      \* size of the vector
    nextNode,  \* next of the nodes that were made, 0 for nullptr
    head,      \* what the caller holds
    p, q,      \* locals of reverseList(), 0 before
    listAt,    \* "build", "built", "reverse", "over", or "undefined" behaviour
    reversals  \* how often it was reversed

listVars == <<data, nextNode, head, p, q, listAt, reversals>>

ListInit ==
    /\ data \in 0 .. ListSize
    /\ nextNode = <<>>
    /\ head = 0
    /\ p = 0
    /\ q = 0
    /\ listAt = "build"
    /\ reversals = 0

\* vector2List(): data[0] is read of an empty vector too.
BuildNode ==
    /\ listAt = "build"
    /\ \/ /\ Len(nextNode) = data
          /\ listAt' = IF data = 0 THEN "undefined" ELSE "built"
          /\ UNCHANGED <<nextNode, head>>
       \/ /\ Len(nextNode) < data
          /\ nextNode' = [i \in 1 .. Len(nextNode) + 1 |-> IF i <= Len(nextNode) THEN i + 1 ELSE 0]
          /\ head' = 1
          /\ UNCHANGED listAt
    /\ UNCHANGED <<data, p, q, reversals>>

\* reverseList(&head): a list of one node stays as it is.
BeginReverse ==
    /\ listAt \in {"built", "over"}
    /\ reversals < 2
    /\ reversals' = reversals + 1
    /\ p' = head
    /\ q' = nextNode[head]
    /\ IF q' = 0 THEN listAt' = "over" /\ UNCHANGED nextNode
       ELSE listAt' = "reverse" /\ nextNode' = [nextNode EXCEPT ![head] = 0]
    /\ UNCHANGED <<data, head>>

\* A mistake that the property below must tell from the code: r is not kept.
Bug_ReverseNode ==
    /\ listAt = "reverse"
    /\ nextNode[q] # 0
    /\ nextNode' = [nextNode EXCEPT ![q] = p]
    /\ p' = q
    /\ q' = nextNode'[q]
    /\ UNCHANGED <<data, head, listAt, reversals>>

ReverseNode ==
    /\ listAt = "reverse"
    /\ nextNode[q] # 0
    /\ nextNode' = [nextNode EXCEPT ![q] = p]
    /\ p' = q
    /\ q' = nextNode[q]
    /\ UNCHANGED <<data, head, listAt, reversals>>

EndReverse ==
    /\ listAt = "reverse"
    /\ nextNode[q] = 0
    /\ nextNode' = [nextNode EXCEPT ![q] = p]
    /\ head' = q
    /\ listAt' = "over"
    /\ UNCHANGED <<data, p, q, reversals>>

ListNext == BuildNode \/ BeginReverse \/ ReverseNode \/ EndReverse

ListSpec == ListInit /\ [][ListNext]_listVars

-----------------------------------------------------------------------------
(* Properties *)

ListTypeOK ==
    /\ Len(nextNode) <= data
    /\ \A i \in DOMAIN nextNode : nextNode[i] \in 0 .. data
    /\ {head, p, q} \subseteq 0 .. data

\* From n on the nodes are those of s, up to nullptr.
Leads(n, s) ==
    /\ n = IF s = <<>> THEN 0 ELSE s[1]
    /\ \A i \in DOMAIN s : nextNode[s[i]] = IF i = Len(s) THEN 0 ELSE s[i + 1]

\* The nodes of a list that was turned round r times
Order(r) == [i \in 1 .. data |-> IF r = 1 THEN data + 1 - i ELSE i]

\* While it is turned round, the list is in two pieces that have every node once: what is
\* behind p, turned round, and what is behind q, as it was.
TwoPieces ==
    listAt = "reverse" =>
      LET order == Order(reversals - 1)
      IN \E k \in 1 .. data - 1 : /\ Leads(p, [i \in 1 .. k |-> order[k + 1 - i]])
                                  /\ Leads(q, [i \in 1 .. data - k |-> order[k + i]])

\* The head leads to every node, in the order of the vector or in the opposite.
HeadLeads == listAt \in {"built", "over"} => Leads(head, Order(reversals))

\* A list keeps its nodes, and is as often turned round as was asked for.
ListCorrect == ListTypeOK /\ TwoPieces /\ HeadLeads

\* The containers that keep an order: a heap keeps what it was given and not popped, has the
\* extreme on top while it is used in one direction, and sorts; a skip list links each of its
\* levels in order, and finds what a map would; a list that is turned round loses no node.
OrderCorrect == HeapCorrect /\ SkipCorrect /\ ListCorrect
=============================================================================
