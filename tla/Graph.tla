------------------------------- MODULE Graph -------------------------------
(***************************************************************************)
(* include/skutils/containers/graph.h: a graph of nodes 0 .. n - 1 with    *)
(* the matrix of its weights, its constructors, what grows it, and         *)
(* buildRandomGraph().  What addEdge() refuses, a node that is not there,  *)
(* changes nothing; negative nodes are not checked for, and not passed.    *)
(***************************************************************************)
EXTENDS Integers

CONSTANTS
    MaxNodes,  \* bound on the nodes
    Weights    \* of the edges that are made

ASSUME GraphAssumption == MaxNodes \in Nat /\ 0 \notin Weights

VARIABLES
    nodeCount,  \* nodeNum, and the size of edges
    isYouXiang, \* whether the graph is directed
    edges,      \* the matrix; 0 is dummyValue
    drawn,      \* history: adjust of buildRandomGraph() before it is made symmetric
    draws,      \* how many pairs buildRandomGraph() has drawn
    graphAt     \* "new", "drawing", "random" when that is over, "built" when it was changed

graphVars == <<nodeCount, isYouXiang, edges, drawn, draws, graphAt>>

Matrices(n, W) == [(0 .. n - 1) \X (0 .. n - 1) -> W]
Dummy(n) == [p \in (0 .. n - 1) \X (0 .. n - 1) |-> 0]

GraphInit ==
    /\ nodeCount = 0
    /\ isYouXiang \in BOOLEAN
    /\ edges = Dummy(0)
    /\ drawn = Dummy(0)
    /\ draws = 0
    /\ graphAt = "new"

\* What the constructor makes of a matrix: in an undirected graph what is above the
\* diagonal is taken from below.
Given(e) ==
    IF isYouXiang THEN e
    ELSE [p \in DOMAIN e |-> IF p[1] < p[2] THEN e[<<p[2], p[1]>>] ELSE e[p]]

\* Graph(), Graph(v) and Graph(v, e)
NewGraph(n, e) ==
    /\ graphAt = "new"
    /\ nodeCount' = n
    /\ edges' = Given(e)
    /\ graphAt' = "built"
    /\ UNCHANGED <<isYouXiang, drawn, draws>>

\* addNode(val): a row for the new node, and a column in each of the others
AddNode ==
    /\ graphAt \in {"random", "built"}
    /\ nodeCount < MaxNodes
    /\ nodeCount' = nodeCount + 1
    /\ edges' = [p \in DOMAIN Dummy(nodeCount') |-> IF p \in DOMAIN edges THEN edges[p] ELSE 0]
    /\ graphAt' = "built"
    /\ UNCHANGED <<isYouXiang, drawn, draws>>

\* A mistake that the property below must tell from the code: one direction only.
Bug_AddEdge(from, to, value) ==
    /\ graphAt \in {"random", "built"}
    /\ from < nodeCount /\ to < nodeCount
    /\ edges' = [edges EXCEPT ![<<from, to>>] = value]
    /\ graphAt' = "built"
    /\ UNCHANGED <<nodeCount, isYouXiang, drawn, draws>>

\* addEdge(from, to, value)
AddEdge(from, to, value) ==
    /\ graphAt \in {"random", "built"}
    /\ from < nodeCount /\ to < nodeCount
    /\ edges' = [edges EXCEPT ![<<from, to>>] = value,
                              ![<<to, from>>] = IF isYouXiang THEN @ ELSE value]
    /\ graphAt' = "built"
    /\ UNCHANGED <<nodeCount, isYouXiang, drawn, draws>>

-----------------------------------------------------------------------------
(* buildRandomGraph(n, isYouXiang, ...) *)

BeginRandom(n) ==
    /\ graphAt = "new"
    /\ nodeCount' = n
    /\ edges' = Dummy(n)
    /\ drawn' = Dummy(n)
    /\ graphAt' = "drawing"
    /\ UNCHANGED <<isYouXiang, draws>>

\* One of n * 3 pairs, which may be one that was drawn before, or a node and itself
Draw(p, w) ==
    /\ graphAt = "drawing"
    /\ draws < 3 * nodeCount
    /\ drawn' = [drawn EXCEPT ![p] = w]
    /\ draws' = draws + 1
    /\ UNCHANGED <<nodeCount, isYouXiang, edges, graphAt>>

\* A coin for each two weights that differ, and the constructor
EndRandom ==
    /\ graphAt = "drawing"
    /\ draws = 3 * nodeCount
    /\ \E heads \in SUBSET {p \in DOMAIN drawn : p[2] < p[1]} :
         edges' = Given([p \in DOMAIN drawn |->
                    IF isYouXiang THEN drawn[p]
                    ELSE IF p \in heads \/ (p[1] < p[2] /\ <<p[2], p[1]>> \notin heads)
                      THEN drawn[<<p[2], p[1]>>] ELSE drawn[p]])
    /\ graphAt' = "random"
    /\ UNCHANGED <<nodeCount, isYouXiang, drawn, draws>>

GraphNext ==
    \/ \E n \in 0 .. MaxNodes : BeginRandom(n) \/ \E e \in Matrices(n, Weights \cup {0}) : NewGraph(n, e)
    \/ \E p \in DOMAIN drawn, w \in Weights : Draw(p, w)
    \/ \E a, b \in 0 .. MaxNodes, w \in Weights : AddEdge(a, b, w)
    \/ EndRandom \/ AddNode

GraphSpec == GraphInit /\ [][GraphNext]_graphVars

-----------------------------------------------------------------------------
(* Properties *)

GraphTypeOK ==
    /\ nodeCount \in 0 .. MaxNodes
    /\ edges \in Matrices(nodeCount, Weights \cup {0})

\* However it was made and grown, an undirected graph looks the same from both ends of each
\* edge: union-find relies on it, which reads half of the matrix.
Symmetric ==
    graphAt # "drawing" /\ ~isYouXiang =>
      \A p \in DOMAIN edges : edges[p] = edges[<<p[2], p[1]>>]

\* A random graph has what was drawn: in an undirected one each weight was drawn in one of
\* the two directions.
OnlyDrawn ==
    graphAt = "random" =>
      \A p \in DOMAIN edges :
        edges[p] \in {drawn[p]} \cup (IF isYouXiang THEN {} ELSE {drawn[<<p[2], p[1]>>]})

\* A graph is a matrix of what it was given, as symmetric as it says.
GraphCorrect == GraphTypeOK /\ Symmetric /\ OnlyDrawn
=============================================================================
