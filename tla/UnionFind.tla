----------------------------- MODULE UnionFind ------------------------------
(***************************************************************************)
(* include/skutils/containers/unionfind_set.h: UnionFindSet<int>, over the *)
(* nodes 0 .. n - 1 and with path compression, and the general             *)
(* UnionFindSet<T>, over a std::map that grows and without it. Both may be *)
(* built from a Graph (graph.h), of different nodes: cnt of the general    *)
(* one counts an element twice that the graph has twice.                   *)
(***************************************************************************)
EXTENDS Graph, FiniteSets

CONSTANTS
    UnionSize,  \* bound on the number of nodes
    GraphSize   \* bound on the nodes of a graph it is built from

ASSUME UnionAssumption ==
    /\ UnionSize \in Nat
    /\ GraphSize \in 0 .. UnionSize

VARIABLES
    unionKind,  \* "none" before construction, "int" or "map"
    parent,     \* parent; its domain is the nodes there are
    cnt,        \* cnt
    graph,      \* the graph that a constructor has still to go through, with
                \*   the place of its matrix that comes next, or NoGraph
    blocks      \* history: the components of what was connected

unionVars == <<unionKind, parent, cnt, graph, blocks>>

Nodes == DOMAIN parent
AllNodes == 0 .. UnionSize - 1

-----------------------------------------------------------------------------
(* The algorithms *)

\* find(a): the end of the path from a
Root(p, a) ==
    LET root[x \in DOMAIN p] == IF p[x] = x THEN x ELSE root[p[x]]
    IN root[a]

\* The nodes on the path from a to its root.
Path(p, a) ==
    LET path[x \in DOMAIN p] == IF p[x] = x THEN {x} ELSE {x} \cup path[p[x]]
    IN path[a]

-----------------------------------------------------------------------------
(* Mistakes that the properties below must tell from the code.               *)

\* the count goes down whether or not the roots differ
Bug_Merged(p, c, a, b) == c - 1

-----------------------------------------------------------------------------
\* What find(a) leaves behind: UnionFindSet<int> hangs the whole path under
\* the root.
Found(kind, p, a) ==
    IF kind = "int"
      THEN [x \in DOMAIN p |-> IF x \in Path(p, a) THEN Root(p, a) ELSE p[x]]
      ELSE p

\* connect(a, b), for different roots: the second root goes under the first in
\* UnionFindSet<int>, the first under the second in UnionFindSet<T>.
Joined(kind, p, a, b) ==
    IF kind = "int" THEN [p EXCEPT ![Root(p, b)] = Root(p, a)]
                    ELSE [p EXCEPT ![Root(p, a)] = Root(p, b)]

\* connect(a, b): what becomes of the parents p
Connected(kind, p, a, b) ==
    LET q == Found(kind, Found(kind, p, a), b)
    IN IF Root(q, a) = Root(q, b) THEN q ELSE Joined(kind, q, a, b)

\* and of the count c
Merged(p, c, a, b) == IF Root(p, a) = Root(p, b) THEN c ELSE c - 1

\* The edges of a Graph made of the matrix adj: an undirected one keeps the
\* lower half and copies it to the upper.
GraphEdges(directed, adj) ==
    {e \in adj : directed \/ e[1] >= e[2]} \cup
    {<<e[2], e[1]>> : e \in {d \in adj : ~directed /\ d[1] > d[2]}}

NoGraph == [n |-> 0, directed |-> FALSE, edges |-> {}, place |-> 0]
Built == graph = NoGraph

\* Which places of the matrix the constructor looks at.
Visited(directed, i, j) == directed \/ j < i

\* The connected component of a, by definition: what every set that a is in
\* and no edge leaves contains.
Component(nodes, adj, a) ==
    {b \in nodes : \A S \in SUBSET nodes :
        (/\ a \in S
         /\ \A e \in adj : e[1] \in S <=> e[2] \in S) => b \in S}

\* parent.emplace(a, a)
Added(p, a) == [x \in DOMAIN p \cup {a} |-> IF x \in DOMAIN p THEN p[x] ELSE a]

\* The blocks after a and b have been connected.
Fused(bs, a, b) ==
    LET touched == {S \in bs : a \in S \/ b \in S}
    IN (bs \ touched) \cup {UNION touched}

-----------------------------------------------------------------------------
(* The object *)

UnionInit ==
    /\ unionKind = "none"
    /\ parent = <<>>
    /\ cnt = 0
    /\ graph = NoGraph
    /\ blocks = {}

\* UnionFindSet<int>(n)
UnionNew(n) ==
    /\ unionKind = "none"
    /\ unionKind' = "int"
    /\ parent' = [x \in 0 .. n - 1 |-> x]
    /\ cnt' = n
    /\ blocks' = {{x} : x \in 0 .. n - 1}
    /\ UNCHANGED graph

\* UnionFindSet(g), up to its loops; without nodes, UnionFindSet<T>()
UnionNewGraph(kind, n, directed, adj) ==
    LET both == GraphEdges(directed, adj)
    IN /\ unionKind = "none"
       /\ unionKind' = kind
       /\ parent' = [x \in 0 .. n - 1 |-> x]
       /\ cnt' = n
       /\ graph' = IF n = 0 THEN NoGraph
                   ELSE [n |-> n, directed |-> directed, edges |-> both, place |-> 0]
       /\ blocks' = {Component(0 .. n - 1, both, x) : x \in 0 .. n - 1}

\* One round of the inner loop of UnionFindSet(g).
UnionEdge ==
    LET i == graph.place \div graph.n
        j == graph.place % graph.n
    IN /\ ~Built
       /\ IF Visited(graph.directed, i, j) /\ <<i, j>> \in graph.edges
            THEN /\ parent' = Connected(unionKind, parent, i, j)
                 /\ cnt' = Merged(parent, cnt, i, j)
            ELSE UNCHANGED <<parent, cnt>>
       /\ graph' = IF graph.place + 1 = graph.n * graph.n
                     THEN NoGraph
                     ELSE [graph EXCEPT !.place = @ + 1]
       /\ UNCHANGED <<unionKind, blocks>>

\* add(val) of UnionFindSet<T>
UnionAdd(a) ==
    /\ Built /\ unionKind = "map"
    /\ a \notin Nodes
    /\ parent' = Added(parent, a)
    /\ cnt' = cnt + 1
    /\ blocks' = blocks \cup {{a}}
    /\ UNCHANGED <<unionKind, graph>>

\* add(key, val) of UnionFindSet<T>: both are added, and connected.
UnionAddPair(a, b) ==
    LET p == Added(Added(parent, a), b)
        new == {a, b} \ Nodes
    IN /\ Built /\ unionKind = "map"
       /\ parent' = Connected("map", p, a, b)
       /\ cnt' = Merged(p, cnt + Cardinality(new), a, b)
       /\ blocks' = Fused(blocks \cup {{x} : x \in new}, a, b)
       /\ UNCHANGED <<unionKind, graph>>

\* connect(a, b); find() throws, and nothing changes, if one is not there.
UnionConnect(a, b) ==
    /\ Built
    /\ a \in Nodes /\ b \in Nodes
    /\ parent' = Connected(unionKind, parent, a, b)
    /\ cnt' = Merged(parent, cnt, a, b)
    /\ blocks' = Fused(blocks, a, b)
    /\ UNCHANGED <<unionKind, graph>>

\* find(a); isConnected(a, b) is two of them.
UnionFindRoot(a) ==
    /\ Built
    /\ a \in Nodes
    /\ parent' = Found(unionKind, parent, a)
    /\ UNCHANGED <<unionKind, cnt, graph, blocks>>

\* normalize()
UnionNormalize ==
    /\ Built /\ unionKind = "int"
    /\ parent' = [x \in Nodes |-> Root(parent, x)]
    /\ UNCHANGED <<unionKind, cnt, graph, blocks>>

UnionNext ==
    \/ \E n \in 0 .. UnionSize : UnionNew(n)
    \/ \E kind \in {"int", "map"}, n \in 0 .. GraphSize, directed \in BOOLEAN :
          \E adj \in SUBSET ((0 .. n - 1) \X (0 .. n - 1)) :
              UnionNewGraph(kind, n, directed, adj)
    \/ UnionEdge
    \/ \E a \in AllNodes : UnionAdd(a) \/ UnionFindRoot(a)
    \/ \E a, b \in AllNodes : UnionConnect(a, b) \/ UnionAddPair(a, b)
    \/ UnionNormalize

UnionSpec == UnionInit /\ [][UnionNext]_unionVars

-----------------------------------------------------------------------------
(* Properties *)

UnionTypeOK ==
    /\ unionKind \in {"none", "int", "map"}
    /\ Nodes \subseteq AllNodes
    /\ parent \in [Nodes -> Nodes]
    /\ cnt \in Nat
    /\ graph.n \in 0 .. GraphSize
    /\ graph.place \in 0 .. graph.n * graph.n
    /\ graph.edges \subseteq Nodes \X Nodes

\* Two nodes have the same root exactly if they are connected, through any
\* sequence of constructions, connections and compressions of paths.
SameRoot ==
    Built => \A a, b \in Nodes :
        Root(parent, a) = Root(parent, b) <=> \E S \in blocks : a \in S /\ b \in S

\* count() is the number of components, although it is never computed from
\* them: each connect() decides on its own whether to decrement it.
CountsComponents == Built => cnt = Cardinality(blocks)

\* A union-find set has the components of what was connected, and their number; the graph it
\* is built from is symmetric if it says so, and has no other edges than it was given.
UnionCorrect ==
    /\ UnionTypeOK /\ SameRoot /\ CountsComponents
    /\ GraphCorrect
=============================================================================
