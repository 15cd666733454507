------------------------------ MODULE SkipList ------------------------------
(***************************************************************************)
(* include/skutils/containers/skiplist.h. A node is named by its key,      *)
(* which is unique; level i of the model is index i - 1 of nextNodes.      *)
(***************************************************************************)
EXTENDS Integers, FiniteSets

CONSTANTS
    Keys,       \* the keys
    Vals,       \* the values
    MaxLevel    \* max_level

ASSUME SkipAssumption == Keys \subseteq Nat \ {0} /\ MaxLevel \in Nat \ {0} /\ Vals # {}

HeadNode == 0
Null == -1
Levels == 1 .. MaxLevel

VARIABLES
    nextNodes,  \* nextNodes of the head and of each node, Null beyond its level
    level,      \* level of each node, 0 if there is none with that key
    val,        \* val of each node
    nodeNum,    \* node_num
    skipUB,     \* history: insert() drew the level max_level + 1
    stored      \* history: the pairs of key and value that should be in it

skipVars == <<nextNodes, level, val, nodeNum, skipUB, stored>>

-----------------------------------------------------------------------------
(* Mistakes that the properties below must tell from the code.               *)

\* the top level of the node is not unlinked
Bug_Unlinked(key) ==
    [n \in {HeadNode} \cup Keys |-> [i \in Levels |->
        IF n # key /\ i < level[key] /\ nextNodes[n][i] = key
          THEN nextNodes[key][i] ELSE nextNodes[n][i]]]

-----------------------------------------------------------------------------
(* The algorithms *)

\* Whether the search goes on to n: nextNodes[i] != nullptr && key < key
GoesOn(n, key) == n # Null /\ n < key

\* Where a search for key that comes to a node on level i leaves that level.
Along(from, i, key) ==
    LET along[n \in {HeadNode} \cup Keys] ==
          IF GoesOn(nextNodes[n][i], key) THEN along[nextNodes[n][i]] ELSE n
    IN along[from]

\* update[i]: where the search for key leaves level i. It starts at the head of
\* the highest level and goes down from where it has come.
Update(key) ==
    LET update[i \in Levels] ==
          Along(IF i = MaxLevel THEN HeadNode ELSE update[i + 1], i, key)
    IN update

\* find(key), or Null
FindNode(key) ==
    LET n == nextNodes[Update(key)[1]][1] IN IF n = key THEN n ELSE Null

\* The links after a node of level lvl was put behind update[i] on each level.
Linked(key, lvl) ==
    LET update == Update(key)
    IN [n \in {HeadNode} \cup Keys |-> [i \in Levels |->
          IF i > lvl THEN nextNodes[n][i]
          ELSE IF n = key THEN nextNodes[update[i]][i]
          ELSE IF n = update[i] THEN key
          ELSE nextNodes[n][i]]]

\* The links after the node was taken out behind update[i] on each of its levels.
Unlinked(key) ==
    LET update == Update(key)
    IN [n \in {HeadNode} \cup Keys |-> [i \in Levels |->
          IF i > level[key] THEN nextNodes[n][i]
          ELSE IF n = key THEN Null
          ELSE IF n = update[i] THEN nextNodes[key][i]
          ELSE nextNodes[n][i]]]

-----------------------------------------------------------------------------
(* The object *)

SkipInit ==
    /\ nextNodes = [n \in {HeadNode} \cup Keys |-> [i \in Levels |-> Null]]
    /\ level = [k \in Keys |-> 0]
    /\ val = [k \in Keys |-> CHOOSE v \in Vals : TRUE]
    /\ nodeNum = 0
    /\ skipUB = FALSE
    /\ stored = {}

\* insert(key, val) of a new key. get_random_level() yields up to max_level + 1,
\* one more than update has: what happens then is undefined.
SkipInsert(key, v, lvl) ==
    /\ ~skipUB
    /\ FindNode(key) = Null
    /\ \/ /\ lvl <= MaxLevel
          /\ nextNodes' = Linked(key, lvl)
          /\ level' = [level EXCEPT ![key] = lvl]
          /\ val' = [val EXCEPT ![key] = v]
          /\ nodeNum' = nodeNum + 1
          /\ stored' = stored \cup {<<key, v>>}
          /\ UNCHANGED skipUB
       \/ /\ lvl = MaxLevel + 1
          /\ skipUB' = TRUE
          /\ UNCHANGED <<nextNodes, level, val, nodeNum, stored>>

\* erase(key) of a key that is there
SkipErase(key) ==
    /\ ~skipUB
    /\ nodeNum > 0
    /\ FindNode(key) # Null
    /\ nextNodes' = Unlinked(key)
    /\ level' = [level EXCEPT ![key] = 0]
    /\ nodeNum' = nodeNum - 1
    /\ stored' = {p \in stored : p[1] # key}
    /\ UNCHANGED <<val, skipUB>>

\* operator[] yields a reference, through which the value may be set.
SkipAssign(key, v) ==
    /\ ~skipUB
    /\ FindNode(key) # Null
    /\ val' = [val EXCEPT ![key] = v]
    /\ stored' = {p \in stored : p[1] # key} \cup {<<key, v>>}
    /\ UNCHANGED <<nextNodes, level, nodeNum, skipUB>>

SkipNext ==
    \/ \E key \in Keys, v \in Vals, lvl \in 1 .. MaxLevel + 1 : SkipInsert(key, v, lvl)
    \/ \E key \in Keys : SkipErase(key)
    \/ \E key \in Keys, v \in Vals : SkipAssign(key, v)

SkipSpec == SkipInit /\ [][SkipNext]_skipVars

-----------------------------------------------------------------------------
(* Properties *)

SkipTypeOK ==
    /\ nextNodes \in [{HeadNode} \cup Keys -> [Levels -> Keys \cup {Null}]]
    /\ level \in [Keys -> 0 .. MaxLevel]
    /\ val \in [Keys -> Vals]
    /\ nodeNum \in Nat
    /\ skipUB \in BOOLEAN
    /\ stored \subseteq Keys \X Vals

\* Each level is a chain, in ascending order, of exactly the nodes that reach
\* it: after any sequence of insertions and erasures the links of a level skip
\* no node of that level, lead to none that was erased, and never go back.
LevelsLinked ==
    \A i \in Levels :
        LET On == {k \in Keys : level[k] >= i}
        IN \A n \in {HeadNode} \cup On :
              nextNodes[n][i] = IF \A k \in On : k <= n THEN Null
                                ELSE CHOOSE k \in On : k > n /\ \A m \in On : m > n => k <= m

\* find() and operator[] agree with a map to which insert() adds only new keys,
\* and size() with the number of its keys.
FindsStored ==
    /\ \A k \in Keys :
          IF FindNode(k) = Null THEN \A v \in Vals : <<k, v>> \notin stored
                                ELSE <<k, val[k]>> \in stored
    /\ nodeNum = Cardinality(stored)

\* A skip list is a map whose levels are in order.
SkipCorrect == SkipTypeOK /\ LevelsLinked /\ FindsStored
=============================================================================
