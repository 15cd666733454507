-------------------------------- MODULE Trees --------------------------------
(***************************************************************************)
(* include/skutils/containers/lc.h: treeToString(), a visit a step, and    *)
(* the destructor of TreeNode.  A tree of n nodes has the nodes 1 .. n,    *)
(* numbered from the root down; 0 is nullptr.  Values are all different,   *)
(* so that a node stands for its own.                                      *)
(***************************************************************************)
EXTENDS Integers, Sequences
LOCAL INSTANCE SequencesExt

CONSTANT MaxTree  \* bound on the nodes

ASSUME TreesAssumption == MaxTree \in Nat

VARIABLES
    left, right,   \* children of each node
    calls,         \* what the recursion still has to do, the innermost call first
    preorder,      \* values in the first stringstream that is returned,
    inorder,       \*   and in the second
    deleted,       \* nodes that were deleted, in order
    treeAt         \* "inorder", "preorder", "delete" or "over"

treeVars == <<left, right, calls, preorder, inorder, deleted, treeAt>>

TreeNodes == DOMAIN left
TreeRoot == IF TreeNodes = {} THEN 0 ELSE 1
Parents(n) == {m \in TreeNodes : left[m] = n \/ right[m] = n}

\* Trees: a child has a greater number than its parent, and there is one parent.
TreeInit ==
    /\ \E n \in 0 .. MaxTree :
          /\ left \in [1 .. n -> 0 .. n] /\ right \in [1 .. n -> 0 .. n]
          /\ \A m \in 1 .. n :
                /\ left[m] = 0 \/ left[m] > m
                /\ right[m] = 0 \/ right[m] > m
                /\ left[m] = right[m] => left[m] = 0
                /\ m > 1 => \E k \in 1 .. n : Parents(m) = {k}
    /\ calls = <<[do |-> "visit", node |-> TreeRoot]>>
    /\ preorder = <<>> /\ inorder = <<>> /\ deleted = <<>>
    /\ treeAt = "inorder"

VisitNode(n) == [do |-> "visit", node |-> n]
EmitNode(n) == [do |-> "print", node |-> n]

\* Two mistakes that the property below must tell from the code: the node comes behind
\* its subtrees, and a child is not visited.
Bug_Body(n) == <<VisitNode(left[n]), VisitNode(right[n]), EmitNode(n)>>
Bug_Leaf(n) ==
    IF treeAt = "inorder" THEN <<VisitNode(left[n]), EmitNode(n), VisitNode(right[n])>>
    ELSE <<EmitNode(n), VisitNode(left[n])>>

\* The body of inorder, of preorder and of the destructor, for a node that is not null
Body(n) ==
    CASE treeAt = "inorder" -> <<VisitNode(left[n]), EmitNode(n), VisitNode(right[n])>>
    [] treeAt = "preorder" -> <<EmitNode(n), VisitNode(left[n]), VisitNode(right[n])>>
    [] OTHER -> <<VisitNode(left[n]), VisitNode(right[n]), EmitNode(n)>>

Call ==
    /\ treeAt # "over"
    /\ calls # <<>>
    /\ Head(calls).do = "visit"
    /\ LET n == Head(calls).node
       IN calls' = (IF n = 0 THEN <<>> ELSE Body(n)) \o Tail(calls)
    /\ UNCHANGED <<left, right, preorder, inorder, deleted, treeAt>>

\* ss << node->val, or the end of delete
PrintNode ==
    /\ treeAt # "over"
    /\ calls # <<>>
    /\ Head(calls).do = "print"
    /\ calls' = Tail(calls)
    /\ LET n == Head(calls).node
       IN /\ inorder' = IF treeAt = "inorder" THEN Append(inorder, n) ELSE inorder
          /\ preorder' = IF treeAt = "preorder" THEN Append(preorder, n) ELSE preorder
          /\ deleted' = IF treeAt = "delete" THEN Append(deleted, n) ELSE deleted
    /\ UNCHANGED <<left, right, treeAt>>

\* The next traversal; after toString() the owner deletes the root.
NextTraversal ==
    /\ treeAt # "over"
    /\ calls = <<>>
    /\ treeAt' = CASE treeAt = "inorder" -> "preorder"
                 [] treeAt = "preorder" -> "delete"
                 [] OTHER -> "over"
    /\ calls' = IF treeAt' = "over" THEN <<>> ELSE <<VisitNode(TreeRoot)>>
    /\ UNCHANGED <<left, right, preorder, inorder, deleted>>

TreeNext == Call \/ PrintNode \/ NextTraversal

-----------------------------------------------------------------------------
(* Properties *)

TreeTypeOK == \A s \in {preorder, inorder, deleted} : s \in Seq(TreeNodes) /\ Len(s) <= Len(left)

\* The tree that two orders of the same different values describe: its root is the first of
\* the one, and divides the other into its left and its right part.
Described(pre, in) ==
    LET at(s, v) == CHOOSE i \in DOMAIN s : s[i] = v
        side(v, w) == at(in, w) < at(in, v)
        \* the first of the nodes in preorder that lie in a set
        first(S) == IF S = {} THEN 0 ELSE CHOOSE v \in S : \A w \in S : at(pre, v) <= at(pre, w)
        \* the nodes below v: those behind it in preorder that no node before v parts from it
        below(v) == {w \in ToSet(pre) : at(pre, w) > at(pre, v)
                       /\ \A u \in ToSet(pre) :
                             at(pre, u) < at(pre, v) => (side(u, v) <=> side(u, w))}
    IN [v \in ToSet(pre) |-> <<first({w \in below(v) : side(v, w)}),
                               first({w \in below(v) : ~side(v, w)})>>]

\* The text of a tree describes it: no two different trees have the same two orders.
TextDescribesTree ==
    treeAt \in {"delete", "over"} =>
      Described(preorder, inorder) = [n \in TreeNodes |-> <<left[n], right[n]>>]

\* A node is deleted once, and after its children.
DeletedBottomUp ==
    /\ IsInjective(deleted)
    /\ \A i \in DOMAIN deleted :
         {left[deleted[i]], right[deleted[i]]} \ {0} \subseteq ToSet(SubSeq(deleted, 1, i - 1))
    /\ treeAt = "over" => ToSet(deleted) = TreeNodes

\* A tree prints as what it is and is freed whole.
TreeCorrect == TreeTypeOK /\ TextDescribesTree /\ DeletedBottomUp
=============================================================================
