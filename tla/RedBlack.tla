------------------------------- MODULE RedBlack -------------------------------
(***************************************************************************)
(* A red-black tree of lib/rb.c used by one thread, as branch_index,        *)
(* vbranch_index and view_index are: any sequence of rb_find, rb_replace    *)
(* and rb_delete.                                                           *)
(***************************************************************************)
EXTENDS RbTree, FiniteSets

CONSTANT Choice     \* bound: the items that may be put in for a key
ASSUME ChoiceAssumption == Choice \in [Keys -> SUBSET Items]

VARIABLES
  tree,   \* the table and its nodes
  out     \* what the last call returned

vars == <<tree, out>>

Init == tree = rb_create /\ out = "none"

Find(key) == out' = rb_find(tree, key) /\ UNCHANGED tree

Replace(key, item) ==
  /\ out' = rb_find(tree, key)
  /\ tree' = rb_replace(tree, key, item)

Delete(key) ==
  /\ out' = rb_find(tree, key)
  /\ tree' = rb_delete(tree, key)

Next ==
  \E key \in Keys : Find(key) \/ Delete(key) \/ \E item \in Choice[key] : Replace(key, item)

Spec == Init /\ [][Next]_vars

-----------------------------------------------------------------------------
(* Properties. *)

\* The nodes of the subtree at n.
RECURSIVE Below(_)
Below(n) ==
  IF n = NULL THEN {} ELSE {n} \cup Below(tree.link[n][0]) \cup Below(tree.link[n][1])
Root == tree.link[Table][0]

\* Black nodes on the way from n to a leaf; -1 if that depends on the way.
RECURSIVE BlackHeight(_)
BlackHeight(n) ==
  IF n = NULL THEN 0
  ELSE LET l == BlackHeight(tree.link[n][0])
           r == BlackHeight(tree.link[n][1])
       IN  IF l = -1 \/ l # r THEN -1 ELSE l + (IF tree.color[n] = Black THEN 1 ELSE 0)

\* After every insertion and deletion: no red node has a red child, the root is black,
\* and all ways down pass equally many black nodes.  So the height is at most twice the
\* least possible one, far from RB_MAX_HEIGHT, the size of the stacks pa and da, which
\* rb_probe and rb_delete fill without a test.  And rb_count is the number of nodes
\* that can be reached: relinking loses none.
Balanced ==
  /\ ~IsRed(tree, Root)
  /\ \A n \in Below(Root), d \in 0 .. 1 :
       tree.color[n] = Red => ~IsRed(tree, tree.link[n][d])
  /\ BlackHeight(Root) # -1
  /\ tree.count = Cardinality(Below(Root))

Abstract == INSTANCE Dict WITH
  dict <- [k \in Below(Root) |-> tree.data[k]], None <- "none"

\* rb_find, rb_replace and rb_delete implement a dictionary: rotations lose no node and
\* keep the order that searches rely on.
DictImplemented == Abstract!Spec

=============================================================================
