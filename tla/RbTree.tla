-------------------------------- MODULE RbTree --------------------------------
(***************************************************************************)
(* The red-black trees of lib/rb.c as operators.  They index branches,      *)
(* vbranches and views by id, each in the thread of their map, and maps,    *)
(* where the pub thread reads what the sub thread writes.                   *)
(*                                                                          *)
(* A node is named by the key of its item.  What an insertion does is the   *)
(* sequence of its writes, so that it can be one step or one per write.     *)
(* The code for the two directions is mirrored; here d is a direction and   *)
(* 1 - d the other one.                                                     *)
(***************************************************************************)
EXTENDS Integers, Sequences, SequencesExt

CONSTANTS
  Keys,      \* ids, positive numbers
  Items,     \* what items hold besides the id
  Wrap       \* rb_generation is counted modulo this; 2^64 in the code

ASSUME KeysAssumption == Keys \subseteq Nat \ {0}
ASSUME WrapAssumption == Wrap \in Nat \ {0}

Table == 0             \* (struct rb_node *) &tree->rb_root: link 0 of it is the root
NULL == -1
Wild == -2             \* what malloc left in the memory of a node
Garbage == "garbage"
Nodes == Keys \cup {Table}
Red == "red"
Black == "black"

\* rb_create.  A node that is not in the tree is memory that is not initialised.
rb_create ==
  [link |-> [n \in Nodes |-> [d \in 0 .. 1 |-> IF n = Table THEN NULL ELSE Wild]],
   color |-> [n \in Keys |-> Red],
   data |-> [n \in Keys |-> Garbage],
   count |-> 0, generation |-> 0]

\* The writes, and their effect.
Link(n, d, to) == [what |-> "link", n |-> n, d |-> d, to |-> to]
Paint(n, c) == [what |-> "color", n |-> n, to |-> c]
Put(n, item) == [what |-> "data", n |-> n, to |-> item]
CountUp == [what |-> "count", to |-> 1]
NewGeneration == [what |-> "generation", to |-> 1]
PaintRoot == [what |-> "root", to |-> Black]

Write(t, w) ==
  CASE w.what = "link" -> [t EXCEPT !.link[w.n][w.d] = w.to]
    [] w.what = "color" -> [t EXCEPT !.color[w.n] = w.to]
    [] w.what = "data" -> [t EXCEPT !.data[w.n] = w.to]
    [] w.what = "count" -> [t EXCEPT !.count = @ + w.to]
    [] w.what = "generation" -> [t EXCEPT !.generation = (@ + w.to) % Wrap]
    [] w.what = "root" -> [t EXCEPT !.color[t.link[Table][0]] = w.to]
WriteAll(t, ws) == FoldLeft(Write, t, ws)

\* w, the child of p in direction 1 - d, is lifted to the place of p, below up.
\* Mutant of Lift: the inner subtree of w is lost.
Lift_drop(t, up, p, w, d) == <<Link(p, 1 - d, NULL), Link(w, d, p), Link(up.node, up.dir, w)>>
Lift(t, up, p, w, d) == <<Link(p, 1 - d, t.link[w][d]), Link(w, d, p), Link(up.node, up.dir, w)>>

At(n, d) == [node |-> n, dir |-> d]

-----------------------------------------------------------------------------
\* The stack that a search for key makes: the nodes on the way and the directions taken.
\* It ends at the parent of the key's node, or of the place for it.
RECURSIVE Descend(_, _, _)
Descend(t, key, stack) ==
  LET top == Last(stack)
      p == t.link[top.node][top.dir]
  IN  IF p \in {NULL, key} THEN stack
      ELSE Descend(t, key, Append(stack, At(p, IF key > p THEN 1 ELSE 0)))
Search(t, key) == Descend(t, key, <<At(Table, 0)>>)
Found(t, key) == t.link[Last(Search(t, key)).node][Last(Search(t, key)).dir] = key

IsRed(t, n) == n # NULL /\ t.color[n] = Red

rb_find(t, key) == IF Found(t, key) THEN t.data[key] ELSE "none"

\* The loop of rb_probe over the stack: a red child of a red node is passed up by
\* recolouring, or removed by one or two rotations.
RECURSIVE FixInsert(_, _)
\* Mutant of FixInsert: an inner grandchild is treated as an outer one.
FixInsert_outer(t, stack) ==
  LET k == Len(stack) IN
  IF k < 3 \/ ~IsRed(t, stack[k].node) THEN <<>>
  ELSE LET p == stack[k].node
           g == stack[k - 1].node
           d == stack[k - 1].dir
           u == t.link[g][1 - d]
       IN  IF IsRed(t, u)
           THEN LET ws == <<Paint(u, Black), Paint(p, Black), Paint(g, Red)>>
                IN  ws \o FixInsert(WriteAll(t, ws), SubSeq(stack, 1, k - 2))
           ELSE <<Paint(g, Red), Paint(p, Black)>> \o Lift(t, stack[k - 2], g, p, 1 - d)
FixInsert(t, stack) ==
  LET k == Len(stack) IN
  IF k < 3 \/ ~IsRed(t, stack[k].node) THEN <<>>
  ELSE LET p == stack[k].node
           c == t.link[p][stack[k].dir]
           g == stack[k - 1].node
           d == stack[k - 1].dir
           u == t.link[g][1 - d]
       IN  IF IsRed(t, u)
           THEN LET ws == <<Paint(u, Black), Paint(p, Black), Paint(g, Red)>>
                IN  ws \o FixInsert(WriteAll(t, ws), SubSeq(stack, 1, k - 2))
           ELSE LET inner == stack[k].dir # d
                    ws == IF inner THEN Lift(t, stack[k - 1], p, c, d) ELSE <<>>
                    y == IF inner THEN c ELSE p
                IN  ws \o <<Paint(g, Red), Paint(y, Black)>>
                       \o Lift(WriteAll(t, ws), stack[k - 2], g, y, 1 - d)

\* rb_probe, of a key that is not in the tree.  The node is linked before it is filled.
rb_probe(t, key, item) ==
  LET stack == Search(t, key)
      ws == <<Link(Last(stack).node, Last(stack).dir, key), Put(key, item), Link(key, 1, NULL),
              Link(key, 0, NULL), Paint(key, Red), CountUp, NewGeneration>>
  IN  ws \o FixInsert(WriteAll(t, ws), stack) \o <<PaintRoot>>

rb_replace(t, key, item) ==
  IF Found(t, key) THEN [t EXCEPT !.data[key] = item] ELSE WriteAll(t, rb_probe(t, key, item))

-----------------------------------------------------------------------------
(* rb_delete *)

\* The nodes from n down to the left.
RECURSIVE LeftSpine(_, _)
LeftSpine(t, n) == IF n = NULL THEN <<>> ELSE <<n>> \o LeftSpine(t, t.link[n][0])

\* The loop: the subtree below the top of the stack is one black node short.
RECURSIVE FixDelete(_, _)
\* Mutant of FixDelete: a short subtree is not passed up.
FixDelete_local(t, stack) ==
  LET p == Last(stack).node
      d == Last(stack).dir
      x == t.link[p][d]
  IN  IF IsRed(t, x) THEN Write(t, Paint(x, Black)) ELSE t
FixDelete(t, stack) ==
  LET k == Len(stack)
      p == stack[k].node
      d == stack[k].dir
      x == t.link[p][d]
  IN  IF IsRed(t, x) THEN Write(t, Paint(x, Black))
      ELSE IF k < 2 THEN t
      ELSE LET w1 == t.link[p][1 - d]
               red == IsRed(t, w1)
               t1 == IF red THEN WriteAll(t, <<Paint(w1, Black), Paint(p, Red)>>
                                             \o Lift(t, stack[k - 1], p, w1, d))
                            ELSE t
               stack1 == IF red THEN Front(stack) \o <<At(w1, d), At(p, d)>> ELSE stack
               w == t1.link[p][1 - d]
           IN  IF ~IsRed(t1, t1.link[w][0]) /\ ~IsRed(t1, t1.link[w][1])
               THEN FixDelete(Write(t1, Paint(w, Red)), Front(stack1))
               ELSE LET inner == ~IsRed(t1, t1.link[w][1 - d])
                        y == IF inner THEN t1.link[w][d] ELSE w
                        t2 == IF inner
                              THEN WriteAll(t1, <<Paint(y, Black), Paint(w, Red)>>
                                                \o Lift(t1, At(p, 1 - d), w, y, 1 - d))
                              ELSE t1
                    IN  WriteAll(t2, <<Paint(y, t2.color[p]), Paint(p, Black),
                                       Paint(t2.link[y][1 - d], Black)>>
                                     \o Lift(t2, stack1[Len(stack1) - 1], p, y, d))

\* The place of the node is taken by its successor s, the last of the spine of its right
\* subtree, whose right subtree takes the place of s.
\* Mutant of Succeed: the right subtree of s is forgotten.
Succeed_forget(t, key, up, spine) ==
  LET s == Last(spine)
      above == Front(spine)
  IN  <<Link(s, 0, t.link[key][0])>>
      \o (IF above = <<>> THEN <<>>
          ELSE <<Link(Last(above), 0, NULL), Link(s, 1, t.link[key][1])>>)
      \o <<Paint(s, t.color[key]), Link(up.node, up.dir, s)>>
Succeed(t, key, up, spine) ==
  LET s == Last(spine)
      above == Front(spine)
  IN  <<Link(s, 0, t.link[key][0])>>
      \o (IF above = <<>> THEN <<>>
          ELSE <<Link(Last(above), 0, t.link[s][1]), Link(s, 1, t.link[key][1])>>)
      \o <<Paint(s, t.color[key]), Link(up.node, up.dir, s)>>

\* rb_delete, and what is left of the node's memory after free.
rb_delete(t, key) ==
  LET stack == Search(t, key)
      up == Last(stack)
      spine == LeftSpine(t, t.link[key][1])
      leaf == spine = <<>>
      s == Last(spine)
      ws == IF leaf THEN <<Link(up.node, up.dir, t.link[key][0])>> ELSE Succeed(t, key, up, spine)
      gone == IF leaf THEN t.color[key] ELSE t.color[s]
      below == IF leaf THEN stack
               ELSE stack \o <<At(s, 1)>> \o [i \in 1 .. Len(spine) - 1 |-> At(spine[i], 0)]
      t1 == WriteAll(t, ws)
      t2 == IF gone = Black THEN FixDelete(t1, below) ELSE t1
  IN  IF ~Found(t, key) THEN t
      ELSE [t2 EXCEPT !.link[key] = rb_create.link[key], !.color[key] = Red,
                      !.data[key] = Garbage, !.count = @ - 1, !.generation = (@ + 1) % Wrap]

=============================================================================
