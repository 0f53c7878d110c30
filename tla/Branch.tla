------------------------------- MODULE Branch -------------------------------
(***************************************************************************)
(* The in-memory tree of branches (branch.c).  A branch_t object is named   *)
(* by its findex, the number of its record in the bhead file.  The fields   *)
(* of all objects that make up the tree are one value t with               *)
(*   t.parent[f]      branch_t.parent (NULL at the root and when detached)  *)
(*   t.child_list[f]  branch_t.child_list and child_n                       *)
(*   t.total[f]       data_t.total_branch_n                                 *)
(* so that each function of branch.c is an operator from trees to trees.    *)
(***************************************************************************)
EXTENDS Integers, Sequences, SequencesExt

CONSTANT MaxBranch     \* bound: how many records a bhead file may ever hold

UINT16_MAX == 65535

\* child_n and pos are uint16_t: within this bound no child list overflows them.
ASSUME MaxBranchAssumption == MaxBranch \in 1 .. UINT16_MAX

NULL == -1
Findex == 0 .. MaxBranch - 1

Trees == [parent     : [Findex -> Findex \cup {NULL}],
          child_list : [Findex -> Seq(Findex)],
          total      : [Findex -> Int]]

\* The memory of a process that has not built a tree.
EmptyTree == [parent     |-> [f \in Findex |-> NULL],
              child_list |-> [f \in Findex |-> <<>>],
              total      |-> [f \in Findex |-> 0]]

\* branch_get_pos: index of the first occurrence in the parent's list, or -1.
branch_get_pos(t, f) ==
  SelectInSeq(t.child_list[t.parent[f]], LAMBDA c : c = f) - 1
listed(t, f) == branch_get_pos(t, f) # -1

\* The conversion to uint16_t.
uint16(n) == n % (UINT16_MAX + 1)

\* The branches that while((b=b->parent)) visits, starting below f.
Ancestors(parent, f) ==
  LET up[n \in 0 .. MaxBranch] ==
        IF n = 0 THEN f
        ELSE LET g == up[n - 1] IN IF g = NULL THEN NULL ELSE parent[g]
  IN  {up[n] : n \in 1 .. MaxBranch} \ {NULL}

\* Mutant of branch_increase: only the parent is told.
branch_increase_parent(parent, total, f, n) == [total EXCEPT ![parent[f]] = @ + n]

\* branch_increase: n more (or fewer) branches below every ancestor of f.
branch_increase(parent, total, f, n) ==
  LET above == Ancestors(parent, f)
  IN  [g \in Findex |-> IF g \in above THEN total[g] + n ELSE total[g]]

\* branch_add: link f under p at pos, a position outside the list meaning its end.
branch_add(t, f, p, pos) ==
  LET n      == Len(t.child_list[p])
      at     == IF pos < 0 \/ pos > n THEN n ELSE pos
      parent == [t.parent EXCEPT ![f] = p]
  IN  [parent     |-> parent,
       child_list |-> [t.child_list EXCEPT ![p] = InsertAt(@, at + 1, f)],
       total      |-> branch_increase(parent, t.total, f, t.total[f] + 1)]

\* Mutant of branch_detach: the parent pointer stays.
branch_detach_keep_parent(t, f) ==
  [parent     |-> t.parent,
   child_list |-> [t.child_list EXCEPT ![t.parent[f]] =
                     RemoveAt(@, branch_get_pos(t, f) + 1)],
   total      |-> branch_increase(t.parent, t.total, f, -(t.total[f]) - 1)]

\* Mutant of branch_detach: the entry is cleared but stays in the list.
branch_detach_hole(t, f) ==
  [parent     |-> [t.parent EXCEPT ![f] = NULL],
   child_list |-> [t.child_list EXCEPT ![t.parent[f]] =
                     [@ EXCEPT ![branch_get_pos(t, f) + 1] = NULL]],
   total      |-> branch_increase(t.parent, t.total, f, -(t.total[f]) - 1)]

\* branch_detach of a branch that has a parent (all callers check it) which lists it.
\* The code copies every entry but f; TreeConsistent says that f is not there twice.
branch_detach(t, f) ==
  [parent     |-> [t.parent EXCEPT ![f] = NULL],
   child_list |-> [t.child_list EXCEPT ![t.parent[f]] =
                     RemoveAt(@, branch_get_pos(t, f) + 1)],
   total      |-> branch_increase(t.parent, t.total, f, -(t.total[f]) - 1)]

-----------------------------------------------------------------------------
(* What a tree is supposed to be. *)

\* The parent field and the child lists describe the same edges, each once.
Linked(t) ==
  /\ \A c, p \in Findex :
       t.parent[c] = p <=> \E i \in 1 .. Len(t.child_list[p]) : t.child_list[p][i] = c
  /\ \A p \in Findex : \A i, j \in 1 .. Len(t.child_list[p]) :
       t.child_list[p][i] = t.child_list[p][j] => i = j

\* Half of it: what a child list holds has that parent, and is there once.
ListsSound(t) ==
  \A p \in Findex : \A i \in 1 .. Len(t.child_list[p]) :
    /\ t.parent[t.child_list[p][i]] = p
    /\ \A j \in 1 .. Len(t.child_list[p]) : t.child_list[p][i] = t.child_list[p][j] => i = j

\* The branches below f.
Descendants(t, f) == {g \in Findex : f \in Ancestors(t.parent, g)}

=============================================================================
