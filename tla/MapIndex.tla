------------------------------- MODULE MapIndex -------------------------------
(***************************************************************************)
(* app->map_index between two threads: the sub thread puts a map it has     *)
(* created into the tree (map_index_put, rb_probe) while the pub thread     *)
(* walks it (map_index_traverse, rb_t_next).  There is no lock; the only    *)
(* provision is rb_generation, by which a traverser notices that the tree   *)
(* has changed since its last step and finds its stack anew.                *)
(*                                                                          *)
(* A step is one write of rb_probe, or one read of the tree by the walk     *)
(* with the work on the traverser that follows it.  Links are read again    *)
(* where the code reads them again.                                         *)
(***************************************************************************)
EXTENDS RbTree, FiniteSets

CONSTANTS
  Loaded,      \* the maps that app_load_maps puts into the index, in this order
  MaxMaps      \* bound: maps in the index

ASSUME LoadedAssumption == Loaded \in Seq(Keys)

VARIABLES
  tree,        \* app->map_index
  writes,      \* the sub thread: what rb_probe has still to write
  trav,        \* the pub thread: the struct rb_traverser
  pc, x,       \* and where it is in rb_t_next, at which node
  visited,     \* the maps that the walk has called map_each with, in order
  due,         \* history: the maps in the index when the walk began
  overlapped   \* history: rb_probe has run inside a call of rb_t_next in this walk

walk == <<trav, pc, x, visited, due, overlapped>>
history == <<visited, due, overlapped>>
vars == <<tree, writes, walk>>

RB_MAX_HEIGHT == 48
Faults == {"assert", "wild"}

Map == CHOOSE m \in Items : TRUE    \* every item holds its map

\* Where the pub thread is outside rb_t_next.
Between == {"idle", "call"}

Contents == {k \in Keys : tree.data[k] # Garbage}

-----------------------------------------------------------------------------
(* The sub thread. *)

PutStart(key) ==
  /\ writes = <<>>
  /\ key \notin Contents
  /\ Cardinality(Contents) < MaxMaps
  /\ writes' = rb_probe(tree, key, Map)
  /\ overlapped' = (overlapped \/ pc \notin Between)
  /\ UNCHANGED <<tree, trav, pc, x, visited, due>>

PutWrite ==
  /\ writes # <<>>
  /\ tree' = Write(tree, Head(writes))
  /\ writes' = Tail(writes)
  /\ UNCHANGED walk

-----------------------------------------------------------------------------
(* The pub thread. *)

Go(to) == pc' = to
Pushed(n) == Append(trav.stack, n)

\* map_index_traverse: rb_t_init.
Begin ==
  /\ pc = "idle"
  /\ trav' = [node |-> NULL, stack |-> <<>>, generation |-> tree.generation]
  /\ Go("next") /\ x' = NULL
  /\ visited' = <<>> /\ due' = Contents /\ overlapped' = (writes # <<>>)
  /\ UNCHANGED <<tree, writes>>

\* Mutant of NextTest: the generation is not compared.
NextTest_never ==
  /\ pc = "next"
  /\ Go("go")
  /\ UNCHANGED <<tree, writes, trav, x, history>>
NextTest ==
  /\ pc = "next"
  /\ Go(IF trav.generation # tree.generation THEN "refresh" ELSE "go")
  /\ UNCHANGED <<tree, writes, trav, x, history>>

\* trav_refresh: search for the node again.
\* Mutant of Refresh: with no node it returns before it takes the generation, and the
\* caller tests again.
Refresh_early ==
  /\ pc = "refresh"
  /\ IF trav.node = NULL THEN Go("next") /\ UNCHANGED trav
     ELSE Go("root") /\ trav' = [trav EXCEPT !.generation = tree.generation, !.stack = <<>>]
  /\ UNCHANGED <<tree, writes, x, history>>
Refresh ==
  /\ pc = "refresh"
  /\ trav' = [trav EXCEPT !.generation = tree.generation,
                          !.stack = IF trav.node = NULL THEN @ ELSE <<>>]
  /\ Go(IF trav.node = NULL THEN "go" ELSE "root")
  /\ UNCHANGED <<tree, writes, x, history>>

RefreshRoot ==
  /\ pc = "root"
  /\ x' = tree.link[Table][0]
  /\ Go("seek")
  /\ UNCHANGED <<tree, writes, trav, history>>

\* One round of the search, which goes on in direction dir.
Seek(dir, push) ==
  /\ pc = "seek"
  /\ IF x = trav.node THEN Go("go") /\ UNCHANGED <<trav, x>>
     ELSE IF x = NULL \/ Len(trav.stack) >= RB_MAX_HEIGHT THEN Go("assert") /\ UNCHANGED <<trav, x>>
     ELSE IF x = Wild \/ tree.data[x] = Garbage THEN Go("wild") /\ UNCHANGED <<trav, x>>
     ELSE /\ trav' = IF push THEN [trav EXCEPT !.stack = Pushed(x)] ELSE trav
          /\ x' = tree.link[x][dir]
          /\ UNCHANGED pc
  /\ UNCHANGED <<tree, writes, history>>

\* Mutant of RefreshSeek: the stack keeps only the ancestors to the left.
RefreshSeek_left == Seek(IF trav.node > x THEN 1 ELSE 0, trav.node > x)
\* Mutant of RefreshSeek: the comparison has its arguments swapped.
RefreshSeek_swapped == Seek(IF trav.node > x THEN 0 ELSE 1, TRUE)
RefreshSeek == Seek(IF trav.node > x THEN 1 ELSE 0, TRUE)

\* rb_t_next: from no node to the first (rb_t_first), from a node to its right or up.
NextFirst ==
  /\ pc = "go" /\ trav.node = NULL
  /\ trav' = [trav EXCEPT !.stack = <<>>, !.generation = tree.generation]
  /\ Go("first")
  /\ UNCHANGED <<tree, writes, x, history>>

First ==
  /\ pc = "first"
  /\ x' = tree.link[Table][0]
  /\ Go(IF tree.link[Table][0] = NULL THEN "idle" ELSE "left")
  /\ UNCHANGED <<tree, writes, trav, history>>

NextFrom ==
  /\ pc = "go" /\ trav.node # NULL
  /\ x' = trav.node
  /\ Go(IF tree.link[trav.node][1] = NULL THEN "up" ELSE "right")
  /\ UNCHANGED <<tree, writes, trav, history>>

Right ==
  /\ pc = "right"
  /\ IF Len(trav.stack) >= RB_MAX_HEIGHT THEN Go("assert") /\ UNCHANGED <<trav, x>>
     ELSE /\ trav' = [trav EXCEPT !.stack = Pushed(x)]
          /\ x' = tree.link[x][1]
          /\ Go("left")
  /\ UNCHANGED <<tree, writes, history>>

LeftTest ==
  /\ pc = "left"
  /\ Go(IF x \in {NULL, Wild} THEN "wild" ELSE IF tree.link[x][0] = NULL THEN "take" ELSE "further")
  /\ UNCHANGED <<tree, writes, trav, x, history>>

Left ==
  /\ pc = "further"
  /\ IF Len(trav.stack) >= RB_MAX_HEIGHT THEN Go("assert") /\ UNCHANGED <<trav, x>>
     ELSE /\ trav' = [trav EXCEPT !.stack = Pushed(x)]
          /\ x' = tree.link[x][0]
          /\ Go("left")
  /\ UNCHANGED <<tree, writes, history>>

Up ==
  /\ pc = "up"
  /\ IF trav.stack = <<>>
     THEN Go("idle") /\ trav' = [trav EXCEPT !.node = NULL] /\ UNCHANGED x
     ELSE /\ x' = Last(trav.stack)
          /\ trav' = [trav EXCEPT !.stack = Front(@)]
          /\ Go(IF tree.link[Last(trav.stack)][1] = x THEN "up" ELSE "take")
  /\ UNCHANGED <<tree, writes, history>>

\* The item is returned and map_each is called with it.  An item that is not there yet is
\* a wild pointer, or NULL, which ends the walk.
Take ==
  /\ pc = "take"
  /\ trav' = [trav EXCEPT !.node = x]
  /\ IF tree.data[x] # Garbage
     THEN Go("call") /\ visited' = Append(visited, x)
     ELSE pc' \in {"wild", "idle"} /\ UNCHANGED visited
  /\ UNCHANGED <<tree, writes, x, due, overlapped>>

Called ==
  /\ pc = "call"
  /\ Go("next")
  /\ overlapped' = (overlapped \/ writes # <<>>)
  /\ UNCHANGED <<tree, writes, trav, x, visited, due>>

-----------------------------------------------------------------------------
Init ==
  /\ tree = FoldLeft(LAMBDA t, k : rb_replace(t, k, Map), rb_create, Loaded)
  /\ writes = <<>>
  /\ trav = [node |-> NULL, stack |-> <<>>, generation |-> 0]
  /\ pc = "idle" /\ x = NULL
  /\ visited = <<>> /\ due = {} /\ overlapped = FALSE

WalkStep ==
  \/ NextTest \/ Refresh \/ RefreshRoot \/ RefreshSeek \/ NextFirst \/ First \/ NextFrom
  \/ Right \/ LeftTest \/ Left \/ Up \/ Take \/ Called

Next == (\E key \in Keys : PutStart(key)) \/ PutWrite \/ Begin \/ WalkStep

Spec == Init /\ [][Next]_vars

\* Both threads run; that the index is walked again is up to events.
FairSpec == Spec /\ WF_vars(PutWrite) /\ WF_vars(WalkStep)

-----------------------------------------------------------------------------
(* Properties. *)

\* Unless rb_probe runs inside rb_t_next (rb_generation does nothing for that), maps may
\* come into the index between the steps of a walk: it neither fails an assertion of rb.c
\* nor follows memory that was never written.
NoFault == pc \in Faults => overlapped

\* rb_t_next: "Returns the next data item in inorder within the tree being traversed",
\* wherever rotations have put the nodes of the traverser's stack.
InOrder == ~overlapped => \A i \in 1 .. Len(visited) - 1 : visited[i] < visited[i + 1]

\* A walk that has ended has visited every map that was in the index when it began.
NoneMissed == pc = "idle" /\ ~overlapped => due \subseteq ToSet(visited)

\* trav_refresh: "assert (i != NULL)".  The search comes to the node that it looks for.
AssertionsHold == pc # "assert"

\* Every walk ends, also when rb_probe moves subtrees under it, or the process with it.
WalkEnds == pc # "idle" ~> pc \in Faults \cup {"idle"}

=============================================================================
