-------------------------------- MODULE Store --------------------------------
(***************************************************************************)
(* One map of the server: the tree of branches and its index by id (map.c,  *)
(* branch.c), and the two files behind it (io.c): bhead, an array of fixed  *)
(* size records, one per branch, and an sqlite table of texts keyed by id.  *)
(* Operations change memory first and then rewrite the affected records one *)
(* after the other; the process may die between any two writes and is then  *)
(* restarted from the files (io_load_map).  One map is served by one        *)
(* thread, so operations do not interleave with each other.                 *)
(*                                                                          *)
(* A write reaches the file as a whole and stays there once fflush or       *)
(* sqlite3_step has returned: processes crash here, machines do not.        *)
(***************************************************************************)
EXTENDS Branch, FiniteSets

CONSTANTS
  ClientIds,           \* branch ids that clients send
  GenBase,             \* insert_path numbers its branches GenBase + branch_n
  Texts,               \* the contents of a branch: text and note_id
  fold,                \* lower-cased text, as strcasecmp compares it
  NoData,              \* no row in sqlite; data == NULL in memory
  MaxDeleteChildren,   \* clients delete branches with at most this many children
  MaxNames             \* bound: length of the paths of insert_path

ASSUME ClientIdsAssumption == ClientIds \subseteq Nat
ASSUME GenBaseAssumption == GenBase \in Nat \ {0}
ASSUME TextsAssumption == Texts # {} /\ NoData \notin Texts /\ fold \in [Texts -> Texts]
ASSUME MaxDeleteChildrenAssumption == MaxDeleteChildren \in Nat
ASSUME MaxNamesAssumption == MaxNames \in Nat

VARIABLES
  up,          \* "run", "down", "exited" (io_load_map gave up), "damaged"
  branch_n,    \* map->branch_n: objects and records handed out so far
  root,        \* map->branch
  tree,        \* parent, child_list and total_branch_n of every object
  bid,         \* branch_t.id, 0 once deleted
  text,        \* branch_t.data
  index,       \* map->branch_index
  todo,        \* the writes that the running operation still has to make
  pc,          \* where the running operation continues after them
  bhead,       \* records of the bhead file
  filesize,    \* its length, in records
  row,         \* the sqlite table
  intact       \* history: every load found each slot of the child lists claimed once

memory == <<branch_n, root, tree, bid, text, index>>
files  == <<bhead, filesize, row>>
vars   == <<up, memory, todo, pc, files, intact>>

RootId == 1
RootText == CHOOSE txt \in Texts : TRUE     \* "My map"
Ids == ClientIds \cup {0, RootId} \cup {GenBase + n : n \in Findex}
Far == MaxBranch     \* the positions 9999 and 999999: past the end of any list

\* bhead_t
Records == [id : Ids, parent_id : Ids, pos : 0 .. UINT16_MAX, child_n : Nat]
ZeroRecord == [id |-> 0, parent_id |-> 0, pos |-> 0, child_n |-> 0]

Writes == [kind : {"head", "data"}, at : Findex]
HeadWrite(f) == [kind |-> "head", at |-> f]
DataWrite(f) == [kind |-> "data", at |-> f]

Idle == [op |-> "idle"]
Finals == [op : {"insert"}, id : ClientIds, text : Texts] \cup [op : {"move"}, id : ClientIds]
Pcs == {Idle} \cup [op : {"delete"}, b : Findex, i : Nat]
              \cup [op : {"path"}, at : Findex, names : Seq(Texts), last : Finals]

-----------------------------------------------------------------------------
(* What io.c writes, in its order. *)

\* io_save_branch_head: the record of f as memory has it now; the position of a branch
\* that its parent does not list, -1, becomes 65535.
Record(t, ids, f) ==
  [id        |-> ids[f],
   parent_id |-> IF t.parent[f] = NULL THEN 0 ELSE ids[t.parent[f]],
   pos       |-> IF t.parent[f] = NULL THEN 0 ELSE uint16(branch_get_pos(t, f)),
   child_n   |-> Len(t.child_list[f])]

\* Mutant of io_childs_reordered: the first child that shifted is left out.
io_childs_reordered_late(t, p, pos) ==
  [i \in 1 .. Len(t.child_list[p]) - pos - 1 |-> HeadWrite(t.child_list[p][pos + 1 + i])]

io_childs_reordered(t, p, pos) ==
  [i \in 1 .. Len(t.child_list[p]) - pos |-> HeadWrite(t.child_list[p][pos + i])]

\* Mutant of io_branch_new: the text is not saved.
io_branch_new_no_data(t, f) ==
  <<HeadWrite(f)>>
    \o (IF t.parent[f] = NULL THEN <<>>
        ELSE <<HeadWrite(t.parent[f])>>
               \o io_childs_reordered(t, t.parent[f], branch_get_pos(t, f)))

io_branch_new(t, f) ==
  <<HeadWrite(f)>>
    \o (IF t.parent[f] = NULL THEN <<>>
        ELSE <<HeadWrite(t.parent[f])>>
               \o io_childs_reordered(t, t.parent[f], branch_get_pos(t, f)))
    \o <<DataWrite(f)>>

\* Mutants of io_branch_moved: the parents before the branch; the branch left out.
io_branch_moved_parents_first(t, f, old_parent, old_pos) ==
  <<HeadWrite(t.parent[f]), HeadWrite(old_parent), HeadWrite(f)>>
    \o io_childs_reordered(t, t.parent[f], branch_get_pos(t, f) + 1)
    \o io_childs_reordered(t, old_parent, old_pos)
io_branch_moved_parents_only(t, f, old_parent, old_pos) ==
  <<HeadWrite(t.parent[f]), HeadWrite(old_parent)>>
    \o io_childs_reordered(t, t.parent[f], branch_get_pos(t, f) + 1)
    \o io_childs_reordered(t, old_parent, old_pos)

io_branch_moved(t, f, old_parent, old_pos) ==
  <<HeadWrite(f), HeadWrite(t.parent[f]), HeadWrite(old_parent)>>
    \o io_childs_reordered(t, t.parent[f], branch_get_pos(t, f) + 1)
    \o io_childs_reordered(t, old_parent, old_pos)

io_branch_deleted(t, f, old_parent, old_pos) ==
  <<HeadWrite(f), HeadWrite(old_parent)>> \o io_childs_reordered(t, old_parent, old_pos)

-----------------------------------------------------------------------------
(* Operations.  An operation whose code returns early leaves the map alone.  *)
(* One that touches a branch whose data is NULL is a segmentation fault,     *)
(* which Crash covers.                                                       *)

Ready == up = "run" /\ todo = <<>>

\* insert: create the branch, link and index it, and write it out.
insert(p, id, pos, txt) ==
  LET f == branch_n
      t == branch_add(tree, f, p, pos)
  IN  /\ index[id] = NULL
      /\ branch_n < MaxBranch
      /\ text[p] # NoData
      /\ branch_n' = branch_n + 1
      /\ tree' = t
      /\ bid' = [bid EXCEPT ![f] = id]
      /\ text' = [text EXCEPT ![f] = txt]
      /\ index' = [index EXCEPT ![id] = f]
      /\ todo' = io_branch_new(t, f)
      /\ UNCHANGED <<up, root, files, intact>>

\* Mutant of CanMove: a branch may move into its own subtree.
CanMove_anywhere(b, npb) == tree.parent[b] # NULL /\ b # npb

\* move refuses the root, and a new parent inside the subtree that moves.
CanMove(b, npb) ==
  /\ tree.parent[b] # NULL
  /\ b # npb /\ b \notin Ancestors(tree.parent, npb)

move(b, npb, pos) ==
  LET opb     == tree.parent[b]
      old_pos == branch_get_pos(tree, b)
      t       == branch_add(branch_detach(tree, b), b, npb, pos)
  IN  /\ CanMove(b, npb) /\ listed(tree, b)
      /\ text[b] # NoData /\ text[npb] # NoData
      /\ tree' = t
      /\ todo' = io_branch_moved(t, b, opb, old_pos)
      /\ UNCHANGED <<up, branch_n, root, bid, text, index, files, intact>>

Insert ==
  /\ Ready /\ pc = Idle
  /\ \E pid \in Ids, id \in ClientIds, pos \in 0 .. Far, txt \in Texts :
       index[pid] # NULL /\ insert(index[pid], id, pos, txt)
  /\ UNCHANGED pc

Move ==
  /\ Ready /\ pc = Idle
  /\ \E id, npid \in Ids, pos \in 0 .. Far :
       /\ index[id] # NULL /\ index[npid] # NULL
       /\ move(index[id], index[npid], pos)
  /\ UNCHANGED pc

\* update: replace the contents and save the row.
Update ==
  /\ Ready /\ pc = Idle
  /\ \E id \in Ids, txt \in Texts :
       /\ index[id] # NULL /\ text[index[id]] # NoData
       /\ text' = [text EXCEPT ![index[id]] = txt]
       /\ todo' = <<DataWrite(index[id])>>
  /\ UNCHANGED <<up, branch_n, root, tree, bid, index, pc, files, intact>>

\* delete: the loop over the children, one move to the root per round ...
DeleteStart ==
  /\ Ready /\ pc = Idle
  /\ \E id \in Ids :
       /\ index[id] # NULL
       /\ tree.parent[index[id]] # NULL
       /\ text[index[id]] # NoData
       /\ Len(tree.child_list[index[id]]) <= MaxDeleteChildren
       /\ pc' = [op |-> "delete", b |-> index[id], i |-> 0]
  /\ UNCHANGED <<up, memory, todo, files, intact>>

DeleteChild ==
  /\ Ready /\ pc.op = "delete"
  /\ pc.i < Len(tree.child_list[pc.b])
  /\ move(tree.child_list[pc.b][pc.i + 1], root, Far)
  /\ pc' = [pc EXCEPT !.i = @ + 1]

\* ... and then the branch itself.
DeleteEnd ==
  /\ Ready /\ pc.op = "delete"
  /\ pc.i >= Len(tree.child_list[pc.b])
  /\ listed(tree, pc.b)
  /\ LET b       == pc.b
         opb     == tree.parent[b]
         old_pos == branch_get_pos(tree, b) % 256
     IN  /\ tree' = branch_detach(tree, b)
         /\ index' = [index EXCEPT ![bid[b]] = NULL]
         /\ bid' = [bid EXCEPT ![b] = 0]
         /\ todo' = io_branch_deleted(tree', b, opb, old_pos)
  /\ pc' = Idle
  /\ UNCHANGED <<up, branch_n, root, text, files, intact>>

\* insert_in_path and move_to_path: look up where the path starts, ...
PathStart ==
  /\ Ready /\ pc = Idle
  /\ \E pid \in Ids, n \in 0 .. MaxNames, last \in Finals :
     \E names \in [1 .. n -> Texts] :
       LET at == IF pid = 0 THEN root ELSE index[pid]
       IN  /\ at # NULL
           /\ branch_n + n < MaxBranch
           /\ pc' = [op |-> "path", at |-> at, names |-> names, last |-> last]
  /\ UNCHANGED <<up, memory, todo, files, intact>>

\* Mutant of Deeper: the loop goes on without the next name and the next parent.
Deeper_stays(f) == pc
Deeper(f) == [op |-> "path", at |-> f, names |-> Tail(pc.names), last |-> pc.last]

SameName(name, f) == fold[name] = fold[text[f]]

\* ... then, name by name, descend into the first child of that name ...
PathDescend ==
  /\ Ready /\ pc.op = "path" /\ pc.names # <<>>
  /\ \E i \in 1 .. Len(tree.child_list[pc.at]) :
       LET child(j) == tree.child_list[pc.at][j]
       IN  /\ \A j \in 1 .. i : text[child(j)] # NoData
           /\ \A j \in 1 .. i : SameName(Head(pc.names), child(j)) <=> j = i
           /\ pc' = Deeper(child(i))
  /\ UNCHANGED <<up, memory, todo, files, intact>>

\* ... or create it, giving up when the generated id is taken; ...
PathCreate ==
  /\ Ready /\ pc.op = "path" /\ pc.names # <<>>
  /\ \A i \in 1 .. Len(tree.child_list[pc.at]) :
       LET child == tree.child_list[pc.at][i]
       IN  text[child] # NoData /\ ~SameName(Head(pc.names), child)
  /\ \/ /\ insert(pc.at, GenBase + branch_n, Far, Head(pc.names))
        /\ pc' = Deeper(branch_n)
     \/ /\ index[GenBase + branch_n] # NULL
        /\ pc' = Idle
        /\ UNCHANGED <<up, memory, todo, files, intact>>

\* ... at the end of the path insert, or move, the branch asked for.
PathInsert ==
  /\ Ready /\ pc.op = "path" /\ pc.names = <<>> /\ pc.last.op = "insert"
  /\ \/ insert(pc.at, pc.last.id, Far, pc.last.text)
     \/ index[pc.last.id] # NULL /\ UNCHANGED <<up, memory, todo, files, intact>>
  /\ pc' = Idle

PathMove ==
  /\ Ready /\ pc.op = "path" /\ pc.names = <<>> /\ pc.last.op = "move"
  /\ LET b == index[pc.last.id]
     IN  \/ b # NULL /\ move(b, pc.at, Far)
         \/ ~(b # NULL /\ CanMove(b, pc.at)) /\ UNCHANGED <<up, memory, todo, files, intact>>
  /\ pc' = Idle

-----------------------------------------------------------------------------
(* The files: one write at a time, a crash at any moment, loading again. *)

Flush ==
  /\ up = "run" /\ todo # <<>>
  /\ LET w == Head(todo)
         f == w.at
     IN  \/ /\ w.kind = "head"
            /\ bhead' = [bhead EXCEPT ![f] = Record(tree, bid, f)]
            /\ filesize' = IF f < filesize THEN filesize ELSE f + 1
            /\ UNCHANGED row
         \/ /\ w.kind = "data"
            /\ row' = [row EXCEPT ![bid[f]] = text[f]]
            /\ UNCHANGED <<bhead, filesize>>
  /\ todo' = Tail(todo)
  /\ UNCHANGED <<up, memory, pc, intact>>

NoMemory ==
  /\ branch_n' = 0 /\ root' = NULL /\ tree' = EmptyTree
  /\ bid' = [f \in Findex |-> 0]
  /\ text' = [f \in Findex |-> NoData]
  /\ index' = [id \in Ids |-> NULL]

Crash ==
  /\ up = "run"
  /\ up' = "down"
  /\ NoMemory
  /\ todo' = <<>> /\ pc' = Idle
  /\ UNCHANGED <<files, intact>>

\* A loop that has begun meets a branch without data: a segmentation fault.
Segfault ==
  /\ Ready
  /\ \/ /\ pc.op = "delete" /\ pc.i < Len(tree.child_list[pc.b])
        /\ text[tree.child_list[pc.b][pc.i + 1]] = NoData
     \/ /\ pc.op = "path" /\ pc.names # <<>>
        /\ \E i \in 1 .. Len(tree.child_list[pc.at]) :
             LET child(j) == tree.child_list[pc.at][j]
             IN  /\ text[child(i)] = NoData
                 /\ \A j \in 1 .. i - 1 :
                      text[child(j)] # NoData /\ ~SameName(Head(pc.names), child(j))
     \/ pc.op = "path" /\ text[pc.at] = NoData
     \/ /\ pc.op = "path" /\ pc.names = <<>> /\ pc.last.op = "move"
        /\ index[pc.last.id] # NULL /\ text[index[pc.last.id]] = NoData
  /\ Crash

\* branch_detach of a branch that its parent does not list copies child_n entries into
\* room for child_n - 1 (only a load can bring that about).  What follows is undefined:
\* the model goes no further than the next start.
Overflow ==
  /\ up' = "damaged" /\ intact' = FALSE
  /\ NoMemory
  /\ todo' = <<>> /\ pc' = Idle
  /\ UNCHANGED files

MoveUnlisted ==
  /\ Ready /\ pc = Idle
  /\ \E id, npid \in Ids :
       LET b == index[id]
           npb == index[npid]
       IN  /\ b # NULL /\ npb # NULL /\ CanMove(b, npb) /\ ~listed(tree, b)
           /\ text[b] # NoData /\ text[npb] # NoData
  /\ Overflow

DeleteUnlisted ==
  /\ Ready /\ pc.op = "delete"
  /\ pc.i >= Len(tree.child_list[pc.b])
  /\ ~listed(tree, pc.b)
  /\ Overflow

PathMoveUnlisted ==
  /\ Ready /\ pc.op = "path" /\ pc.names = <<>> /\ pc.last.op = "move"
  /\ LET b == index[pc.last.id]
     IN  /\ b # NULL /\ CanMove(b, pc.at) /\ ~listed(tree, b)
         /\ text[b] # NoData /\ text[pc.at] # NoData
  /\ Overflow

Restart ==
  /\ up \in {"exited", "damaged"}
  /\ up' = "down"
  /\ UNCHANGED <<memory, todo, pc, files, intact>>

\* io_load_map: the records it does not skip, ...
\* Mutant of Used: deleted records are loaded too.
Used_all == 0 .. filesize - 1
Used == {f \in 0 .. filesize - 1 : bhead[f].id # 0}

\* ... the index it builds (the last record of an id wins), ...
Found(id) == {f \in Used : bhead[f].id = id}
LoadedIndex(id) ==
  IF Found(id) = {} THEN NULL
  ELSE CHOOSE f \in Found(id) : \A g \in Found(id) : g <= f

\* ... the parents that index gives, ...
LoadedParent(f) ==
  IF f \in Used /\ bhead[f].parent_id # 0 THEN LoadedIndex(bhead[f].parent_id) ELSE NULL
Orphans == {f \in Used : bhead[f].parent_id # 0 /\ Found(bhead[f].parent_id) = {}}
Roots == {f \in Used : bhead[f].parent_id = 0}
LoadedRoot == CHOOSE f \in Roots : \A g \in Roots : g <= f

\* ... and the slots of the child lists that it fills; of two records that claim one slot
\* the later wins, and the other branch has a parent that does not list it.
Filling(p, i) == {f \in Used : LoadedParent(f) = p /\ bhead[f].pos = i}
Slot(p, i) == CHOOSE f \in Filling(p, i) : \A g \in Filling(p, i) : g <= f
Unlisted == {f \in Used : LoadedParent(f) # NULL /\ Slot(LoadedParent(f), bhead[f].pos) # f}
SlotsFit ==
  /\ \A f \in Used : LoadedParent(f) # NULL => bhead[f].pos < bhead[LoadedParent(f)].child_n
  /\ \A p \in Used : \A i \in 0 .. bhead[p].child_n - 1 : Filling(p, i) # {}

\* branch_calculate counts, for every branch, those below it that the walk along the child
\* lists from the root meets.
branch_calculate(parent) ==
  [f \in Findex |-> Cardinality({g \in Used :
     /\ {f, LoadedRoot} \subseteq Ancestors(parent, g)
     /\ ({g} \cup Ancestors(parent, g)) \cap Unlisted = {}})]

LoadedTree ==
  LET parent == [f \in Findex |-> LoadedParent(f)]
  IN  [parent     |-> parent,
       child_list |-> [p \in Findex |->
                         IF p \in Used THEN [i \in 1 .. bhead[p].child_n |-> Slot(p, i - 1)] ELSE <<>>],
       total      |-> branch_calculate(parent)]

\* Mutant of LoadedCount: only records in use are counted.
LoadedCount_used == Cardinality(Used)
LoadedCount == filesize

Load ==
  /\ up = "down"
  /\ Orphans = {} /\ Roots # {} /\ SlotsFit
  /\ up' = "run"
  /\ branch_n' = LoadedCount
  /\ root' = LoadedRoot
  /\ tree' = LoadedTree
  /\ bid' = [f \in Findex |-> IF f \in Used THEN bhead[f].id ELSE 0]
  /\ text' = [f \in Findex |-> IF f \in Used THEN row[bhead[f].id] ELSE NoData]
  /\ index' = [id \in Ids |-> LoadedIndex(id)]
  /\ intact' = (intact /\ Unlisted = {})
  /\ UNCHANGED <<todo, pc, files>>

\* "Abnormality detected: no parent_branch", exit(0).
LoadExit ==
  /\ up = "down"
  /\ Orphans # {}
  /\ up' = "exited"
  /\ UNCHANGED <<memory, todo, pc, files, intact>>

\* No root, or a slot out of range or never filled, which the loader does not notice: it
\* reads or writes memory it does not own.  Undefined, as above.
LoadDamaged ==
  /\ up = "down"
  /\ Orphans = {} /\ ~(Roots # {} /\ SlotsFit)
  /\ up' = "damaged" /\ intact' = FALSE
  /\ UNCHANGED <<memory, todo, pc, files>>

-----------------------------------------------------------------------------
\* map_create_empty: empty files, the root in memory, its records to be written.
Init ==
  /\ up = "run"
  /\ branch_n = 1 /\ root = 0 /\ tree = EmptyTree
  /\ bid = [f \in Findex |-> IF f = 0 THEN RootId ELSE 0]
  /\ text = [f \in Findex |-> IF f = 0 THEN RootText ELSE NoData]
  /\ index = [id \in Ids |-> IF id = RootId THEN 0 ELSE NULL]
  /\ todo = <<HeadWrite(0), DataWrite(0)>>
  /\ pc = Idle
  /\ bhead = [f \in Findex |-> ZeroRecord]
  /\ filesize = 0
  /\ row = [id \in Ids |-> NoData]
  /\ intact = TRUE

Continue == DeleteChild \/ DeleteEnd \/ PathDescend \/ PathCreate \/ PathInsert \/ PathMove
            \/ Segfault \/ DeleteUnlisted \/ PathMoveUnlisted

Next ==
  \/ Insert \/ Move \/ MoveUnlisted \/ Update \/ DeleteStart \/ PathStart
  \/ Continue
  \/ Flush \/ Crash \/ Restart
  \/ Load \/ LoadExit \/ LoadDamaged

Spec == Init /\ [][Next]_vars

\* The map thread keeps running the operation it has begun.
FairSpec == Spec /\ WF_vars(Flush) /\ WF_vars(Continue)

-----------------------------------------------------------------------------
(* Properties. *)

\* Every variable keeps its C type: findex, ids and counts in range, and the lists of
\* writes and child lists well formed after any operation, crash or load.
TypeOK ==
  /\ up \in {"run", "down", "exited", "damaged"}
  /\ branch_n \in 0 .. MaxBranch
  /\ root \in Findex \cup {NULL}
  /\ tree \in Trees
  /\ bid \in [Findex -> Ids]
  /\ text \in [Findex -> Texts \cup {NoData}]
  /\ index \in [Ids -> Findex \cup {NULL}]
  /\ todo \in Seq(Writes)
  /\ pc \in Pcs
  /\ bhead \in [Findex -> Records]
  /\ filesize \in 0 .. MaxBranch
  /\ row \in [Ids -> Texts \cup {NoData}]
  /\ intact \in BOOLEAN

\* Whatever operations ran and wherever a crash cut them, a child list holds only
\* children of its branch, each once.  And it holds all of them, on which branch_detach
\* and branch_get_pos rely, unless a load found a slot claimed by two records.
TreeConsistent == ListsSound(tree) /\ (intact => Linked(tree))

\* total_branch_n, which insert, move and delete only ever adjust by differences
\* and which is sent to clients, counts the branches below each branch, as long as no
\* load has left a branch out of its list (branch_calculate does not meet it).
TotalsKept == \A f \in Findex : tree.total[f] = Cardinality(Descendants(tree, f))
TotalsCount == intact => TotalsKept

\* The index finds exactly the branches that are in the tree: an id of a deleted
\* branch is free again, and no two branches answer to one id.
IndexExact ==
  \A id \in Ids, f \in Findex : index[id] = f <=> id # 0 /\ bid[f] = id

\* Every branch that the index finds hangs below the root, as long as no load has left
\* one out of its list: delete of the parent does not move such a child to the root.
Rooted ==
  up = "run" => \A f \in Findex \ {root} : bid[f] # 0 => root \in Ancestors(tree.parent, f)
AllReachable == intact => Rooted

\* Between operations the files hold the whole map: io_load_map would accept them
\* and rebuild the same tree, ids, counts and texts (io_branch_new, io_branch_moved
\* and io_branch_deleted rewrite every record that an operation made stale).  A map that
\* was loaded with two records for one slot is not mended by later operations.
ReloadRestores ==
  intact /\ Ready =>
    /\ Orphans = {} /\ Roots = {root} /\ SlotsFit /\ Unlisted = {}
    /\ filesize = branch_n
    /\ \A f \in Findex : bid[f] = IF f \in Used THEN bhead[f].id ELSE 0
    /\ LoadedTree.parent = tree.parent /\ LoadedTree.total = tree.total
    /\ \A f \in Used : LoadedTree.child_list[f] = tree.child_list[f]
    /\ \A f \in Used : text[f] = row[bid[f]]

\* In the middle of an operation only the record it writes next may disagree with
\* memory about an id or a parent: the edges in the file change in one write.
EdgesAgree ==
  up = "run" =>
    \A f \in Findex :
      \/ todo # <<>> /\ todo[1] = HeadWrite(f)
      \/ /\ bhead[f].id = bid[f]
         /\ bhead[f].parent_id = Record(tree, bid, f).parent_id
EdgesCurrent == intact => EdgesAgree

\* A crash at any point leaves no record whose parent is missing, so the server does not
\* refuse to start ("Abnormality detected", io.c) as long as every load before found
\* each slot claimed once.  (After one that did not, it may: see DeleteEnd, which then
\* zeroes a record that an unlisted child still names.)
NotRefused == up # "exited"
NoAbnormality == intact => NotRefused

\* Only deleted branches carry the id 0 that io_load_map skips ("skip deleted
\* branches"): what is linked into the tree has another id.
OnlyDeletedSkipped ==
  \A f \in Findex : bid[f] = 0 => tree.parent[f] = NULL /\ f # root

\* A crash between the head and the row of a new branch leaves a branch without
\* data, but never one with children: loading only dereferences data of parents.
DatalessAreLeaves ==
  \A f \in Findex : bid[f] # 0 /\ text[f] = NoData => tree.child_list[f] = <<>>

\* A record number belongs to one branch for ever: after its branch is deleted the
\* record stays free (findex comes from branch_n, which counts deleted records).
RecordsNeverReused ==
  [][\A f \in Findex : f < filesize /\ bhead'[f].id # bhead[f].id => bhead'[f].id = 0]_vars

\* The edges that a reader of the head file sees.
Edges ==
  [id \in {bhead[f].id : f \in Used} |-> bhead[CHOOSE f \in Used : bhead[f].id = id].parent_id]

Durable == INSTANCE DurableTree WITH edges <- Edges

\* Every operation reaches the head file as one change of one edge, however many
\* records it rewrites and wherever a crash cuts it: the file always holds a tree
\* from before or from after the operation (or after one round of delete's loop), until a
\* load has found two records for one slot.
DurableTreeImplemented == Durable!Init /\ [][intact' => Durable!Next]_Edges

\* An operation that has begun, with all its writes, comes to its end or the
\* process dies: the loops of delete and insert_path terminate.
OperationsEnd == []<>(up # "run" \/ (todo = <<>> /\ pc = Idle))

-----------------------------------------------------------------------------
(* The invariants that make the properties above inductive. *)

\* Objects not yet handed out are blank, and control never runs through NULL.
BlankInv ==
  /\ \A f \in Findex : f >= branch_n => tree.parent[f] = NULL /\ bid[f] = 0
  /\ up = "run" => root \in Findex
  /\ up # "run" => pc = Idle
  /\ pc.op = "delete" => tree.parent[pc.b] # NULL

\* Of every state; and of those in which no load has left a branch out of its list.
SoundInv == TreeConsistent /\ BlankInv
MemoryInv == Linked(tree) /\ BlankInv

\* Clients use no id that means "deleted" and delete no branch of several children.
ClientsBehave == 0 \notin ClientIds /\ MaxDeleteChildren <= 1

\* Only branches that exist are linked, the root on top, and an operation under
\* way holds branches that exist; delete has at most one child left to move.
LiveInv ==
  /\ \A f \in Findex : tree.parent[f] # NULL => bid[f] # 0 /\ bid[tree.parent[f]] # 0
  /\ up = "run" => bid[root] # 0 /\ tree.parent[root] = NULL
  /\ pc.op = "path" => bid[pc.at] # 0
  /\ pc.op = "delete" => /\ bid[pc.b] # 0
                         /\ \/ Len(tree.child_list[pc.b]) = 0
                            \/ Len(tree.child_list[pc.b]) = 1 /\ pc.i = 0

\* The records by themselves: ids are unique and every parent has a record.
FileInv ==
  /\ \A f \in Findex : f >= filesize => bhead[f].id = 0
  /\ \A f \in Findex : bhead[f].id = 0 => bhead[f].parent_id = 0
  /\ \A f, g \in Findex : bhead[f].id # 0 /\ bhead[f].id = bhead[g].id => f = g
  /\ \A f \in Findex : bhead[f].parent_id # 0 =>
       \E g \in Findex : bhead[g].id = bhead[f].parent_id

StoreInv == IndexExact /\ LiveInv /\ EdgesAgree /\ FileInv /\ NotRefused

\* Every record leads to the one root record, whichever operation a crash cut short.
FileParents == [f \in Findex |-> LoadedParent(f)]
FileRooted ==
  /\ \A f, g \in Roots : f = g
  /\ \A f \in Used \ Roots : \E r \in Roots : r \in Ancestors(FileParents, f)

\* What is not in the files yet is still to be written: heads, contents and new records.
Pending(w) == \E i \in 1 .. Len(todo) : todo[i] = w
HeadsPending ==
  up = "run" => \A f \in Findex : bid[f] # 0 => Pending(HeadWrite(f)) \/ bhead[f] = Record(tree, bid, f)
RowsPending ==
  up = "run" => \A f \in Findex : bid[f] # 0 => Pending(DataWrite(f)) \/ row[bid[f]] = text[f]
SizePending ==
  up = "run" => \/ filesize = branch_n
                \/ filesize = branch_n - 1 /\ todo # <<>> /\ todo[1] = HeadWrite(filesize)

\* A record is written for a number that is in use, and gets another id only once, as new.
WritesBelow ==
  /\ up # "run" => todo = <<>>
  /\ \A i \in 1 .. Len(todo) : todo[i].at < branch_n
IdsKept == up = "run" => \A f \in Findex : bhead[f].id = bid[f] \/ bid[f] = 0 \/ f >= filesize

\* A parent, in the file and in memory, has its contents and its row; a root has position 0.
ParentRows ==
  \A f, g \in Findex : bhead[f].id # 0 /\ bhead[g].parent_id = bhead[f].id => row[bhead[f].id] # NoData
ParentData ==
  \A g \in Findex : tree.parent[g] # NULL =>
    text[tree.parent[g]] # NoData /\ row[bid[tree.parent[g]]] # NoData
RootPos == \A f \in Findex : bhead[f].parent_id = 0 => bhead[f].pos = 0

RecordInv ==
  /\ HeadsPending /\ RowsPending /\ SizePending /\ WritesBelow /\ IdsKept
  /\ ParentRows /\ ParentData /\ RootPos

=============================================================================
