-------------------------------- MODULE Views --------------------------------
(***************************************************************************)
(* Views (view.c, vbranch.c, the view halves of map.c): every connected     *)
(* browser has a view, a tree of vbranches that overlays part of the tree   *)
(* of branches.  insert, move and delete update every view and tell its     *)
(* browser.  A view's vbranches and messages concern that view alone, so    *)
(* each operation is an operator on one view, applied to all of them.       *)
(*                                                                          *)
(* A browser is outside the repository.  It is modelled by what the         *)
(* messages say: it keeps the branches it was told of, and for a folded     *)
(* branch the number of branches hidden below it.  Messages are delivered   *)
(* before the next operation here.  Branches are named by findex; texts and *)
(* the visible flag, which is only passed on, are left out.                 *)
(***************************************************************************)
EXTENDS Branch, FiniteSets, FiniteSetsExt

CONSTANTS
  ViewIds,         \* the views browsers may open
  Positions,       \* where browsers insert: 0 is in front, MaxBranch at the end
  MaxEndpoints,    \* bound: branches that a browser opens a view at
  Habits           \* what browsers ask for although the server does not cope with it

\* "insert folded": insert below a branch whose children the browser has not loaded.
\* "expand again": expand what is expanded, or the root.
ASSUME PositionsAssumption == Positions \subseteq Nat
ASSUME MaxEndpointsAssumption == MaxEndpoints \in Nat
ASSUME HabitsAssumption == Habits \subseteq {"insert folded", "expand again"}

VARIABLES
  tree,       \* the branches
  branch_n,   \* how many objects were created
  views,      \* map->view_index
  vs,         \* the vbranches of every view
  browser     \* what every browser shows

vars == <<tree, branch_n, views, vs, browser>>

Root == 0
Nobody == NULL          \* operations that run without a view
Live == {f \in 0 .. branch_n - 1 : f = Root \/ tree.parent[f] # NULL}
Absent == -2            \* a branch that the browser does not show

\* A vbranch_t is named by its branch and 0, or 1 if the view has another object for it.
VBranches == Findex \X {0, 1}
NoVb == <<NULL, 0>>
BranchOf(vb) == vb[1]

ViewStates ==
  [att    : [Findex -> Seq(VBranches)],              \* branch->data->vbranch_list
   parent : [VBranches -> VBranches \cup {NoVb}],
   childs : [VBranches -> Seq(VBranches)],           \* child_list and child_n
   index  : [Findex -> VBranches \cup {NoVb}]]       \* view->vbranch_index

NoView ==
  [att    |-> [f \in Findex |-> <<>>],
   parent |-> [vb \in VBranches |-> NoVb],
   childs |-> [vb \in VBranches |-> <<>>],
   index  |-> [f \in Findex |-> NoVb]]

-----------------------------------------------------------------------------
(* view.c and vbranch.c, on the state s of one view over the tree t. *)

Sees(s, f) == s.att[f] # <<>>
view_get_vbranch(s, f) == s.att[f][1]

\* The object that vbranch_new returns for f.
vbranch_new(s, f) ==
  CHOOSE vb \in VBranches : BranchOf(vb) = f /\ ~Contains(s.att[f], vb)

\* vbranch_index_put and branch_attach_vbranch, for new vbranches of all branches in bs.
vbranch_index_put(s, bs) ==
  [f \in Findex |-> IF f \in bs THEN vbranch_new(s, f) ELSE s.index[f]]
Attach(s, bs) ==
  [s EXCEPT
     !.att = [f \in Findex |-> IF f \in bs THEN Append(s.att[f], vbranch_new(s, f)) ELSE s.att[f]],
     !.index = vbranch_index_put(s, bs)]

vbranch_add(s, t, vb, pvb) ==
  LET l   == s.childs[pvb]
      pos == branch_get_pos(t, BranchOf(vb))
      at  == IF pos < 0 \/ pos > Len(l) THEN Len(l) ELSE pos
  IN  [s EXCEPT !.parent[vb] = pvb, !.childs[pvb] = InsertAt(l, at + 1, vb)]

\* Mutant of vbranch_detach: the parent keeps vb in its list.
vbranch_detach_listed(s, vb) == [s EXCEPT !.parent[vb] = NoVb]

\* child_n falls by one even if the list does not hold vb.
vbranch_detach(s, vb) ==
  LET p == s.parent[vb]
      l == SelectSeq(s.childs[p], LAMBDA c : c # vb)
  IN  IF p = NoVb THEN s
      ELSE [s EXCEPT !.parent[vb] = NoVb, !.childs[p] = SubSeq(l, 1, Len(s.childs[p]) - 1)]

\* New vbranches for all children of the branches in ps, hung below node[p].
Open(s, t, ps, node) ==
  LET bs    == UNION {ToSet(t.child_list[p]) : p \in ps}
      made(f) == vbranch_new(s, f)
      over(vb) == CHOOSE p \in ps : node[p] = vb
      a     == Attach(s, bs)
  IN  [a EXCEPT
         !.parent = [vb \in VBranches |->
           IF BranchOf(vb) \in bs /\ vb = made(BranchOf(vb))
           THEN node[t.parent[BranchOf(vb)]] ELSE s.parent[vb]],
         !.childs = [vb \in VBranches |->
           IF \E p \in ps : node[p] = vb
           THEN [i \in 1 .. Len(t.child_list[over(vb)]) |-> made(t.child_list[over(vb)][i])]
           ELSE IF BranchOf(vb) \in bs /\ vb = made(BranchOf(vb)) THEN <<>> ELSE s.childs[vb]]]

Above(t, f) == {f} \cup Ancestors(t.parent, f)

\* The nearest branch at or above f that the view sees (the root, if no other).
Endpoint(s, t, f) ==
  CHOOSE g \in Above(t, f) :
    Sees(s, g) /\ \A h \in Above(t, f) : Sees(s, h) => h = g \/ h \in Ancestors(t.parent, g)

\* view_expand_to: open every branch between f and the nearest one that is seen, and
\* f itself if with_children.  found is that nearest one; for the root it stays 0.
view_expand_to(s, t, f, with_children) ==
  LET top     == Endpoint(s, t, f)
      missing == Above(t, f) \ Above(t, top)
      ps      == {t.parent[g] : g \in missing}
      node    == [p \in ps |-> IF p = top THEN view_get_vbranch(s, top) ELSE vbranch_new(s, p)]
      path    == IF missing = {} THEN s ELSE Open(s, t, ps, node)
  IN  [s     |-> IF with_children /\ t.child_list[f] # <<>>
                 THEN Open(path, t, {f}, (f :> view_get_vbranch(path, f)))
                 ELSE path,
       found |-> IF f = Root THEN NoVb ELSE view_get_vbranch(s, top)]

\* expand: the list of all children, those that are there already kept.
expand(s, t, vb) ==
  LET l       == t.child_list[BranchOf(vb)]
      there(f) == {c \in ToSet(s.childs[vb]) : BranchOf(c) = f}
      bs      == {f \in ToSet(l) : there(f) = {}}
      made(f) == IF f \in bs THEN vbranch_new(s, f) ELSE CHOOSE c \in there(f) : TRUE
      a       == Attach(s, bs)
  IN  [a EXCEPT
         !.parent = [c \in VBranches |->
           IF BranchOf(c) \in bs /\ c = made(BranchOf(c)) THEN vb ELSE s.parent[c]],
         !.childs = [c \in VBranches |->
           IF c = vb THEN [i \in 1 .. Len(l) |-> made(l[i])]
           ELSE IF BranchOf(c) \in bs /\ c = made(BranchOf(c)) THEN <<>> ELSE s.childs[c]]]

\* The vbranches that a recursion over child_list reaches from vb.
Reach(s, vb) ==
  LET r[n \in 0 .. MaxBranch] ==
        IF n = 0 THEN {vb}
        ELSE LET up == r[n - 1] IN up \cup UNION {ToSet(s.childs[x]) : x \in up}
  IN  r[MaxBranch]

\* Mutant of view_destroy: the branches keep the vbranches on their lists.
view_destroy_attached(s) == [NoView EXCEPT !.att = s.att]

\* branch_detach_vbranch, for all vbranches in gone.
branch_detach_vbranch(att, gone) ==
  [f \in Findex |-> SelectSeq(att[f], LAMBDA vb : vb \notin gone)]

\* view_destroy: everything that the view's root reaches goes.
view_destroy(s) ==
  [NoView EXCEPT !.att = branch_detach_vbranch(s.att, Reach(s, view_get_vbranch(s, Root)))]

-----------------------------------------------------------------------------
(* Messages, and what a browser makes of them. *)

\* vbranch_to_json: the tree below vb; a branch without "childs" hides branch_n branches.
vbranch_to_json(s, t, vb) ==
  LET nodes == Reach(s, vb)
      kids  == UNION {ToSet(s.childs[x]) : x \in nodes}
      over(f) == CHOOSE x \in nodes : \E c \in ToSet(s.childs[x]) : BranchOf(c) = f
  IN  [top    |-> BranchOf(vb),
       parent |-> [f \in {BranchOf(c) : c \in kids} |-> BranchOf(over(f))],
       hidden |-> [f \in {BranchOf(x) : x \in nodes} |->
                     IF \E x \in nodes : BranchOf(x) = f /\ s.childs[x] # <<>>
                     THEN 0 ELSE t.total[f]]]

mapInit(j) == [name |-> "mapInit", branch |-> j]
mapInsert(p, j) == [name |-> "mapInsert", parent |-> p, branch |-> j]
mapMove(f, p) == [name |-> "mapMove", branch |-> f, parent |-> p]
mapDelete(f) == [name |-> "mapDelete", branch |-> f]
mapCount(f, n) == [name |-> "mapCount", branch |-> f, n |-> n]

\* A new branch, as the browser that creates it shows it.
Leaf(f) == [top |-> f, parent |-> <<>>, hidden |-> (f :> 0)]

Blank == [parent |-> [f \in Findex |-> Absent], hidden |-> [f \in Findex |-> 0]]

\* The branches that the browser shows at or below f.
ShownBelow(m, f) ==
  LET r[n \in 0 .. MaxBranch] ==
        IF n = 0 THEN {f}
        ELSE LET up == r[n - 1] IN up \cup {g \in Findex : m.parent[g] \in up}
  IN  r[MaxBranch]

Receive(m, msg) ==
  CASE msg.name = "mapInit" ->
         LET j == msg.branch
         IN  [parent |-> [f \in Findex |-> IF f = j.top THEN NULL
                                           ELSE IF f \in DOMAIN j.parent THEN j.parent[f] ELSE Absent],
              hidden |-> [f \in Findex |-> IF f \in DOMAIN j.hidden THEN j.hidden[f] ELSE 0]]
    [] msg.name = "mapInsert" ->
         LET j == msg.branch
         IN  [parent |-> [f \in Findex |-> IF f \in DOMAIN j.parent THEN j.parent[f]
                                           ELSE IF f = j.top /\ f # msg.parent THEN msg.parent
                                           ELSE m.parent[f]],
              hidden |-> [f \in Findex |-> IF f \in DOMAIN j.hidden THEN j.hidden[f] ELSE m.hidden[f]]]
    [] msg.name = "mapMove" ->
         [m EXCEPT !.parent[msg.branch] = IF @ = Absent THEN Absent ELSE msg.parent]
    [] msg.name = "mapDelete" ->
         LET gone == ShownBelow(m, msg.branch)
         IN  [parent |-> [f \in Findex |-> IF f \in gone THEN Absent ELSE m.parent[f]],
              hidden |-> [f \in Findex |-> IF f \in gone THEN 0 ELSE m.hidden[f]]]
    [] msg.name = "mapCount" ->
         [m EXCEPT !.hidden[msg.branch] = IF m.parent[msg.branch] = Absent THEN @ ELSE @ + msg.n]

ReceiveAll(m, msgs) == FoldLeft(Receive, m, msgs)
-----------------------------------------------------------------------------
(* What insert, move and delete do to one view s; me: the view asked for it. *)
(* The result holds the view and the messages to its browser.                *)

\* insert f below p: t before, t2 after branch_add.
InsertInView(s, t, t2, f, p, me) ==
  LET x      == view_expand_to(s, t, p, TRUE)
      grow   == me /\ ~Sees(s, p)
      s1     == IF grow THEN x.s ELSE s
      \* the loop over the parent's vbranches: a folded one gets no child
      under(a, pvb) ==
        IF ~me /\ a.childs[pvb] = <<>> THEN a
        ELSE vbranch_add(Attach(a, {f}), t2, vbranch_new(a, f), pvb)
      s2     == FoldLeft(under, s1, s1.att[p])
      folded == ~Sees(s2, p) \/ s2.childs[view_get_vbranch(s2, p)] = <<>>
  IN  [s   |-> s2,
       out |-> (IF grow /\ x.found # NoVb
                THEN <<mapInsert(BranchOf(x.found), vbranch_to_json(x.s, t, x.found))>>
                ELSE <<>>)
               \o (IF me THEN <<>>
                   ELSE [i \in 1 .. Len(s2.att[f]) |->
                           mapInsert(p, vbranch_to_json(s2, t2, s2.att[f][i]))])
               \o (IF me \/ ~folded THEN <<>> ELSE <<mapCount(Endpoint(s2, t2, p), 1)>>)]

\* move f below p, in the tree t from before the move.  The view may see f, and the
\* children of p (dest_visible); there is an operator for each of the four cases.
DestVisible(s, t, p) ==
  Sees(s, p) /\ ~(t.child_list[p] # <<>> /\ s.childs[view_get_vbranch(s, p)] = <<>>)
TellOthers(me, msgs) == IF me THEN <<>> ELSE msgs

MoveVbranch(s, t, f, p, me) ==
  LET vb == view_get_vbranch(s, f)
  IN  [s   |-> vbranch_add(vbranch_detach(s, vb), t, vb, view_get_vbranch(s, p)),
       out |-> TellOthers(me, <<mapMove(f, p)>>)]

\* It comes into sight.
MoveAppears(s, t, f, p) ==
  LET new == vbranch_new(s, f)
      s1  == vbranch_add(Attach(s, {f}), t, new, view_get_vbranch(s, p))
  IN  [s   |-> s1,
       out |-> <<mapCount(Endpoint(s, t, t.parent[f]), -(t.total[f]) - 1),
                 mapInsert(p, vbranch_to_json(s1, t, new))>>]

\* The view is expanded, so that it does not go out of sight.
MoveExpands(s, t, f, p, me) ==
  LET x     == view_expand_to(s, t, p, TRUE)
      moved == MoveVbranch(x.s, t, f, p, me)
  IN  IF x.found = NoVb THEN [s |-> x.s, out |-> <<>>]
      ELSE [s   |-> moved.s,
            out |-> <<mapInsert(BranchOf(x.found), vbranch_to_json(x.s, t, x.found))>> \o moved.out]

\* Mutant of MoveHidden: only the branch that hides the new place is told.
MoveHidden_to(s, t, f, p) == [s |-> s, out |-> <<mapCount(Endpoint(s, t, p), t.total[f] + 1)>>]

\* Neither is seen: numbers change if the branches that hide them differ.
MoveHidden(s, t, f, p) ==
  LET from == Endpoint(s, t, t.parent[f])
      to   == Endpoint(s, t, p)
      size == t.total[f] + 1
  IN  [s   |-> s,
       out |-> IF from = to THEN <<>> ELSE <<mapCount(from, -size), mapCount(to, size)>>]

MoveInView(s, t, f, p, me) ==
  CASE Sees(s, f) /\ DestVisible(s, t, p)           -> MoveVbranch(s, t, f, p, me)
    [] Sees(s, f) /\ ~DestVisible(s, t, p)          -> MoveExpands(s, t, f, p, me)
    [] ~Sees(s, f) /\ DestVisible(s, t, p) /\ ~me   -> MoveAppears(s, t, f, p)
    [] ~Sees(s, f) /\ ~DestVisible(s, t, p) /\ ~me  -> MoveHidden(s, t, f, p)
    [] ~Sees(s, f) /\ me                            -> [s |-> s, out |-> <<>>]

\* Mutant of DeleteInView: nobody is told.
DeleteInView_untold(s, t, f, me) ==
  [s |-> IF Sees(s, f) THEN vbranch_detach(s, view_get_vbranch(s, f)) ELSE s, out |-> <<>>]

\* delete f, in the tree t from before.  The vbranch stays on the list of the dead branch.
DeleteInView(s, t, f, me) ==
  IF Sees(s, f)
  THEN [s   |-> vbranch_detach(s, view_get_vbranch(s, f)),
        out |-> IF me THEN <<>> ELSE <<mapDelete(f)>>]
  ELSE [s   |-> s,
        out |-> IF me THEN <<>>
                ELSE <<mapCount(Endpoint(s, t, t.parent[f]), -(t.total[f]) - 1)>>]

-----------------------------------------------------------------------------
(* Operations.  A browser shows its own change before it asks for it. *)

\* All views and browsers, once browser v has made the change own by itself.
Now(v, own) ==
  [vs |-> vs,
   browser |-> [w \in ViewIds |-> IF w = v THEN Receive(browser[w], own) ELSE browser[w]]]

\* The same after every view v did its part done[v] of an operation.
Spread(st, done) ==
  [vs      |-> [v \in ViewIds |-> IF v \in views THEN done[v].s ELSE st.vs[v]],
   browser |-> [v \in ViewIds |-> IF v \in views THEN ReceiveAll(st.browser[v], done[v].out)
                                  ELSE st.browser[v]]]

\* A browser names only branches that it shows.
Shows(v, f) == v # Nobody => browser[v].parent[f] # Absent
Loaded(v, f) == v # Nobody => browser[v].hidden[f] = 0
\* Whose request it may be: view_index_get finds the view, or none.
Askers == views \cup {Nobody}

Insert(v, p, pos) ==
  LET f  == branch_n
      t2 == branch_add(tree, f, p, pos)
      done == [w \in views |-> InsertInView(vs[w], tree, t2, f, p, w = v)]
      after == Spread(Now(v, mapInsert(p, Leaf(f))), done)
  IN  /\ branch_n < MaxBranch
      /\ Shows(v, p)
      /\ "insert folded" \notin Habits => Loaded(v, p)
      /\ tree' = t2
      /\ branch_n' = branch_n + 1
      /\ vs' = after.vs /\ browser' = after.browser
      /\ UNCHANGED views

Move(v, f, p, pos) ==
  LET done == [w \in views |-> MoveInView(vs[w], tree, f, p, w = v)]
      after == Spread(Now(v, mapMove(f, p)), done)
  IN  /\ f # Root /\ f \notin Above(tree, p)
      /\ Shows(v, f) /\ Shows(v, p)
      /\ tree' = branch_add(branch_detach(tree, f), f, p, pos)
      /\ vs' = after.vs /\ browser' = after.browser
      /\ UNCHANGED <<branch_n, views>>

\* A move that is refused is undone in the browser that asked for it.
RefuseMove(v, f, p) ==
  /\ f # Root /\ f \in Above(tree, p)
  /\ Shows(v, f) /\ Shows(v, p)
  /\ browser' = [browser EXCEPT ![v] =
                   ReceiveAll(@, <<mapMove(f, p), mapMove(f, tree.parent[f])>>)]
  /\ UNCHANGED <<tree, branch_n, views, vs>>

\* An only child is moved to the end of the root's list first, on nobody's behalf.
\* (A second child would be skipped: see MaxDeleteChildren in Store.)  Browsers do
\* not ask to delete a branch together with children that they show.
Delete(v, f) ==
  LET c     == tree.child_list[f]
      first == [w \in views |-> MoveInView(vs[w], tree, c[1], Root, FALSE)]
      own   == Now(v, mapDelete(f))
      st    == IF c = <<>> THEN own ELSE Spread(own, first)
      t1    == IF c = <<>> THEN tree ELSE branch_add(branch_detach(tree, c[1]), c[1], Root, MaxBranch)
      last  == [w \in views |-> DeleteInView(st.vs[w], t1, f, w = v)]
      after == Spread(st, last)
  IN  /\ f # Root
      /\ Shows(v, f)
      /\ Len(c) <= 1
      /\ v # Nobody => \A g \in Findex : browser[v].parent[g] # f
      /\ tree' = branch_detach(t1, f)
      /\ vs' = after.vs /\ browser' = after.browser
      /\ UNCHANGED <<branch_n, views>>

\* Branches to open a view at: those of the request, and what search_find or
\* search_find2 returns, some branches that the index knows, in any order.
Endpoints == UNION {[1 .. n -> Live] : n \in 0 .. MaxEndpoints}

\* map_init_view: a view of the root and its children, or one opened at endpoints.
\* A view of that id is destroyed first.
NewView(s) ==
  [s EXCEPT !.att[Root] = Append(@, vbranch_new(s, Root)), !.index[Root] = vbranch_new(s, Root)]

InitView(v, ends) ==
  LET old   == IF v \in views THEN view_destroy(vs[v]) ELSE vs[v]
      empty == NewView(old)
      to(s, f) == view_expand_to(s, tree, f, FALSE).s
      s     == IF ends = <<>> THEN view_expand_to(empty, tree, Root, TRUE).s
               ELSE FoldLeft(to, empty, ends)
      top   == vbranch_new(old, Root)
  IN  /\ views' = views \cup {v}
      /\ vs' = [vs EXCEPT ![v] = s]
      /\ browser' = [browser EXCEPT ![v] = Receive(@, mapInit(vbranch_to_json(s, tree, top)))]
      /\ UNCHANGED <<tree, branch_n>>

DestroyView(v) ==
  /\ views' = views \ {v}
  /\ vs' = [vs EXCEPT ![v] = view_destroy(@)]
  /\ browser' = [browser EXCEPT ![v] = Blank]
  /\ UNCHANGED <<tree, branch_n>>

ExpandTo(v, f) ==
  LET x == view_expand_to(vs[v], tree, f, TRUE)
  IN  /\ "expand again" \notin Habits =>
           f # Root /\ (browser[v].parent[f] = Absent \/ browser[v].hidden[f] > 0)
      /\ vs' = [vs EXCEPT ![v] = x.s]
      /\ browser' = IF x.found = NoVb THEN browser
                    ELSE [browser EXCEPT ![v] =
                            Receive(@, mapInsert(BranchOf(x.found), vbranch_to_json(x.s, tree, x.found)))]
      /\ UNCHANGED <<tree, branch_n, views>>

Unfold(v, f) ==
  LET vb == vs[v].index[f]
      s  == expand(vs[v], tree, vb)
  IN  /\ vb # NoVb
      /\ Len(vs[v].childs[vb]) # Len(tree.child_list[f])
      /\ vs' = [vs EXCEPT ![v] = s]
      /\ browser' = [browser EXCEPT ![v] = Receive(@, mapInsert(f, vbranch_to_json(s, tree, vb)))]
      /\ UNCHANGED <<tree, branch_n, views>>

Init ==
  /\ tree = EmptyTree /\ branch_n = 1
  /\ views = {}
  /\ vs = [v \in ViewIds |-> NoView]
  /\ browser = [v \in ViewIds |-> Blank]

Next ==
  \/ \E v \in Askers, p \in Live, pos \in Positions : Insert(v, p, pos)
  \/ \E v \in Askers, f, p \in Live, pos \in Positions : Move(v, f, p, pos)
  \/ \E v \in views, f, p \in Live : RefuseMove(v, f, p)
  \/ \E v \in Askers, f \in Live : Delete(v, f)
  \/ \E v \in ViewIds, ends \in Endpoints : InitView(v, ends)
  \/ \E v \in views : DestroyView(v)
  \/ \E v \in views, f \in Live : ExpandTo(v, f) \/ Unfold(v, f)

Spec == Init /\ [][Next]_vars

-----------------------------------------------------------------------------
(* Properties. *)

\* Branches, vbranches and what browsers know keep their C types: no list of children
\* holds anything but objects, whatever operations ran.
TypeOK ==
  /\ tree \in Trees
  /\ branch_n \in 1 .. MaxBranch
  /\ views \subseteq ViewIds
  /\ vs \in [ViewIds -> ViewStates]
  /\ browser \in [ViewIds -> [parent : [Findex -> Findex \cup {NULL, Absent}],
                              hidden : [Findex -> Int]]]

\* A view has one vbranch per branch, as branch_attach_vbranch warns and
\* view_inconsistency_detector2 looks for.
OneVbranch == \A v \in ViewIds, f \in Live : Len(vs[v].att[f]) <= 1

\* A view overlays the tree: a vbranch is folded, or has exactly the children of its
\* branch (view_inconsistency_detector).
Overlay ==
  \A v \in views, f \in Live : \A i \in 1 .. Len(vs[v].att[f]) :
    LET l == vs[v].childs[vs[v].att[f][i]]
    IN  l = <<>> \/ {BranchOf(l[k]) : k \in DOMAIN l} = ToSet(tree.child_list[f])

\* "What a user sees in a browser is an identical copy of a view in a server": the
\* messages of every operation carry exactly the change that each view underwent.
BrowserCopiesView ==
  \A v \in views, f \in Findex :
    browser[v].parent[f] =
      IF f \notin Live \/ ~Sees(vs[v], f) THEN Absent
      ELSE BranchOf(vs[v].parent[view_get_vbranch(vs[v], f)])

\* The counts a browser adds up from mapCount are right: below a folded branch it
\* knows of as many branches as there are.
CountsExact ==
  \A v \in views, f \in Live :
    browser[v].parent[f] # Absent =>
      browser[v].hidden[f] =
        IF vs[v].childs[view_get_vbranch(vs[v], f)] = <<>> THEN tree.total[f] ELSE 0

\* A view shows the children of a branch in the order of the tree.
InOrder ==
  \A v \in views, f \in Live : Sees(vs[v], f) =>
    LET l == vs[v].childs[view_get_vbranch(vs[v], f)]
    IN  l = <<>> \/ [i \in DOMAIN l |-> BranchOf(l[i])] = tree.child_list[f]

=============================================================================
