----------------------------- MODULE TreeProofs -----------------------------
(***************************************************************************)
(* While clients behave, memory is one tree under the root and its counts   *)
(* are exact.  The argument goes through the files: a map that was loaded   *)
(* is a tree because the records were one, and they were because the writes *)
(* of an operation change the edges in the file in one step.                *)
(***************************************************************************)
EXTENDS StoreProofs

-----------------------------------------------------------------------------
(* The shapes that a step can have. *)

Inserts(p, id, pos, txt) ==
  /\ Ready /\ p \in Findex /\ bid[p] # 0 /\ id \in Ids /\ id # 0 /\ pos \in Int /\ txt \in Texts
  /\ insert(p, id, pos, txt)

Moves(b, npb, pos) ==
  /\ Ready /\ b \in Findex /\ npb \in Findex /\ bid[npb] # 0 /\ pos \in Int
  /\ move(b, npb, pos)

Deletes(b, pos) ==
  /\ Ready /\ b \in Findex /\ bid[b] # 0 /\ tree.parent[b] \in Findex
  /\ \A g \in Findex : tree.parent[g] # b
  /\ pos \in Nat /\ pos <= branch_get_pos(tree, b)
  /\ tree' = branch_detach(tree, b)
  /\ bid' = [bid EXCEPT ![b] = 0]
  /\ todo' = io_branch_deleted(tree', b, tree.parent[b], pos)
  /\ UNCHANGED <<up, branch_n, root, text, files>>

Updates(f, txt) ==
  /\ Ready /\ f \in Findex /\ bid[f] # 0 /\ text[f] # NoData /\ txt \in Texts
  /\ text' = [text EXCEPT ![f] = txt]
  /\ todo' = <<DataWrite(f)>>
  /\ UNCHANGED <<up, branch_n, root, tree, bid, index, files>>

Rests == UNCHANGED <<up, memory, todo, files>>
Loads == Load /\ Unlisted = {}
Sleeps == up # "run" /\ up' # "run" /\ UNCHANGED <<memory, todo, files>>

Shapes ==
  \/ \E p, id, pos, txt : Inserts(p, id, pos, txt)
  \/ \E b, npb, pos : Moves(b, npb, pos)
  \/ \E b, pos : Deletes(b, pos)
  \/ \E f, txt : Updates(f, txt)
  \/ Flush \/ Crash \/ Loads \/ Rests \/ Sleeps

LEMMA DeleteShape ==
  ASSUME TypeOK, MemoryInv, StoreInv, DeleteEnd
  PROVE  \E b, pos : Deletes(b, pos)
<1> DEFINE b == pc.b
           pos == branch_get_pos(tree, b) % 256
<1>0. pc \in Pcs /\ tree \in Trees /\ Linked(tree) /\ tree.parent \in [Findex -> Findex \cup {NULL}]
  BY DEF TypeOK, Trees, MemoryInv, BlankInv
<1>1. pc.op = "delete" /\ b \in Findex /\ pc.i \in Nat
  BY <1>0, PcFields DEF DeleteEnd
<1>2. tree.parent[b] \in Findex
  BY <1>0, <1>1 DEF MemoryInv, BlankInv
<1>3. Ready /\ /\ tree' = branch_detach(tree, b) /\ bid' = [bid EXCEPT ![b] = 0]
               /\ todo' = io_branch_deleted(tree', b, tree.parent[b], pos)
               /\ UNCHANGED <<up, branch_n, root, text, files>>
  BY DEF DeleteEnd
<1>4. Len(tree.child_list[b]) = 0 /\ bid[b] # 0
  <2>1. /\ pc.i >= Len(tree.child_list[b])
        /\ \/ Len(tree.child_list[b]) = 0
           \/ Len(tree.child_list[b]) = 1 /\ pc.i = 0
    BY <1>1 DEF DeleteEnd, StoreInv, LiveInv
  <2>2. bid[b] # 0
    BY <1>1 DEF StoreInv, LiveInv
  <2> QED BY <1>1, <2>1, <2>2
<1>5. \A g \in Findex : tree.parent[g] # b
  <2>1. 1 .. Len(tree.child_list[b]) = {}
    BY <1>4
  <2> QED BY <1>0, <1>1, <2>1 DEF Linked
<1>6. pos \in Nat /\ pos <= branch_get_pos(tree, b)
  <2>1. branch_get_pos(tree, b) \in Nat
    BY <1>0, <1>1, <1>2, PosType
  <2>2. \A n \in Nat : n % 256 \in Nat /\ n % 256 <= n
    OBVIOUS
  <2> QED BY <2>1, <2>2
<1> HIDE DEF b, pos
<1> QED BY <1>1, <1>2, <1>3, <1>4, <1>5, <1>6 DEF Deletes

LEMMA StepShapes ==
  ASSUME ClientsBehave, TypeOK, MemoryInv, StoreInv, [Next]_vars, intact'
  PROVE  Shapes
<1>0. /\ pc \in Pcs /\ NULL \notin Findex /\ Far \in Int
      /\ bid \in [Findex -> Ids] /\ tree \in Trees /\ Linked(tree)
      /\ ClientIds \subseteq Ids /\ 0 \notin ClientIds
      /\ \A pos \in 0 .. Far : pos \in Int
  <2>1. Far \in Int /\ \A pos \in 0 .. Far : pos \in Int
    BY MaxBranchNat DEF Far
  <2>2. ClientIds \subseteq Ids /\ 0 \notin ClientIds
    BY DEF Ids, ClientsBehave
  <2>3. pc \in Pcs /\ bid \in [Findex -> Ids] /\ tree \in Trees /\ Linked(tree)
    BY DEF TypeOK, MemoryInv, BlankInv
  <2> QED BY <2>1, <2>2, <2>3, NullNotFindex
<1>1. CASE Insert
  <2>1. PICK pid \in Ids, id \in ClientIds, pos \in 0 .. Far, txt \in Texts :
          index[pid] # NULL /\ insert(index[pid], id, pos, txt)
    BY <1>1 DEF Insert
  <2>2. Inserts(index[pid], id, pos, txt)
    BY <1>0, <1>1, <2>1, IndexLive DEF Insert, Inserts
  <2> QED BY <2>2 DEF Shapes
<1>2. CASE Move
  <2>1. PICK id \in Ids, npid \in Ids, pos \in 0 .. Far :
          /\ index[id] # NULL /\ index[npid] # NULL
          /\ move(index[id], index[npid], pos)
    BY <1>2 DEF Move
  <2>2. Moves(index[id], index[npid], pos)
    BY <1>0, <1>2, <2>1, IndexLive DEF Move, Moves
  <2> QED BY <2>2 DEF Shapes
<1>3. CASE Update
  <2>1. PICK id \in Ids, txt \in Texts :
          /\ index[id] # NULL /\ text[index[id]] # NoData
          /\ text' = [text EXCEPT ![index[id]] = txt]
          /\ todo' = <<DataWrite(index[id])>>
    BY <1>3 DEF Update
  <2>2. Updates(index[id], txt)
    BY <1>3, <2>1, IndexLive DEF Update, Updates
  <2> QED BY <2>2 DEF Shapes
<1>4. CASE DeleteStart \/ PathStart \/ PathDescend
  BY <1>4 DEF DeleteStart, PathStart, PathDescend, Shapes, Rests
<1>5. CASE DeleteChild
  <2> DEFINE c == tree.child_list[pc.b][pc.i + 1]
  <2>1. pc.op = "delete" /\ pc.b \in Findex /\ pc.i \in Nat
    BY <1>0, <1>5, PcFields DEF DeleteChild
  <2>2. Ready /\ root \in Findex /\ bid[root] # 0 /\ move(c, root, Far)
    BY <1>5 DEF DeleteChild, Ready, MemoryInv, BlankInv, StoreInv, LiveInv
  <2>3. c \in Findex
    <3>1. tree.child_list[pc.b] \in Seq(Findex) /\ Len(tree.child_list[pc.b]) \in Nat
      BY <2>1, LenProperties DEF TypeOK, Trees
    <3>2. pc.i + 1 \in 1 .. Len(tree.child_list[pc.b])
      BY <1>5, <2>1, <3>1 DEF DeleteChild
    <3> QED BY <3>1, <3>2, ElementOfSeq
  <2> HIDE DEF c
  <2>4. Moves(c, root, Far)
    BY <1>0, <2>2, <2>3 DEF Moves
  <2> QED BY <2>4 DEF Shapes
<1>6. CASE DeleteEnd
  BY <1>6, DeleteShape DEF Shapes
<1>7. CASE PathCreate
  <2>1. /\ pc.op = "path" /\ pc.at \in Findex /\ pc.names \in Seq(Texts) /\ pc.names # <<>>
        /\ Ready /\ bid[pc.at] # 0
    BY <1>0, <1>7, PcFields DEF PathCreate, StoreInv, LiveInv
  <2>2. Head(pc.names) \in Texts
    BY <2>1, HeadTailProperties
  <2>3. CASE insert(pc.at, GenBase + branch_n, Far, Head(pc.names))
    <3>1. branch_n \in Findex /\ GenBase + branch_n # 0
      <4>1. branch_n < MaxBranch /\ branch_n \in 0 .. MaxBranch
        BY <2>3 DEF insert, TypeOK
      <4> QED BY <4>1, MaxBranchNat, GenBaseAssumption DEF Findex
    <3>2. GenBase + branch_n \in Ids
      BY <3>1 DEF Ids
    <3>3. Inserts(pc.at, GenBase + branch_n, Far, Head(pc.names))
      BY <1>0, <2>1, <2>2, <2>3, <3>1, <3>2 DEF Inserts
    <3> QED BY <3>3 DEF Shapes
  <2>4. CASE UNCHANGED <<up, memory, todo, files>>
    BY <2>4 DEF Shapes, Rests
  <2> QED BY <1>7, <2>3, <2>4 DEF PathCreate
<1>8. CASE PathInsert
  <2>1. /\ pc.op = "path" /\ pc.at \in Findex /\ bid[pc.at] # 0 /\ pc.last \in Finals /\ Ready
    BY <1>0, <1>8, PcFields DEF PathInsert, StoreInv, LiveInv
  <2>2. pc.last.id \in Ids /\ pc.last.id # 0 /\ pc.last.text \in Texts
    <3>1. pc.last.op = "insert"
      BY <1>8 DEF PathInsert
    <3>2. pc.last.id \in ClientIds
      BY <2>1 DEF Finals
    <3> QED BY <1>0, <2>1, <3>1, <3>2, FinalFields
  <2>3. CASE insert(pc.at, pc.last.id, Far, pc.last.text)
    <3>1. Inserts(pc.at, pc.last.id, Far, pc.last.text)
      BY <1>0, <2>1, <2>2, <2>3 DEF Inserts
    <3> QED BY <3>1 DEF Shapes
  <2>4. CASE UNCHANGED <<up, memory, todo, files>>
    BY <2>4 DEF Shapes, Rests
  <2> QED BY <1>8, <2>3, <2>4 DEF PathInsert
<1>9. CASE PathMove
  <2> DEFINE b == index[pc.last.id]
  <2>1. pc.op = "path" /\ pc.at \in Findex /\ bid[pc.at] # 0 /\ pc.last.id \in Ids /\ Ready
    BY <1>0, <1>9, PcFields, FinalFields DEF PathMove, StoreInv, LiveInv
  <2>2. CASE b # NULL /\ move(b, pc.at, Far)
    <3>1. b \in Findex
      BY <2>1, <2>2 DEF TypeOK
    <3> HIDE DEF b
    <3>2. Moves(b, pc.at, Far)
      BY <1>0, <2>1, <2>2, <3>1 DEF Moves
    <3> QED BY <3>2 DEF Shapes
  <2>3. CASE UNCHANGED <<up, memory, todo, files>>
    BY <2>3 DEF Shapes, Rests
  <2> QED BY <1>9, <2>2, <2>3 DEF PathMove
<1>10. CASE Flush \/ Crash \/ Segfault
  BY <1>10 DEF Shapes, Segfault
<1>10a. CASE Load
  BY <1>10a DEF Load, Loads, Shapes
<1>10b. CASE MoveUnlisted \/ DeleteUnlisted \/ PathMoveUnlisted
  BY <1>10b DEF MoveUnlisted, DeleteUnlisted, PathMoveUnlisted, Overflow
<1>11. CASE Restart \/ LoadExit \/ LoadDamaged
  BY <1>11 DEF Shapes, Sleeps, Restart, LoadExit, LoadDamaged
<1>12. CASE UNCHANGED vars
  BY <1>12 DEF Shapes, Rests, vars
<1> QED
  BY <1>1, <1>2, <1>3, <1>4, <1>5, <1>6, <1>7, <1>8, <1>9, <1>10, <1>10a, <1>10b,
     <1>11, <1>12
  DEF Next, Continue

-----------------------------------------------------------------------------
(* What move does to the loop over the ancestors. *)

AboveMoved(parent, b, npb, g) ==
  IF g = b THEN {npb} \cup Ancestors(parent, npb)
  ELSE IF b \in Ancestors(parent, g)
  THEN (Ancestors(parent, g) \ Ancestors(parent, b)) \cup {npb} \cup Ancestors(parent, npb)
  ELSE Ancestors(parent, g)

LEMMA AncestorsMove ==
  ASSUME NEW parent \in [Findex -> Findex \cup {NULL}], NEW b \in Findex,
         b \notin Ancestors(parent, b), NEW npb \in Findex, npb # b,
         b \notin Ancestors(parent, npb), NEW g \in Findex,
         NEW m \in [Findex -> Findex \cup {NULL}],
         m[b] = npb, \A x \in Findex \ {b} : m[x] = parent[x]
  PROVE  Ancestors(m, g) = AboveMoved(parent, b, npb, g)
<1> DEFINE d == [x \in Findex |-> IF x = b THEN NULL ELSE parent[x]]
<1>1. /\ d \in [Findex -> Findex \cup {NULL}] /\ d[b] = NULL
      /\ \A x \in Findex \ {b} : d[x] = parent[x] /\ m[x] = d[x]
  OBVIOUS
<1> HIDE DEF d
<1>2. \A x \in Findex : Ancestors(d, x) = AboveDetached(parent, b, x)
  BY <1>1, AncestorsDetach
<1>3. Ancestors(m, g) = AboveAdded(d, b, npb, g)
  BY <1>1, AncestorsAdd
<1>4. Ancestors(d, b) = {} /\ Ancestors(d, npb) = Ancestors(parent, npb)
  BY <1>2 DEF AboveDetached
<1>5. CASE g = b
  BY <1>3, <1>4, <1>5 DEF AboveAdded, AboveMoved
<1>6. CASE g # b /\ b \in Ancestors(parent, g)
  <2>1. Ancestors(d, g) = Ancestors(parent, g) \ Ancestors(parent, b)
    BY <1>2, <1>6 DEF AboveDetached
  <2> QED BY <1>3, <1>4, <1>6, <2>1 DEF AboveAdded, AboveMoved
<1>7. CASE g # b /\ b \notin Ancestors(parent, g)
  <2>1. Ancestors(d, g) = Ancestors(parent, g)
    BY <1>2, <1>7 DEF AboveDetached
  <2> QED BY <1>3, <1>4, <1>7, <2>1 DEF AboveAdded, AboveMoved
<1> QED BY <1>5, <1>6, <1>7

-----------------------------------------------------------------------------
(* A live branch has live ancestors and is not one of them. *)

LEMMA LiveAncestors ==
  ASSUME TypeOK, StoreInv, NEW g \in Findex
  PROVE  \A x \in Ancestors(tree.parent, g) : x \in Findex /\ bid[x] # 0
<1> DEFINE S == {x \in Findex : bid[x] # 0}
<1>1. tree.parent \in [Findex -> Findex \cup {NULL}]
  BY DEF TypeOK, Trees
<1>2. \A x \in Findex : tree.parent[x] # NULL => tree.parent[x] \in S
  BY <1>1 DEF StoreInv, LiveInv
<1>3. S \in SUBSET Findex /\ Closed(tree.parent, S) /\ (tree.parent[g] # NULL => tree.parent[g] \in S)
  BY <1>2 DEF Closed
<1> HIDE DEF S
<1>4. Ancestors(tree.parent, g) \subseteq S
  BY <1>1, <1>3, AncestorsProperties
<1> QED BY <1>4 DEF S

LEMMA LiveAcyclic ==
  ASSUME TypeOK, MemoryInv, StoreInv, Rooted, up = "run", NEW g \in Findex,
         tree.parent[g] # NULL
  PROVE  g # root /\ g \notin Ancestors(tree.parent, g)
<1>1. tree.parent \in [Findex -> Findex \cup {NULL}]
  BY DEF TypeOK, Trees
<1>2. root \in Findex /\ tree.parent[root] = NULL
  BY DEF MemoryInv, BlankInv, StoreInv, LiveInv
<1>3. bid[g] # 0 /\ g # root
  BY <1>2 DEF StoreInv, LiveInv
<1>4. root \in Ancestors(tree.parent, g)
  BY <1>3 DEF Rooted
<1> QED BY <1>1, <1>2, <1>3, <1>4, NoCycle

-----------------------------------------------------------------------------
(* The operations on the tree in memory. *)

LEMMA InsertTree ==
  ASSUME TypeOK, MemoryInv, StoreInv, Rooted, TotalsKept,
         NEW p, NEW id, NEW pos, NEW txt, Inserts(p, id, pos, txt)
  PROVE  Rooted' /\ TotalsKept'
<1> USE DEF Inserts
<1>0. insert(p, id, pos, txt) /\ up = "run" /\ UNCHANGED <<up, root>>
  BY DEF insert, Ready
<1>1. /\ branch_n \in Findex /\ tree' \in Trees
      /\ tree'.parent = [tree.parent EXCEPT ![branch_n] = p]
      /\ bid' = [bid EXCEPT ![branch_n] = id]
  BY <1>0, InsertStep
<1>2. bid[branch_n] = 0 /\ tree.parent[branch_n] = NULL
  <2>1. branch_n >= branch_n
    BY <1>1 DEF Findex
  <2> QED BY <1>1, <2>1 DEF MemoryInv, BlankInv
<1>3. /\ tree \in Trees /\ tree.parent \in [Findex -> Findex \cup {NULL}]
      /\ tree'.parent \in [Findex -> Findex \cup {NULL}] /\ bid \in [Findex -> Ids]
  BY <1>1 DEF TypeOK, Trees
<1>4. /\ tree'.parent[branch_n] = p /\ bid'[branch_n] = id
      /\ \A x \in Findex \ {branch_n} : tree'.parent[x] = tree.parent[x] /\ bid'[x] = bid[x]
  BY <1>1, <1>3
<1>5. \A g \in Findex : branch_n \notin Ancestors(tree.parent, g)
  BY <1>2, LiveAncestors
<1>6. \A g \in Findex : Ancestors(tree'.parent, g) = AboveAdded(tree.parent, branch_n, p, g)
  BY <1>1, <1>2, <1>3, <1>4, AncestorsAdd
<1>7. Rooted'
  <2> SUFFICES ASSUME NEW g \in Findex \ {root}, bid'[g] # 0
               PROVE  root \in Ancestors(tree'.parent, g)
    BY <1>0 DEF Rooted
  <2>1. \A x \in Findex \ {root} : bid[x] # 0 => root \in Ancestors(tree.parent, x)
    BY <1>0 DEF Rooted
  <2>2. CASE g = branch_n
    BY <1>6, <2>1, <2>2 DEF AboveAdded
  <2>3. CASE g # branch_n
    BY <1>4, <1>5, <1>6, <2>1, <2>3 DEF AboveAdded
  <2> QED BY <2>2, <2>3
<1>8. TotalsKept'
  <2>1. TotalsExact(tree)
    BY DEF TotalsKept, TotalsExact
  <2>2. branch_n # p
    BY <1>2
  <2>3. TotalsExact(branch_add(tree, branch_n, p, pos))
    BY <1>1, <1>2, <1>3, <1>5, <2>1, <2>2, AddTotals
  <2>4. tree' = branch_add(tree, branch_n, p, pos)
    BY <1>0 DEF insert
  <2>5. TotalsExact(tree')
    BY <2>3, <2>4
  <2> QED BY <2>5 DEF TotalsKept, TotalsExact
<1> QED BY <1>7, <1>8

LEMMA MoveTree ==
  ASSUME TypeOK, MemoryInv, StoreInv, Rooted, TotalsKept,
         NEW b, NEW npb, NEW pos, Moves(b, npb, pos)
  PROVE  Rooted' /\ TotalsKept'
<1> USE DEF Moves
<1>0. move(b, npb, pos) /\ up = "run" /\ UNCHANGED <<up, root, bid>>
  BY DEF move, Ready
<1>1. /\ tree.parent[b] \in Findex /\ tree' \in Trees
      /\ tree'.parent = [tree.parent EXCEPT ![b] = npb]
  BY <1>0, MoveStep
<1>2. b # npb /\ b \notin Ancestors(tree.parent, npb) /\ tree.parent[b] # NULL
  BY <1>0 DEF move, CanMove
<1>3. /\ tree \in Trees /\ tree.parent \in [Findex -> Findex \cup {NULL}] /\ Linked(tree)
      /\ tree'.parent \in [Findex -> Findex \cup {NULL}]
  BY <1>1 DEF TypeOK, Trees, MemoryInv, BlankInv
<1>4. tree'.parent[b] = npb /\ \A x \in Findex \ {b} : tree'.parent[x] = tree.parent[x]
  BY <1>1, <1>3
<1>5. b \notin Ancestors(tree.parent, b)
  BY <1>0, <1>2, LiveAcyclic
<1>6. \A g \in Findex : Ancestors(tree'.parent, g) = AboveMoved(tree.parent, b, npb, g)
  BY <1>2, <1>3, <1>4, <1>5, AncestorsMove
<1>7. Rooted'
  <2> SUFFICES ASSUME NEW g \in Findex \ {root}, bid[g] # 0
               PROVE  root \in Ancestors(tree'.parent, g)
    BY <1>0 DEF Rooted
  <2>1. \A x \in Findex \ {root} : bid[x] # 0 => root \in Ancestors(tree.parent, x)
    BY <1>0 DEF Rooted
  <2>2. root \in {npb} \cup Ancestors(tree.parent, npb)
    BY <2>1
  <2> QED BY <1>6, <2>1, <2>2 DEF AboveMoved
<1>8. TotalsKept'
  <2> DEFINE d == branch_detach(tree, b)
  <2>1. TotalsExact(tree)
    BY DEF TotalsKept, TotalsExact
  <2>2. TotalsExact(d)
    BY <1>2, <1>3, <1>5, <2>1, DetachTotals
  <2>3. d \in Trees /\ d.parent = [tree.parent EXCEPT ![b] = NULL]
    BY <1>1, <1>3, DetachProperties
  <2>4. tree' = branch_add(d, b, npb, pos)
    BY <1>0 DEF move
  <2> HIDE DEF d
  <2>5. /\ d.parent \in [Findex -> Findex \cup {NULL}] /\ d.parent[b] = NULL
        /\ \A x \in Findex \ {b} : d.parent[x] = tree.parent[x]
    BY <1>3, <2>3
  <2>6. Ancestors(d.parent, npb) = AboveDetached(tree.parent, b, npb)
    BY <1>3, <1>5, <2>5, AncestorsDetach
  <2>7. b \notin Ancestors(d.parent, npb)
    BY <1>2, <2>6 DEF AboveDetached
  <2>8. TotalsExact(branch_add(d, b, npb, pos))
    BY <1>2, <2>2, <2>3, <2>5, <2>7, AddTotals
  <2>9. TotalsExact(tree')
    BY <2>4, <2>8
  <2> QED BY <2>9 DEF TotalsKept, TotalsExact
<1> QED BY <1>7, <1>8

LEMMA DeleteTree ==
  ASSUME TypeOK, MemoryInv, StoreInv, Rooted, TotalsKept,
         NEW b, NEW pos, Deletes(b, pos)
  PROVE  Rooted' /\ TotalsKept'
<1> USE DEF Deletes
<1>0. up = "run" /\ UNCHANGED <<up, root>>
  BY DEF Ready
<1>1. tree \in Trees /\ tree.parent \in [Findex -> Findex \cup {NULL}] /\ Linked(tree) /\ bid \in [Findex -> Ids]
  BY DEF TypeOK, Trees, MemoryInv, BlankInv
<1>2. tree' \in Trees /\ tree'.parent = [tree.parent EXCEPT ![b] = NULL]
  BY <1>1, DetachProperties
<1>3. /\ tree'.parent \in [Findex -> Findex \cup {NULL}]
      /\ tree'.parent[b] = NULL /\ bid'[b] = 0
      /\ \A x \in Findex \ {b} : tree'.parent[x] = tree.parent[x] /\ bid'[x] = bid[x]
  BY <1>1, <1>2
<1>4. tree.parent[b] # NULL /\ b \notin Ancestors(tree.parent, b)
  BY <1>0, NullNotFindex, LiveAcyclic
<1>5. ASSUME NEW g \in Findex
      PROVE  b \notin Ancestors(tree.parent, g)
  <2>1. (Findex \ {b}) \in SUBSET Findex /\ Closed(tree.parent, Findex \ {b})
    BY <1>1 DEF Closed
  <2>2. tree.parent[g] # NULL => tree.parent[g] \in Findex \ {b}
    BY <1>1
  <2>3. Ancestors(tree.parent, g) \subseteq Findex \ {b}
    BY <1>1, <2>1, <2>2, AncestorsProperties
  <2> QED BY <2>3
<1>6. \A g \in Findex : Ancestors(tree'.parent, g) = AboveDetached(tree.parent, b, g)
  BY <1>1, <1>3, <1>4, AncestorsDetach
<1>7. Rooted'
  <2> SUFFICES ASSUME NEW g \in Findex \ {root}, bid'[g] # 0
               PROVE  root \in Ancestors(tree'.parent, g)
    BY <1>0 DEF Rooted
  <2>1. \A x \in Findex \ {root} : bid[x] # 0 => root \in Ancestors(tree.parent, x)
    BY <1>0 DEF Rooted
  <2>2. g # b
    BY <1>3
  <2> QED BY <1>3, <1>5, <1>6, <2>1, <2>2 DEF AboveDetached
<1>8. TotalsKept'
  <2>1. TotalsExact(tree)
    BY DEF TotalsKept, TotalsExact
  <2>2. TotalsExact(branch_detach(tree, b))
    BY <1>1, <1>4, <2>1, DetachTotals
  <2>3. TotalsExact(tree')
    BY <2>2
  <2> QED BY <2>3 DEF TotalsKept, TotalsExact
<1> QED BY <1>7, <1>8

-----------------------------------------------------------------------------
(* The tree in the files. *)

TreeInv == Rooted /\ TotalsKept /\ FileRooted

\* What the loader would find depends on nothing but the files.
LEMMA FilesRead ==
  ASSUME UNCHANGED files
  PROVE  Used' = Used /\ Roots' = Roots /\ FileParents' = FileParents
<1>1. bhead' = bhead /\ filesize' = filesize
  BY DEF files
<1>2. Used' = Used
  BY <1>1 DEF Used
<1>3. Roots' = Roots
  BY <1>1, <1>2 DEF Roots
<1>4. ASSUME NEW id
      PROVE  {f \in Used' : bhead'[f].id = id} = {f \in Used : bhead[f].id = id}
  BY <1>1, <1>2
<1>5. FileParents' = FileParents
  BY <1>1, <1>2, <1>4 DEF FileParents, LoadedParent, LoadedIndex, Found
<1> QED BY <1>2, <1>3, <1>5

LEMMA RootedKept ==
  ASSUME FileRooted, UNCHANGED files
  PROVE  FileRooted'
<1>1. Used' = Used /\ Roots' = Roots /\ FileParents' = FileParents
  BY FilesRead
<1> QED BY <1>1 DEF FileRooted

\* The records that the loader uses are those with an id.
LEMMA UsedRecords ==
  ASSUME TypeOK, FileInv
  PROVE  Used = {f \in Findex : bhead[f].id # 0}
<1>1. filesize \in Nat /\ filesize <= MaxBranch /\ MaxBranch \in Nat
  BY MaxBranchNat DEF TypeOK
<1>2. \A f \in 0 .. filesize - 1 : f \in 0 .. MaxBranch - 1
  BY <1>1
<1>3. \A f \in 0 .. MaxBranch - 1 : f \in 0 .. filesize - 1 \/ f >= filesize
  BY <1>1
<1> QED BY <1>2, <1>3 DEF Used, FileInv, Findex

\* The parent that the loader finds is the record of that id.
LEMMA FileParentFound ==
  ASSUME TypeOK, FileInv, NEW f \in Findex, NEW p \in Findex, bhead[f].id # 0,
         bhead[p].id # 0, bhead[f].parent_id = bhead[p].id
  PROVE  FileParents[f] = p
<1>1. f \in Used /\ p \in Used
  BY UsedRecords
<1>2. p \in Found(bhead[f].parent_id)
  BY <1>1 DEF Found
<1>3. \A g \in Found(bhead[f].parent_id) : g = p
  BY UsedRecords DEF Found, FileInv
<1>4. p <= p
  BY DEF Findex
<1>5. LoadedIndex(bhead[f].parent_id) = p
  BY <1>2, <1>3, <1>4 DEF LoadedIndex
<1> QED BY <1>1, <1>5 DEF FileParents, LoadedParent

LEMMA FileParentsType ==
  ASSUME TypeOK, FileInv
  PROVE  /\ FileParents \in [Findex -> Findex \cup {NULL}]
         /\ \A f \in Findex : FileParents[f] # NULL =>
              /\ bhead[f].id # 0 /\ bhead[f].parent_id # 0
              /\ FileParents[f] \in Findex /\ bhead[FileParents[f]].id = bhead[f].parent_id
         /\ \A f \in Findex : FileParents[f] = NULL => bhead[f].parent_id = 0
<1>1. ASSUME NEW f \in Findex
      PROVE  \/ FileParents[f] = NULL /\ bhead[f].parent_id = 0
             \/ /\ bhead[f].id # 0 /\ bhead[f].parent_id # 0
                /\ FileParents[f] \in Findex /\ bhead[FileParents[f]].id = bhead[f].parent_id
  <2>1. CASE bhead[f].parent_id = 0
    BY <2>1 DEF FileParents, LoadedParent
  <2>2. CASE bhead[f].parent_id # 0
    <3>1. PICK p \in Findex : bhead[p].id = bhead[f].parent_id
      BY <2>2 DEF FileInv
    <3>2. bhead[f].id # 0
      BY <2>2 DEF FileInv
    <3>3. FileParents[f] = p
      BY <2>2, <3>1, <3>2, FileParentFound
    <3> QED BY <2>2, <3>1, <3>2, <3>3
  <2> QED BY <2>1, <2>2
<1>2. FileParents = [f \in Findex |-> FileParents[f]]
  BY DEF FileParents
<1>3. \A f \in Findex : FileParents[f] \in Findex \cup {NULL}
  BY <1>1
<1>4. FileParents \in [Findex -> Findex \cup {NULL}]
  BY <1>2, <1>3
<1> QED BY <1>1, <1>4, NullNotFindex

\* When every record is current, the files hold the tree of memory.
LEMMA CurrentFiles ==
  TypeOK /\ MemoryInv /\ StoreInv /\ Rooted /\ AllCurrent =>
    /\ Used = {f \in Findex : bid[f] # 0}
    /\ FileParents = tree.parent
    /\ Roots = {root}
    /\ FileRooted
<1> SUFFICES ASSUME TypeOK, MemoryInv, StoreInv, Rooted, AllCurrent
             PROVE  /\ Used = {f \in Findex : bid[f] # 0}
                    /\ FileParents = tree.parent
                    /\ Roots = {root}
                    /\ FileRooted
  OBVIOUS
<1>0. FileInv
  BY DEF StoreInv
<1>1. Used = {f \in Findex : bid[f] # 0}
  BY <1>0, UsedRecords DEF AllCurrent
<1>2. /\ tree.parent \in [Findex -> Findex \cup {NULL}] /\ NULL \notin Findex
      /\ root \in Findex /\ bid[root] # 0 /\ tree.parent[root] = NULL
  BY NullNotFindex DEF TypeOK, Trees, MemoryInv, BlankInv, StoreInv, LiveInv, AllCurrent
<1>3. \A f \in Findex : tree.parent[f] # NULL => bid[f] # 0 /\ bid[tree.parent[f]] # 0
  BY DEF StoreInv, LiveInv
<1>4. ASSUME NEW f \in Findex
      PROVE  FileParents[f] = tree.parent[f]
  <2>1. CASE tree.parent[f] = NULL
    BY <1>0, <2>1, FileParentsType DEF AllCurrent
  <2>2. CASE tree.parent[f] # NULL
    <3>1. tree.parent[f] \in Findex /\ bid[f] # 0 /\ bid[tree.parent[f]] # 0
      BY <1>2, <1>3, <2>2
    <3>2. /\ bhead[f].id # 0 /\ bhead[tree.parent[f]].id # 0
          /\ bhead[f].parent_id = bhead[tree.parent[f]].id
      BY <2>2, <3>1 DEF AllCurrent
    <3> QED BY <1>0, <3>1, <3>2, FileParentFound
  <2> QED BY <2>1, <2>2
<1>5. FileParents = tree.parent
  BY <1>0, <1>2, <1>4, FileParentsType
<1>6. ASSUME NEW f \in Findex, bid[f] # 0, f # root
      PROVE  root \in Ancestors(tree.parent, f) /\ tree.parent[f] # NULL
  <2>1. root \in Ancestors(tree.parent, f)
    BY <1>6 DEF Rooted, AllCurrent
  <2> QED BY <1>2, <2>1, AncestorsProperties
<1>7. Roots = {root}
  <2>1. \A f \in Used : bhead[f].parent_id = 0 <=> tree.parent[f] = NULL
    BY <1>1, <1>3 DEF AllCurrent
  <2> QED BY <1>1, <1>2, <1>6, <2>1 DEF Roots
<1>8. FileRooted
  BY <1>1, <1>5, <1>6, <1>7 DEF FileRooted
<1> QED BY <1>1, <1>5, <1>7, <1>8

\* A write changes no tree; after it the files hold the one of memory.
LEMMA FlushTree ==
  TypeOK /\ MemoryInv /\ StoreInv /\ TreeInv /\ Flush =>
    Rooted' /\ TotalsKept' /\ AllCurrent'
<1> SUFFICES ASSUME TypeOK, MemoryInv, StoreInv, TreeInv, Flush
             PROVE  Rooted' /\ TotalsKept' /\ AllCurrent'
  OBVIOUS
<1>1. UNCHANGED <<up, root, tree, bid>> /\ up = "run"
  BY DEF Flush, memory
<1>2. AllCurrent'
  BY FlushEdges
<1>3. Rooted'
  BY <1>1 DEF TreeInv, Rooted
<1>4. TotalsKept'
  BY <1>1 DEF TreeInv, TotalsKept
<1> QED BY <1>1, <1>2, <1>3, <1>4

\* Without branches there is nothing to count.
LEMMA EmptyTotals == TotalsExact(EmptyTree)
<1> DEFINE e == EmptyTree.parent
<1>1. /\ e \in [Findex -> Findex \cup {NULL}] /\ \A f \in Findex : e[f] = NULL
      /\ \A f \in Findex : EmptyTree.total[f] = 0
  BY DEF EmptyTree
<1> HIDE DEF e
<1>2. \A g \in Findex : Ancestors(e, g) = {}
  BY <1>1, AncestorsProperties
<1>3. \A h \in Findex : Descendants(EmptyTree, h) = {}
  BY <1>2 DEF Descendants, e
<1>4. Cardinality({}) = 0
  BY FS_EmptySet
<1> QED BY <1>1, <1>3, <1>4 DEF TotalsExact

\* branch_calculate counts what lies below, for every record hangs below the root.
LEMMA Calculated ==
  ASSUME TypeOK, FileInv, FileRooted, Unlisted = {}, NEW r, Roots = {r}, NEW h \in Findex
  PROVE  branch_calculate(FileParents)[h] = Cardinality({g \in Findex : h \in Ancestors(FileParents, g)})
<1>1. LoadedRoot = r
  <2>1. r \in Findex
    BY UsedRecords DEF Roots
  <2>2. r <= r
    BY <2>1 DEF Findex
  <2> QED BY <2>2 DEF LoadedRoot
<1>2. ASSUME NEW g \in Findex, h \in Ancestors(FileParents, g)
      PROVE  g \in Used /\ r \in Ancestors(FileParents, g)
  <2>1. FileParents[g] # NULL
    BY <1>2, FileParentsType, AncestorsProperties
  <2>2. bhead[g].id # 0 /\ bhead[g].parent_id # 0
    BY <2>1, FileParentsType
  <2>3. g \in Used /\ g \notin Roots
    BY <2>2, UsedRecords DEF Roots
  <2> QED BY <2>3 DEF FileRooted
<1>3. {g \in Used : /\ {h, LoadedRoot} \subseteq Ancestors(FileParents, g)
                   /\ ({g} \cup Ancestors(FileParents, g)) \cap Unlisted = {}}
        = {g \in Findex : h \in Ancestors(FileParents, g)}
  BY <1>1, <1>2, UsedRecords
<1>4. branch_calculate(FileParents)[h]
        = Cardinality({g \in Used : /\ {h, LoadedRoot} \subseteq Ancestors(FileParents, g)
                                    /\ ({g} \cup Ancestors(FileParents, g)) \cap Unlisted = {}})
  BY DEF branch_calculate
<1> QED BY <1>3, <1>4

\* The loader turns records that are one tree into a tree in memory.
LEMMA LoadTree ==
  ASSUME TypeOK, MemoryInv, StoreInv, TreeInv, Loads
  PROVE  TreeInv'
<1>0. FileInv /\ FileRooted
  BY DEF StoreInv, TreeInv
<1>1. /\ Orphans = {} /\ SlotsFit /\ Roots # {} /\ up' = "run"
      /\ root' = LoadedRoot /\ tree' = LoadedTree
      /\ bid' = [f \in Findex |-> IF f \in Used THEN bhead[f].id ELSE 0]
      /\ UNCHANGED files /\ Unlisted = {}
  BY DEF Load, Loads
<1>2. /\ tree'.parent = FileParents /\ FileParents \in [Findex -> Findex \cup {NULL}]
      /\ tree'.total = branch_calculate(FileParents)
  BY <1>0, <1>1, FileParentsType DEF LoadedTree, FileParents
<1>3. PICK r : Roots = {r}
  BY <1>0, <1>1 DEF FileRooted
<1>4. LoadedRoot = r
  <2>1. r \in Findex
    BY <1>0, <1>3, UsedRecords DEF Roots
  <2>2. r <= r
    BY <2>1 DEF Findex
  <2> QED BY <1>3, <2>2 DEF LoadedRoot
<1>5. \A f \in Used \ {r} : r \in Ancestors(FileParents, f)
  BY <1>0, <1>3 DEF FileRooted
<1>6. Rooted'
  <2> SUFFICES ASSUME NEW f \in Findex \ {root'}, bid'[f] # 0
               PROVE  root' \in Ancestors(tree'.parent, f)
    BY DEF Rooted
  <2>1. f \in Used
    BY <1>1
  <2> QED BY <1>1, <1>2, <1>4, <1>5, <2>1
<1>7. TotalsKept'
  <2> SUFFICES ASSUME NEW h \in Findex
               PROVE  tree'.total[h] = Cardinality(Descendants(tree', h))
    BY DEF TotalsKept
  <2>1. Descendants(tree', h) = {g \in Findex : h \in Ancestors(FileParents, g)}
    BY <1>2 DEF Descendants
  <2>2. tree'.total[h] = Cardinality({g \in Findex : h \in Ancestors(FileParents, g)})
    BY <1>0, <1>1, <1>2, <1>3, Calculated
  <2> QED BY <2>1, <2>2
<1>8. FileRooted'
  BY <1>0, <1>1, RootedKept
<1> QED BY <1>6, <1>7, <1>8 DEF TreeInv

LEMMA TreeInit == Init => TreeInv
<1> SUFFICES ASSUME Init PROVE TreeInv
  OBVIOUS
<1>1. /\ root = 0 /\ tree = EmptyTree /\ filesize = 0
      /\ bid = [f \in Findex |-> IF f = 0 THEN RootId ELSE 0]
  BY DEF Init
<1>2. Rooted
  BY <1>1 DEF Rooted
<1>3. TotalsKept
  BY <1>1, EmptyTotals DEF TotalsKept, TotalsExact
<1>4. FileRooted
  <2>1. Used = {}
    BY <1>1 DEF Used
  <2> QED BY <2>1 DEF FileRooted, Roots
<1> QED BY <1>2, <1>3, <1>4 DEF TreeInv

LEMMA TreeNext ==
  ASSUME ClientsBehave
  PROVE  TypeOK /\ MemoryInv /\ StoreInv /\ TreeInv /\ [Next]_vars /\ intact' =>
           \/ TreeInv'
           \/ Rooted' /\ TotalsKept' /\ AllCurrent'
<1> SUFFICES ASSUME TypeOK, MemoryInv, StoreInv, TreeInv, [Next]_vars, intact'
             PROVE  \/ TreeInv'
                    \/ Rooted' /\ TotalsKept' /\ AllCurrent'
  OBVIOUS
<1>0. Rooted /\ TotalsKept /\ FileRooted /\ Shapes
  BY StepShapes DEF TreeInv
<1>1. ASSUME NEW p, NEW id, NEW pos, NEW txt, Inserts(p, id, pos, txt)
      PROVE  TreeInv'
  <2>1. UNCHANGED files
    BY <1>1 DEF Inserts, insert
  <2> QED BY <1>0, <1>1, <2>1, InsertTree, RootedKept DEF TreeInv
<1>2. ASSUME NEW b, NEW npb, NEW pos, Moves(b, npb, pos)
      PROVE  TreeInv'
  <2>1. UNCHANGED files
    BY <1>2 DEF Moves, move
  <2> QED BY <1>0, <1>2, <2>1, MoveTree, RootedKept DEF TreeInv
<1>3. ASSUME NEW b, NEW pos, Deletes(b, pos)
      PROVE  TreeInv'
  <2>1. UNCHANGED files
    BY <1>3 DEF Deletes
  <2> QED BY <1>0, <1>3, <2>1, DeleteTree, RootedKept DEF TreeInv
<1>4. ASSUME UNCHANGED <<up, root, tree, bid, files>>
      PROVE  TreeInv'
  BY <1>0, <1>4, RootedKept DEF TreeInv, Rooted, TotalsKept
<1>5. ASSUME NEW f, NEW txt, Updates(f, txt)
      PROVE  TreeInv'
  BY <1>4, <1>5 DEF Updates
<1>6. CASE Flush
  BY <1>6, FlushTree
<1>7. CASE Crash
  <2>1. tree' = EmptyTree /\ up' = "down" /\ UNCHANGED files
    BY <1>7 DEF Crash, NoMemory
  <2>2. Rooted'
    BY <2>1 DEF Rooted
  <2>3. TotalsExact(tree')
    BY <2>1, EmptyTotals
  <2>4. TotalsKept'
    BY <2>3 DEF TotalsKept, TotalsExact
  <2> QED BY <1>0, <2>1, <2>2, <2>4, RootedKept DEF TreeInv
<1>8. CASE Loads
  BY <1>8, LoadTree
<1>9. CASE Rests
  BY <1>4, <1>9 DEF Rests, memory
<1>10. CASE Sleeps
  BY <1>0, <1>10, RootedKept DEF Sleeps, memory, TreeInv, Rooted, TotalsKept
<1> QED BY <1>0, <1>1, <1>2, <1>3, <1>5, <1>6, <1>7, <1>8, <1>9, <1>10 DEF Shapes

LEMMA TreeInvariant ==
  ASSUME ClientsBehave
  PROVE  Spec => [](intact => TreeInv)
<1>1. Init => (intact => TreeInv)
  BY TreeInit
<1>2. TypeOK /\ MemoryInv /\ StoreInv /\ TreeInv /\ [Next]_vars /\ intact' =>
        TreeInv' \/ (Rooted' /\ TotalsKept' /\ AllCurrent')
  BY TreeNext
<1>3. TypeOK /\ MemoryInv /\ StoreInv /\ Rooted /\ TotalsKept /\ AllCurrent
        => TreeInv
  BY CurrentFiles DEF TreeInv
<1> QED BY <1>1, <1>2, <1>3, SoundInvariant, StoreInvariant, IntactKept, PTL DEF Spec

\* While clients send no id 0 and delete no branch with several children, and every load
\* found each slot claimed once, every branch the index finds hangs below the root, after
\* any crash and reload too.
THEOREM Reachable ==
  ASSUME ClientsBehave
  PROVE  Spec => []AllReachable
<1>1. (intact => TreeInv) => AllReachable
  BY DEF TreeInv, AllReachable
<1> QED BY <1>1, TreeInvariant, PTL

\* Under the same conditions total_branch_n, which branch_add and branch_detach adjust
\* along the ancestors and branch_calculate counts anew, is the number of branches below.
THEOREM TotalsCorrect ==
  ASSUME ClientsBehave
  PROVE  Spec => []TotalsCount
<1>1. (intact => TreeInv) => TotalsCount
  BY DEF TreeInv, TotalsCount
<1> QED BY <1>1, TreeInvariant, PTL

=============================================================================
