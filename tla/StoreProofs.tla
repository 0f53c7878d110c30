---------------------------- MODULE StoreProofs ----------------------------
(* Theorems about Store that hold for every value of its constants. *)
EXTENDS Store, BranchProofs, FiniteSetTheorems

-----------------------------------------------------------------------------
(* The writes of io.c. *)

LEMMA ReorderedProperties ==
  ASSUME NEW t \in Trees, NEW p \in Findex, NEW pos \in Nat
  PROVE  /\ io_childs_reordered(t, p, pos) \in Seq(Writes)
         /\ \A i \in 1 .. Len(t.child_list[p]) :
              i > pos => \E j \in 1 .. Len(io_childs_reordered(t, p, pos)) :
                           io_childs_reordered(t, p, pos)[j] = HeadWrite(t.child_list[p][i])
<1> DEFINE l == t.child_list[p]
           n == IF Len(l) >= pos THEN Len(l) - pos ELSE 0
           s == io_childs_reordered(t, p, pos)
<1>1. l \in Seq(Findex) /\ Len(l) \in Nat /\ \A i \in 1 .. Len(l) : l[i] \in Findex
  BY LenProperties, ElementOfSeq DEF Trees
<1>2. n \in Nat /\ 1 .. Len(l) - pos = 1 .. n
  BY <1>1
<1> HIDE DEF n
<1>3. s = [i \in 1 .. n |-> HeadWrite(l[pos + i])]
  BY <1>2 DEF io_childs_reordered
<1>4. \A i \in 1 .. n : HeadWrite(l[pos + i]) \in Writes
  <2>1. \A i \in 1 .. n : pos + i \in 1 .. Len(l)
    BY <1>1 DEF n
  <2> QED BY <1>1, <2>1 DEF HeadWrite, Writes
<1>5. s \in Seq(Writes) /\ Len(s) = n
  <2> HIDE DEF s, l
  <2>1. s \in [1 .. n -> Writes]
    BY <1>3, <1>4
  <2>2. s \in Seq(Writes)
    BY <1>2, <2>1, SeqDef
  <2>3. DOMAIN s = 1 .. n
    BY <1>3
  <2> QED BY <1>2, <2>2, <2>3, LenProperties
<1>6. ASSUME NEW i \in 1 .. Len(l), i > pos
      PROVE  \E j \in 1 .. Len(s) : s[j] = HeadWrite(l[i])
  <2>1. i - pos \in 1 .. n /\ pos + (i - pos) = i
    BY <1>1, <1>6 DEF n
  <2>2. s[i - pos] = HeadWrite(l[i])
    BY <1>3, <2>1
  <2> HIDE DEF s, l
  <2> QED BY <1>5, <2>1, <2>2
<1> QED BY <1>5, <1>6

LEMMA WritesType ==
  ASSUME NEW f \in Findex
  PROVE  HeadWrite(f) \in Writes /\ DataWrite(f) \in Writes
BY DEF HeadWrite, DataWrite, Writes

LEMMA NewWrites ==
  ASSUME NEW t \in Trees, NEW f \in Findex, t.parent[f] \in Findex, branch_get_pos(t, f) \in Nat
  PROVE  io_branch_new(t, f) \in Seq(Writes)
<1>1. branch_get_pos(t, f) \in Nat
  OBVIOUS
<1>2. io_childs_reordered(t, t.parent[f], branch_get_pos(t, f)) \in Seq(Writes)
  BY <1>1, ReorderedProperties
<1>3. /\ <<HeadWrite(f)>> \in Seq(Writes) /\ <<DataWrite(f)>> \in Seq(Writes)
      /\ <<HeadWrite(t.parent[f])>> \in Seq(Writes)
  BY WritesType
<1>4. <<HeadWrite(t.parent[f])>> \o io_childs_reordered(t, t.parent[f], branch_get_pos(t, f))
        \in Seq(Writes)
  BY <1>2, <1>3, ConcatProperties
<1>5. t.parent[f] # NULL
  BY NullNotFindex
<1>6. <<HeadWrite(f)>> \o (<<HeadWrite(t.parent[f])>>
        \o io_childs_reordered(t, t.parent[f], branch_get_pos(t, f))) \in Seq(Writes)
  BY <1>3, <1>4, ConcatProperties
<1> QED BY <1>3, <1>5, <1>6, ConcatProperties DEF io_branch_new

LEMMA MovedWrites ==
  ASSUME NEW t \in Trees, NEW f \in Findex, t.parent[f] \in Findex, branch_get_pos(t, f) \in Nat,
         NEW p \in Findex, NEW pos \in Nat
  PROVE  io_branch_moved(t, f, p, pos) \in Seq(Writes)
<1>1. branch_get_pos(t, f) + 1 \in Nat
  OBVIOUS
<1>2. /\ io_childs_reordered(t, t.parent[f], branch_get_pos(t, f) + 1) \in Seq(Writes)
      /\ io_childs_reordered(t, p, pos) \in Seq(Writes)
  BY <1>1, ReorderedProperties
<1>3. <<HeadWrite(f), HeadWrite(t.parent[f]), HeadWrite(p)>> \in Seq(Writes)
  BY WritesType
<1>4. <<HeadWrite(f), HeadWrite(t.parent[f]), HeadWrite(p)>>
        \o io_childs_reordered(t, t.parent[f], branch_get_pos(t, f) + 1) \in Seq(Writes)
  BY <1>2, <1>3, ConcatProperties
<1> QED BY <1>2, <1>4, ConcatProperties DEF io_branch_moved

LEMMA DeletedWrites ==
  ASSUME NEW t \in Trees, NEW f \in Findex, NEW p \in Findex, NEW pos \in Nat
  PROVE  io_branch_deleted(t, f, p, pos) \in Seq(Writes)
<1>1. io_childs_reordered(t, p, pos) \in Seq(Writes)
  BY ReorderedProperties
<1>2. <<HeadWrite(f), HeadWrite(p)>> \in Seq(Writes)
  BY WritesType
<1> QED BY <1>1, <1>2, ConcatProperties DEF io_branch_deleted

LEMMA UintType ==
  ASSUME NEW n \in Int
  PROVE  uint16(n) \in 0 .. UINT16_MAX /\ (n \in 0 .. UINT16_MAX => uint16(n) = n)
<1>1. \A m \in Int, k \in Nat : m % (k + 1) \in 0 .. k /\ (m \in 0 .. k => m % (k + 1) = m)
  OBVIOUS
<1> QED BY <1>1, UintNat DEF uint16

LEMMA RecordType ==
  ASSUME NEW t \in Trees, ListsSound(t), NEW ids \in [Findex -> Ids], NEW f \in Findex
  PROVE  Record(t, ids, f) \in Records
<1>1. Len(t.child_list[f]) \in Nat
  BY LenProperties DEF Trees
<1>2. 0 \in Ids
  BY DEF Ids
<1>3. CASE t.parent[f] = NULL
  BY <1>1, <1>2, <1>3, UintNat DEF Record, Records
<1>4. CASE t.parent[f] # NULL
  <2>1. t.parent[f] \in Findex
    BY <1>4 DEF Trees
  <2>2. uint16(branch_get_pos(t, f)) \in 0 .. UINT16_MAX
    <3>1. branch_get_pos(t, f) \in Int
      BY <2>1, ListedIn
    <3> QED BY <3>1, UintType
  <2> QED BY <1>1, <1>4, <2>1, <2>2 DEF Record, Records
<1> QED BY <1>3, <1>4

-----------------------------------------------------------------------------
(* What io_load_map builds. *)

LEMMA LoadedProperties ==
  ASSUME TypeOK, Orphans = {}
  PROVE  /\ Used \subseteq Findex
         /\ \A id \in Ids : LoadedIndex(id) \in Used \cup {NULL}
         /\ \A id \in Ids : LoadedIndex(id) # NULL => bhead[LoadedIndex(id)].id = id
         /\ \A f \in Findex : LoadedParent(f) \in Used \cup {NULL}
         /\ \A f \in Findex : LoadedParent(f) # NULL => f \in Used
<1>1. filesize \in Nat /\ filesize <= MaxBranch
  BY MaxBranchNat DEF TypeOK
<1>2. Used \subseteq Findex
  <2>1. \A f \in 0 .. filesize - 1 : f \in 0 .. MaxBranch - 1
    BY <1>1, MaxBranchNat
  <2> QED BY <2>1 DEF Used, Findex
<1>3. ASSUME NEW id \in Ids, Found(id) # {}
      PROVE  LoadedIndex(id) \in Found(id)
  <2>1. MaxBranch \in Nat /\ Found(id) \in SUBSET (0 .. MaxBranch)
    <3>1. \A f \in 0 .. MaxBranch - 1 : f \in 0 .. MaxBranch
      BY MaxBranchNat
    <3>2. Found(id) \subseteq 0 .. MaxBranch - 1
      BY <1>2 DEF Found, Findex
    <3> QED BY <3>1, <3>2, MaxBranchNat
  <2>2. \E m \in Found(id) : \A n \in Found(id) : n <= m
    BY <2>1, <1>3, MaxExists
  <2> QED BY <1>3, <2>2 DEF LoadedIndex
<1>4. \A id \in Ids : LoadedIndex(id) \in Used \cup {NULL}
  BY <1>3 DEF Found, LoadedIndex
<1>5. \A id \in Ids : LoadedIndex(id) # NULL => bhead[LoadedIndex(id)].id = id
  BY <1>3 DEF Found, LoadedIndex
<1>6. \A f \in Findex : bhead[f].parent_id \in Ids
  BY DEF TypeOK, Records
<1>7. \A f \in Findex : LoadedParent(f) \in Used \cup {NULL}
  BY <1>4, <1>6 DEF LoadedParent
<1>8. \A f \in Findex : LoadedParent(f) # NULL => f \in Used
  BY DEF LoadedParent
<1> QED BY <1>2, <1>4, <1>5, <1>7, <1>8

\* The record that wins a slot is one of those that claim it.
LEMMA SlotClaims ==
  ASSUME TypeOK, Orphans = {}, NEW p, NEW i, Filling(p, i) # {}
  PROVE  /\ Slot(p, i) \in Used /\ LoadedParent(Slot(p, i)) = p /\ bhead[Slot(p, i)].pos = i
         /\ Slot(p, i) \in Filling(p, i)
<1>1. MaxBranch \in Nat /\ Filling(p, i) \in SUBSET (0 .. MaxBranch)
  <2>1. \A f \in 0 .. MaxBranch - 1 : f \in 0 .. MaxBranch
    BY MaxBranchNat
  <2>2. Filling(p, i) \subseteq 0 .. MaxBranch - 1
    BY LoadedProperties DEF Filling, Findex
  <2> QED BY <2>1, <2>2, MaxBranchNat
<1>2. \E m \in Filling(p, i) : \A n \in Filling(p, i) : n <= m
  BY <1>1, MaxExists
<1>3. Slot(p, i) \in Filling(p, i)
  BY <1>2 DEF Slot
<1> QED BY <1>3 DEF Filling

LEMMA LoadedTreeProperties ==
  ASSUME TypeOK, Orphans = {}, SlotsFit
  PROVE  /\ LoadedTree \in Trees
         /\ ListsSound(LoadedTree)
         /\ LoadedTree.parent = [f \in Findex |-> LoadedParent(f)]
         /\ \A p \in Used : Len(LoadedTree.child_list[p]) = bhead[p].child_n
         /\ Unlisted = {} => Linked(LoadedTree)
         /\ Unlisted = {} => \A c \in Used : LoadedParent(c) # NULL =>
              /\ bhead[c].pos + 1 \in 1 .. Len(LoadedTree.child_list[LoadedParent(c)])
              /\ LoadedTree.child_list[LoadedParent(c)][bhead[c].pos + 1] = c
<1> DEFINE T == LoadedTree
           slot(p, i) == Slot(p, i)
<1>1. /\ Used \subseteq Findex
      /\ \A f \in Findex : LoadedParent(f) \in Used \cup {NULL}
      /\ \A f \in Findex : LoadedParent(f) # NULL => f \in Used
  BY LoadedProperties
<1>2. /\ T.parent = [f \in Findex |-> LoadedParent(f)]
      /\ T.child_list = [p \in Findex |-> IF p \in Used
                                          THEN [i \in 1 .. bhead[p].child_n |-> slot(p, i - 1)]
                                          ELSE <<>>]
      /\ T = [parent |-> T.parent, child_list |-> T.child_list, total |-> T.total]
  BY DEF LoadedTree
<1>3. \A f \in Findex : bhead[f].child_n \in Nat /\ bhead[f].pos \in Nat
  BY UintNat DEF TypeOK, Records
<1>5. ASSUME NEW p \in Used, NEW i \in 0 .. bhead[p].child_n - 1
      PROVE  slot(p, i) \in Used /\ LoadedParent(slot(p, i)) = p /\ bhead[slot(p, i)].pos = i
  <2>1. Filling(p, i) # {}
    BY DEF SlotsFit
  <2> QED BY <2>1, SlotClaims
<1> HIDE DEF slot
<1>6. ASSUME NEW c \in Used, LoadedParent(c) # NULL, Unlisted = {}
      PROVE  /\ bhead[c].pos \in 0 .. bhead[LoadedParent(c)].child_n - 1
             /\ slot(LoadedParent(c), bhead[c].pos) = c
  <2>1. LoadedParent(c) \in Used
    BY <1>1, <1>6
  <2>2. bhead[c].pos < bhead[LoadedParent(c)].child_n
    BY <1>6 DEF SlotsFit
  <2>3. bhead[c].pos \in 0 .. bhead[LoadedParent(c)].child_n - 1
    BY <1>1, <1>3, <2>1, <2>2
  <2> QED BY <1>6, <2>3 DEF Unlisted, slot
<1> HIDE DEF T
<1>7. \A p \in Used : /\ T.child_list[p] = [i \in 1 .. bhead[p].child_n |-> slot(p, i - 1)]
                      /\ T.child_list[p] \in Seq(Findex)
                      /\ Len(T.child_list[p]) = bhead[p].child_n
  <2> TAKE p \in Used
  <2>1. T.child_list[p] = [i \in 1 .. bhead[p].child_n |-> slot(p, i - 1)]
    BY <1>1, <1>2
  <2>2. T.child_list[p] \in [1 .. bhead[p].child_n -> Findex]
    <3>1. \A i \in 1 .. bhead[p].child_n : i - 1 \in 0 .. bhead[p].child_n - 1
      BY <1>1, <1>3
    <3> QED BY <2>1, <3>1, <1>1, <1>5
  <2>3. T.child_list[p] \in Seq(Findex)
    BY <2>2, <1>1, <1>3, SeqDef
  <2> QED BY <2>1, <2>3, <1>1, <1>3, LenProperties
<1>7a. ASSUME NEW c \in Used, LoadedParent(c) # NULL, Unlisted = {}
       PROVE  /\ bhead[c].pos + 1 \in 1 .. Len(T.child_list[LoadedParent(c)])
              /\ T.child_list[LoadedParent(c)][bhead[c].pos + 1] = c
  <2>1. bhead[c].pos \in 0 .. bhead[LoadedParent(c)].child_n - 1 /\ slot(LoadedParent(c), bhead[c].pos) = c
    BY <1>6, <1>7a
  <2>2. LoadedParent(c) \in Used
    BY <1>1, <1>7a
  <2>3. /\ Len(T.child_list[LoadedParent(c)]) = bhead[LoadedParent(c)].child_n
        /\ T.child_list[LoadedParent(c)]
             = [i \in 1 .. bhead[LoadedParent(c)].child_n |-> slot(LoadedParent(c), i - 1)]
    BY <1>7, <2>2
  <2>4. /\ bhead[c].pos + 1 \in 1 .. bhead[LoadedParent(c)].child_n
        /\ bhead[c].pos + 1 - 1 = bhead[c].pos
    BY <1>1, <1>3, <2>1, <2>2
  <2> QED BY <2>1, <2>3, <2>4
<1>8. \A p \in Findex \ Used : T.child_list[p] = <<>> /\ Len(T.child_list[p]) = 0
  BY <1>2
<1>9. T \in Trees
  <2>1. T.total \in [Findex -> Int]
    <3> DEFINE par == [h \in Findex |-> LoadedParent(h)]
               B(f) == {g \in Used : /\ {f, LoadedRoot} \subseteq Ancestors(par, g)
                                     /\ ({g} \cup Ancestors(par, g)) \cap Unlisted = {}}
    <3>1. \A f \in Findex : Cardinality(B(f)) \in Int
      <4> TAKE f \in Findex
      <4>1. IsFiniteSet(Findex)
        BY FS_Interval, MaxBranchNat DEF Findex
      <4>2. B(f) \subseteq Findex
        BY <1>1
      <4> HIDE DEF B
      <4>3. IsFiniteSet(B(f))
        BY <4>1, <4>2, FS_Subset
      <4>4. Cardinality(B(f)) \in Nat
        BY <4>3, FS_CardinalityType
      <4> QED BY <4>4
    <3> QED BY <3>1 DEF T, LoadedTree, branch_calculate
  <2>2. T.parent \in [Findex -> Findex \cup {NULL}]
    BY <1>1, <1>2
  <2>3. T.child_list \in [Findex -> Seq(Findex)]
    <3>1. \A p \in Findex : T.child_list[p] \in Seq(Findex)
      <4> TAKE p \in Findex
      <4>1. CASE p \in Used
        BY <4>1, <1>7
      <4>2. CASE p \notin Used
        BY <4>2, <1>8, EmptySeq
      <4> QED BY <4>1, <4>2
    <3>2. DOMAIN T.child_list = Findex
      BY <1>2
    <3>3. T.child_list = [p \in Findex |-> T.child_list[p]]
      BY <1>2
    <3> QED BY <3>1, <3>2, <3>3
  <2> QED BY <1>2, <2>1, <2>2, <2>3 DEF Trees
<1>9a. ASSUME NEW p \in Findex, NEW i \in 1 .. Len(T.child_list[p])
       PROVE  /\ p \in Used /\ T.child_list[p][i] \in Findex
              /\ T.parent[T.child_list[p][i]] = p /\ bhead[T.child_list[p][i]].pos = i - 1
  <2>1. p \in Used
    BY <1>8, <1>9a
  <2>2. i \in 1 .. bhead[p].child_n /\ T.child_list[p][i] = slot(p, i - 1)
    <3>1. Len(T.child_list[p]) = bhead[p].child_n
      BY <2>1, <1>7
    <3>2. T.child_list[p] = [k \in 1 .. bhead[p].child_n |-> slot(p, k - 1)]
      BY <2>1, <1>7
    <3> QED BY <3>1, <3>2, <1>9a
  <2>3. i - 1 \in 0 .. bhead[p].child_n - 1
    BY <2>2, <1>3
  <2>4. /\ slot(p, i - 1) \in Used /\ LoadedParent(slot(p, i - 1)) = p
        /\ bhead[slot(p, i - 1)].pos = i - 1
    BY <2>1, <2>3, <1>5
  <2> QED BY <2>1, <2>2, <2>4, <1>1, <1>2
<1>10. ListsSound(T)
  <2> SUFFICES ASSUME NEW p \in Findex, NEW i \in 1 .. Len(T.child_list[p])
               PROVE  /\ T.parent[T.child_list[p][i]] = p
                      /\ \A j \in 1 .. Len(T.child_list[p]) :
                           T.child_list[p][i] = T.child_list[p][j] => i = j
    BY DEF ListsSound
  <2>1. ASSUME NEW j \in 1 .. Len(T.child_list[p]), T.child_list[p][i] = T.child_list[p][j]
        PROVE  i = j
    <3>1. i - 1 = j - 1
      BY <1>9a, <2>1
    <3>2. Len(T.child_list[p]) \in Nat
      BY <1>9a, <1>7, <1>3, <1>1
    <3> QED BY <3>1, <3>2
  <2> QED BY <1>9a, <2>1
<1>11. ASSUME Unlisted = {} PROVE Linked(T)
  <2>1. ASSUME NEW c \in Findex, NEW p \in Findex, T.parent[c] = p
        PROVE  \E i \in 1 .. Len(T.child_list[p]) : T.child_list[p][i] = c
    <3>1. LoadedParent(c) = p /\ p # NULL
      BY <1>2, <2>1, NullNotFindex
    <3>2. c \in Used
      BY <3>1, <1>1
    <3>3. /\ bhead[c].pos + 1 \in 1 .. Len(T.child_list[p])
          /\ T.child_list[p][bhead[c].pos + 1] = c
      BY <1>7a, <1>11, <3>1, <3>2
    <3> QED BY <3>3
  <2>2. ASSUME NEW c \in Findex, NEW p \in Findex,
               NEW i \in 1 .. Len(T.child_list[p]), T.child_list[p][i] = c
        PROVE  T.parent[c] = p
    BY <1>9a, <2>2
  <2>3. \A p \in Findex : \A i, j \in 1 .. Len(T.child_list[p]) :
          T.child_list[p][i] = T.child_list[p][j] => i = j
    BY <1>10 DEF ListsSound
  <2> QED BY <2>1, <2>2, <2>3 DEF Linked
<1>12. Unlisted = {} => \A c \in Used : LoadedParent(c) # NULL =>
              /\ bhead[c].pos + 1 \in 1 .. Len(T.child_list[LoadedParent(c)])
              /\ T.child_list[LoadedParent(c)][bhead[c].pos + 1] = c
  BY <1>7a
<1> QED BY <1>2, <1>7, <1>9, <1>10, <1>11, <1>12 DEF T

-----------------------------------------------------------------------------
(* Types and links: MemoryInv is inductive whatever clients send. *)

\* Where every load found each slot claimed once, all of it holds.
LEMMA IntactMemory == SoundInv /\ intact => MemoryInv
BY DEF SoundInv, MemoryInv, TreeConsistent

LEMMA MemorySound == TypeOK /\ MemoryInv => SoundInv
BY LinkedSound DEF SoundInv, MemoryInv, TreeConsistent, TypeOK

\* insert links a blank object; what was linked stays linked.
LEMMA InsertSound ==
  ASSUME TypeOK, SoundInv, NEW p \in Findex, NEW id \in Ids, NEW pos \in Int,
         NEW txt \in Texts, insert(p, id, pos, txt)
  PROVE  /\ branch_n \in Findex
         /\ branch_n' \in 0 .. MaxBranch
         /\ tree' \in Trees
         /\ TreeConsistent' /\ (Linked(tree) => Linked(tree')) /\ intact' = intact
         /\ tree'.parent = [tree.parent EXCEPT ![branch_n] = p]
         /\ bid' = [bid EXCEPT ![branch_n] = id]
         /\ bid' \in [Findex -> Ids]
         /\ text' \in [Findex -> Texts \cup {NoData}]
         /\ index' \in [Ids -> Findex \cup {NULL}]
         /\ todo' \in Seq(Writes)
         /\ \A f \in Findex : f >= branch_n' => tree'.parent[f] = NULL /\ bid'[f] = 0
<1> DEFINE t == branch_add(tree, branch_n, p, pos)
<1>1. branch_n \in Findex /\ branch_n' \in 0 .. MaxBranch /\ branch_n' = branch_n + 1
  <2>1. branch_n < MaxBranch /\ branch_n' = branch_n + 1
    BY DEF insert
  <2>2. branch_n \in 0 .. MaxBranch
    BY DEF TypeOK
  <2> QED BY <2>1, <2>2, MaxBranchNat DEF Findex
<1>2. tree \in Trees /\ ListsSound(tree) /\ (intact => Linked(tree)) /\ tree.parent[branch_n] = NULL
  <2>1. branch_n >= branch_n
    BY <1>1 DEF Findex
  <2> QED BY <1>1, <2>1 DEF TypeOK, SoundInv, TreeConsistent, BlankInv
<1>3. /\ t \in Trees /\ ListsSound(t) /\ t.parent = [tree.parent EXCEPT ![branch_n] = p]
      /\ branch_get_pos(t, branch_n) \in Nat
  BY <1>1, <1>2, SoundAdd
<1>3a. ASSUME Linked(tree) PROVE Linked(t)
  BY <1>1, <1>2, <1>3a, AddProperties
<1>4. tree' = t /\ todo' = io_branch_new(t, branch_n) /\ intact' = intact
  BY DEF insert
<1> HIDE DEF t
<1>5. t.parent[branch_n] \in Findex
  BY <1>1, <1>2, <1>3 DEF Trees
<1>6. todo' \in Seq(Writes)
  BY <1>1, <1>3, <1>4, <1>5, NewWrites
<1>6a. TreeConsistent'
  BY <1>2, <1>3, <1>3a, <1>4 DEF TreeConsistent
<1>7. /\ bid' = [bid EXCEPT ![branch_n] = id]
      /\ bid' \in [Findex -> Ids]
      /\ text' \in [Findex -> Texts \cup {NoData}]
      /\ index' \in [Ids -> Findex \cup {NULL}]
  BY <1>1 DEF insert, TypeOK
<1>8. \A f \in Findex : f >= branch_n' => tree'.parent[f] = NULL /\ bid'[f] = 0
  <2> TAKE f \in Findex
  <2> HAVE f >= branch_n'
  <2>1. f # branch_n /\ f >= branch_n
    BY <1>1 DEF Findex
  <2>2. tree'.parent[f] = tree.parent[f] /\ bid'[f] = bid[f]
    BY <1>1, <1>2, <1>3, <1>4, <1>7, <2>1 DEF Trees, TypeOK
  <2> QED BY <2>1, <2>2 DEF SoundInv, BlankInv
<1> QED BY <1>1, <1>3, <1>3a, <1>4, <1>6, <1>6a, <1>7, <1>8

LEMMA InsertStep ==
  ASSUME TypeOK, MemoryInv, NEW p \in Findex, NEW id \in Ids, NEW pos \in Int,
         NEW txt \in Texts, insert(p, id, pos, txt)
  PROVE  /\ branch_n \in Findex
         /\ tree' \in Trees
         /\ Linked(tree')
         /\ tree'.parent = [tree.parent EXCEPT ![branch_n] = p]
         /\ bid' = [bid EXCEPT ![branch_n] = id]
<1>1. SoundInv /\ Linked(tree)
  BY MemorySound DEF MemoryInv
<1> QED BY <1>1, InsertSound

\* move relinks one branch; no other parent changes.
LEMMA MoveSound ==
  ASSUME TypeOK, SoundInv, NEW b \in Findex, NEW npb \in Findex, NEW pos \in Int,
         move(b, npb, pos)
  PROVE  /\ tree.parent[b] \in Findex
         /\ tree' \in Trees
         /\ TreeConsistent' /\ (Linked(tree) => Linked(tree')) /\ intact' = intact
         /\ tree'.parent = [tree.parent EXCEPT ![b] = npb]
         /\ todo' \in Seq(Writes)
         /\ \A f \in Findex : f >= branch_n' => tree'.parent[f] = NULL /\ bid'[f] = 0
<1> DEFINE d == branch_detach(tree, b)
           t == branch_add(d, b, npb, pos)
           p == tree.parent[b]
<1>1. tree \in Trees /\ ListsSound(tree) /\ (intact => Linked(tree)) /\ p \in Findex /\ listed(tree, b)
  BY DEF TypeOK, SoundInv, TreeConsistent, move, CanMove, Trees
<1>2. d \in Trees /\ ListsSound(d) /\ d.parent = [tree.parent EXCEPT ![b] = NULL]
  BY <1>1, SoundDetach
<1>2a. ASSUME Linked(tree) PROVE Linked(d)
  BY <1>1, <1>2a, DetachProperties
<1> HIDE DEF d
<1>3. d.parent[b] = NULL
  BY <1>1, <1>2 DEF Trees
<1>4. /\ t \in Trees /\ ListsSound(t) /\ t.parent = [d.parent EXCEPT ![b] = npb]
      /\ branch_get_pos(t, b) \in Nat
  <2>1. d \in Trees /\ ListsSound(d)
    BY <1>2
  <2> QED BY <2>1, <1>3, SoundAdd
<1>4a. ASSUME Linked(tree) PROVE Linked(t)
  <2>1. d \in Trees /\ Linked(d)
    BY <1>2, <1>2a, <1>4a
  <2> QED BY <2>1, <1>3, AddProperties
<1>5. tree' = t /\ todo' = io_branch_moved(t, b, p, branch_get_pos(tree, b))
      /\ branch_n' = branch_n /\ bid' = bid /\ intact' = intact
  BY DEF move, d
<1> HIDE DEF t
<1>6. t.parent = [tree.parent EXCEPT ![b] = npb]
  BY <1>1, <1>2, <1>4 DEF Trees
<1>7. t.parent[b] \in Findex
  BY <1>1, <1>6 DEF Trees
<1>8. branch_get_pos(tree, b) \in Nat
  BY <1>1, SoundPos
<1>9. todo' \in Seq(Writes)
  BY <1>1, <1>4, <1>5, <1>7, <1>8, MovedWrites
<1>9a. TreeConsistent'
  BY <1>1, <1>4, <1>4a, <1>5 DEF TreeConsistent
<1>10. \A f \in Findex : f >= branch_n' => tree'.parent[f] = NULL /\ bid'[f] = 0
  BY <1>1, <1>5, <1>6, NullNotFindex DEF SoundInv, BlankInv, Trees
<1> QED BY <1>1, <1>4, <1>4a, <1>5, <1>6, <1>9, <1>9a, <1>10

LEMMA MoveStep ==
  ASSUME TypeOK, MemoryInv, NEW b \in Findex, NEW npb \in Findex, NEW pos \in Int,
         move(b, npb, pos)
  PROVE  /\ tree.parent[b] \in Findex
         /\ tree' \in Trees
         /\ Linked(tree')
         /\ tree'.parent = [tree.parent EXCEPT ![b] = npb]
         /\ \A g \in Findex \ {npb, tree.parent[b]} : tree'.child_list[g] = tree.child_list[g]
         /\ tree.parent[b] # npb =>
              Len(tree'.child_list[tree.parent[b]]) = Len(tree.child_list[tree.parent[b]]) - 1
<1> DEFINE d == branch_detach(tree, b)
           t == branch_add(d, b, npb, pos)
           p == tree.parent[b]
<1>0. SoundInv /\ tree \in Trees /\ Linked(tree)
  BY MemorySound DEF MemoryInv, TypeOK
<1>1. p \in Findex /\ tree' \in Trees /\ Linked(tree') /\ tree'.parent = [tree.parent EXCEPT ![b] = npb]
  BY <1>0, MoveSound
<1>2. /\ d \in Trees /\ Linked(d) /\ d.parent = [tree.parent EXCEPT ![b] = NULL]
      /\ \A g \in Findex \ {p} : d.child_list[g] = tree.child_list[g]
      /\ Len(d.child_list[p]) = Len(tree.child_list[p]) - 1
  <2>1. tree.parent[b] \in Findex
    BY <1>1
  <2> QED BY <1>0, <2>1, DetachProperties
<1>3. tree' = t
  BY DEF move
<1> HIDE DEF d
<1>4. d.parent[b] = NULL
  BY <1>0, <1>2 DEF Trees
<1>5. \A g \in Findex \ {npb} : t.child_list[g] = d.child_list[g]
  <2>1. d \in Trees /\ Linked(d)
    BY <1>2
  <2>2. /\ t \in Trees /\ Linked(t) /\ t.parent = [d.parent EXCEPT ![b] = npb]
        /\ \A g \in Findex \ {npb} : t.child_list[g] = d.child_list[g]
    BY <2>1, <1>4, AddProperties
  <2> QED BY <2>2
<1> HIDE DEF t
<1>6. \A g \in Findex \ {npb, p} : t.child_list[g] = tree.child_list[g]
  BY <1>2, <1>5
<1>7. p # npb => Len(t.child_list[p]) = Len(tree.child_list[p]) - 1
  BY <1>1, <1>2, <1>5
<1> QED BY <1>1, <1>3, <1>6, <1>7

LEMMA PcFields ==
  ASSUME NEW c \in Pcs
  PROVE  /\ c.op \in {"idle", "delete", "path"}
         /\ c.op = "delete" => /\ c.b \in Findex /\ c.i \in Nat
                               /\ [c EXCEPT !.i = @ + 1] \in Pcs
                               /\ [c EXCEPT !.i = @ + 1].op = "delete"
                               /\ [c EXCEPT !.i = @ + 1].b = c.b
         /\ c.op = "path" => c.at \in Findex /\ c.names \in Seq(Texts) /\ c.last \in Finals
<1>1. CASE c = Idle
  BY <1>1 DEF Idle
<1>2. CASE c \in [op : {"delete"}, b : Findex, i : Nat]
  <2>1. PICK b \in Findex, i \in Nat : c = [op |-> "delete", b |-> b, i |-> i]
    BY <1>2
  <2>2. [c EXCEPT !.i = @ + 1] = [op |-> "delete", b |-> b, i |-> i + 1]
    BY <2>1
  <2> QED BY <2>1, <2>2 DEF Pcs
<1>3. CASE c \in [op : {"path"}, at : Findex, names : Seq(Texts), last : Finals]
  <2>1. PICK a \in Findex, names \in Seq(Texts), l \in Finals :
          c = [op |-> "path", at |-> a, names |-> names, last |-> l]
    BY <1>3
  <2>2. c.op = "path" /\ c.at \in Findex /\ c.names \in Seq(Texts) /\ c.last \in Finals
    BY <2>1
  <2> QED BY <2>2
<1> QED BY <1>1, <1>2, <1>3 DEF Pcs

LEMMA IdleType == Idle \in Pcs /\ Idle.op = "idle"
BY DEF Idle, Pcs

LEMMA FinalFields ==
  ASSUME NEW l \in Finals
  PROVE  l.id \in Ids /\ (l.op = "insert" => l.text \in Texts)
BY DEF Finals, Ids

\* The initial state.
LEMMA SoundInit == Init => TypeOK /\ SoundInv
<1> SUFFICES ASSUME Init PROVE TypeOK /\ SoundInv
  OBVIOUS
<1>1. 0 \in Findex /\ MaxBranch \in Nat /\ MaxBranch >= 1
  BY MaxBranchNat DEF Findex
<1>2. RootText \in Texts
  BY TextsAssumption DEF RootText
<1>3. {0, RootId} \subseteq Ids
  BY DEF Ids
<1>4. tree \in Trees /\ Linked(tree) /\ \A f \in Findex : tree.parent[f] = NULL
  <2>1. tree = EmptyTree
    BY DEF Init
  <2>2. EmptyTree \in Trees
    BY DEF EmptyTree, Trees
  <2>3. Linked(EmptyTree)
    BY NullNotFindex DEF EmptyTree, Linked
  <2> QED BY <2>1, <2>2, <2>3 DEF EmptyTree
<1>5. todo \in Seq(Writes)
  BY <1>1, WritesType DEF Init
<1>6. TypeOK
  <2>1. bid \in [Findex -> Ids] /\ text \in [Findex -> Texts \cup {NoData}]
    BY <1>2, <1>3 DEF Init
  <2>2. index \in [Ids -> Findex \cup {NULL}] /\ row \in [Ids -> Texts \cup {NoData}]
    BY <1>1 DEF Init
  <2>3. bhead \in [Findex -> Records]
    BY <1>3, UintNat DEF Init, ZeroRecord, Records
  <2>4. branch_n \in 0 .. MaxBranch /\ filesize \in 0 .. MaxBranch /\ root \in Findex \cup {NULL}
    BY <1>1 DEF Init
  <2> QED BY <1>4, <1>5, <2>1, <2>2, <2>3, <2>4, IdleType DEF Init, TypeOK
<1>7. \A f \in Findex : f >= branch_n => bid[f] = 0
  BY DEF Init, Findex
<1>8. TreeConsistent
  BY <1>4, LinkedSound DEF TreeConsistent
<1> QED BY <1>1, <1>4, <1>6, <1>7, <1>8, IdleType DEF Init, SoundInv, BlankInv

\* Every step keeps types and links.
LEMMA SoundNext == TypeOK /\ SoundInv /\ [Next]_vars => TypeOK' /\ SoundInv'
<1> SUFFICES ASSUME TypeOK, SoundInv, [Next]_vars
             PROVE  TypeOK' /\ SoundInv'
  OBVIOUS
<1>0. /\ pc \in Pcs /\ NULL \notin Findex
      /\ Far \in Int /\ Far \in Nat
  BY IdleType, NullNotFindex, MaxBranchNat DEF TypeOK, Far
<1>1. CASE Insert
  <2>1. PICK pid \in Ids, id \in ClientIds, pos \in 0 .. Far, txt \in Texts :
          index[pid] # NULL /\ insert(index[pid], id, pos, txt)
    BY <1>1 DEF Insert
  <2>2. index[pid] \in Findex /\ id \in Ids /\ pos \in Int
    BY <2>1, <1>0 DEF TypeOK, Ids
  <2>3. pc' = pc /\ up' = up /\ UNCHANGED <<root, files, intact>> /\ up = "run" /\ pc = Idle
    BY <1>1, <2>1 DEF Insert, insert, Ready
  <2> QED BY <2>1, <2>2, <2>3, InsertSound, IdleType DEF TypeOK, SoundInv, BlankInv, files
<1>2. CASE Move
  <2>1. PICK id \in Ids, npid \in Ids, pos \in 0 .. Far :
          /\ index[id] # NULL /\ index[npid] # NULL
          /\ move(index[id], index[npid], pos)
    BY <1>2 DEF Move
  <2>2. index[id] \in Findex /\ index[npid] \in Findex /\ pos \in Int
    BY <2>1, <1>0 DEF TypeOK
  <2>3. pc' = pc /\ UNCHANGED <<up, branch_n, root, bid, text, index, files, intact>> /\ pc = Idle
    BY <1>2, <2>1 DEF Move, move
  <2> QED BY <2>1, <2>2, <2>3, MoveSound, IdleType DEF TypeOK, SoundInv, BlankInv, files
<1>3. CASE Update
  <2>1. PICK id \in Ids, txt \in Texts :
          /\ index[id] # NULL
          /\ text' = [text EXCEPT ![index[id]] = txt]
          /\ todo' = <<DataWrite(index[id])>>
    BY <1>3 DEF Update
  <2>2. index[id] \in Findex
    BY <2>1 DEF TypeOK
  <2>3. todo' \in Seq(Writes) /\ text' \in [Findex -> Texts \cup {NoData}]
    BY <2>1, <2>2, WritesType DEF TypeOK
  <2> QED BY <1>3, <2>3 DEF Update, TypeOK, SoundInv, TreeConsistent, BlankInv, files
<1>4. CASE DeleteStart
  <2>1. PICK id \in Ids :
          /\ index[id] # NULL /\ tree.parent[index[id]] # NULL
          /\ pc' = [op |-> "delete", b |-> index[id], i |-> 0]
    BY <1>4 DEF DeleteStart
  <2>2. pc' \in Pcs /\ pc'.op = "delete" /\ pc'.b = index[id]
    BY <2>1 DEF TypeOK, Pcs
  <2> QED BY <1>4, <2>1, <2>2 DEF DeleteStart, Ready, TypeOK, SoundInv, TreeConsistent, BlankInv, memory, files
<1>5. CASE PathStart
  <2>1. PICK pid \in Ids, n \in 0 .. MaxNames, last \in Finals :
          \E names \in [1 .. n -> Texts] :
            LET at == IF pid = 0 THEN root ELSE index[pid]
            IN  /\ at # NULL
                /\ pc' = [op |-> "path", at |-> at, names |-> names, last |-> last]
    BY <1>5 DEF PathStart
  <2>2. PICK names \in [1 .. n -> Texts], at \in Findex :
          pc' = [op |-> "path", at |-> at, names |-> names, last |-> last]
    BY <2>1 DEF TypeOK
  <2>3. n \in Nat /\ names \in Seq(Texts)
    BY <2>2, SeqDef, MaxNamesAssumption
  <2>4. pc' \in Pcs /\ pc'.op = "path"
    BY <2>2, <2>3 DEF Pcs
  <2> QED BY <1>5, <2>4 DEF PathStart, Ready, TypeOK, SoundInv, TreeConsistent, BlankInv, memory, files
<1>6. CASE DeleteChild
  <2> DEFINE c == tree.child_list[pc.b][pc.i + 1]
  <2>1. /\ pc.op = "delete" /\ pc.b \in Findex /\ pc.i \in Nat
        /\ pc' \in Pcs /\ pc'.op = "delete" /\ pc'.b = pc.b
    BY <1>0, <1>6, PcFields DEF DeleteChild
  <2>2. c \in Findex
    <3>1. tree.child_list[pc.b] \in Seq(Findex) /\ Len(tree.child_list[pc.b]) \in Nat
      BY <2>1, LenProperties DEF TypeOK, Trees
    <3>2. pc.i + 1 \in 1 .. Len(tree.child_list[pc.b])
      BY <1>6, <2>1, <3>1 DEF DeleteChild
    <3> QED BY <3>1, <3>2, ElementOfSeq
  <2>3. root \in Findex /\ up = "run" /\ tree.parent[pc.b] # NULL
    BY <1>6, <2>1 DEF DeleteChild, Ready, SoundInv, BlankInv
  <2>4. move(c, root, Far)
    BY <1>6, SMTT(40) DEF DeleteChild
  <2>5. UNCHANGED <<up, branch_n, root, bid, text, index, files, intact>>
    BY <2>4 DEF move
  <2> HIDE DEF c
  <2>6. /\ tree' \in Trees /\ TreeConsistent' /\ todo' \in Seq(Writes)
        /\ tree'.parent = [tree.parent EXCEPT ![c] = root]
        /\ \A f \in Findex : f >= branch_n' => tree'.parent[f] = NULL /\ bid'[f] = 0
    BY <1>0, <2>2, <2>3, <2>4, MoveSound
  <2>7. tree'.parent[pc.b] # NULL
    BY <1>0, <2>1, <2>2, <2>3, <2>6 DEF TypeOK, Trees
  <2> QED BY <2>1, <2>3, <2>5, <2>6, <2>7 DEF TypeOK, SoundInv, BlankInv, files
<1>7. CASE DeleteEnd
  <2> DEFINE b == pc.b
             pos == branch_get_pos(tree, b) % 256
  <2>1. /\ pc.op = "delete" /\ b \in Findex /\ tree \in Trees /\ ListsSound(tree)
        /\ tree.parent[b] \in Findex /\ listed(tree, b)
    <3>1. pc.op = "delete" /\ b \in Findex /\ tree \in Trees /\ ListsSound(tree) /\ listed(tree, b)
      BY <1>0, <1>7, PcFields DEF DeleteEnd, SoundInv, TreeConsistent, TypeOK
    <3>2. tree.parent[b] # NULL
      BY <3>1 DEF SoundInv, BlankInv
    <3> QED BY <3>1, <3>2 DEF Trees
  <2>2. /\ tree' = branch_detach(tree, b) /\ bid' = [bid EXCEPT ![b] = 0]
        /\ index' = [index EXCEPT ![bid[b]] = NULL]
        /\ todo' = io_branch_deleted(tree', b, tree.parent[b], pos)
        /\ pc' = Idle /\ up = "run" /\ UNCHANGED <<up, branch_n, root, text, files, intact>>
    BY <1>7 DEF DeleteEnd, Ready
  <2>3. pos \in Nat
    <3>1. branch_get_pos(tree, b) \in Nat
      BY <2>1, SoundPos
    <3> QED BY <3>1
  <2> HIDE DEF b, pos
  <2>4. tree' \in Trees /\ ListsSound(tree') /\ tree'.parent = [tree.parent EXCEPT ![b] = NULL]
    BY <2>1, <2>2, SoundDetach
  <2>4a. TreeConsistent'
    <3>1. ASSUME Linked(tree) PROVE Linked(tree')
      BY <2>1, <2>2, <3>1, DetachProperties
    <3> QED BY <2>2, <2>4, <3>1 DEF SoundInv, TreeConsistent
  <2>5. todo' \in Seq(Writes)
    BY <2>1, <2>2, <2>3, <2>4, DeletedWrites
  <2>6. /\ bid' \in [Findex -> Ids] /\ index' \in [Ids -> Findex \cup {NULL}]
    BY <2>1, <2>2 DEF TypeOK, Ids
  <2>7. \A f \in Findex : f >= branch_n' => tree'.parent[f] = NULL /\ bid'[f] = 0
    BY <2>1, <2>2, <2>4 DEF SoundInv, BlankInv, TypeOK, Trees
  <2> QED BY <2>2, <2>4, <2>4a, <2>5, <2>6, <2>7, IdleType DEF TypeOK, SoundInv, BlankInv, files
<1>8. CASE PathDescend
  <2>1. /\ pc.op = "path" /\ pc.at \in Findex /\ pc.names \in Seq(Texts) /\ pc.names # <<>>
    BY <1>0, <1>8, PcFields DEF PathDescend
  <2>2. PICK i \in 1 .. Len(tree.child_list[pc.at]) :
          pc' = Deeper(tree.child_list[pc.at][i])
    BY <1>8 DEF PathDescend
  <2>3. tree.child_list[pc.at][i] \in Findex
    BY <2>1, ElementOfSeq DEF TypeOK, Trees
  <2>4. Tail(pc.names) \in Seq(Texts)
    BY <2>1, HeadTailProperties
  <2>5. pc' = [op |-> "path", at |-> tree.child_list[pc.at][i], names |-> Tail(pc.names), last |-> pc.last]
    BY <2>2 DEF Deeper
  <2>6. pc' \in Pcs /\ pc'.op = "path"
    BY <1>0, <2>1, <2>3, <2>4, <2>5, PcFields DEF Pcs
  <2> QED BY <1>8, <2>6 DEF PathDescend, Ready, TypeOK, SoundInv, TreeConsistent, BlankInv, memory, files
<1>9. CASE PathCreate
  <2>1. /\ pc.op = "path" /\ pc.at \in Findex /\ pc.names \in Seq(Texts) /\ pc.names # <<>>
        /\ up = "run"
    BY <1>0, <1>9, PcFields DEF PathCreate, Ready
  <2>2. Head(pc.names) \in Texts /\ Tail(pc.names) \in Seq(Texts)
    BY <2>1, HeadTailProperties
  <2>3. CASE /\ insert(pc.at, GenBase + branch_n, Far, Head(pc.names))
             /\ pc' = Deeper(branch_n)
    <3>1. branch_n \in Findex
      <4>1. branch_n < MaxBranch /\ branch_n \in 0 .. MaxBranch
        BY <2>3 DEF insert, TypeOK
      <4> QED BY <4>1, MaxBranchNat DEF Findex
    <3>2. GenBase + branch_n \in Ids
      BY <3>1 DEF Ids
    <3>3. pc' = [op |-> "path", at |-> branch_n, names |-> Tail(pc.names), last |-> pc.last]
      BY <2>3 DEF Deeper
    <3>4. pc' \in Pcs /\ pc'.op = "path"
      BY <1>0, <2>1, <2>2, <3>1, <3>3, PcFields DEF Pcs
    <3>5. UNCHANGED <<up, root, files, intact>>
      BY <2>3 DEF insert
    <3> QED BY <1>0, <2>1, <2>2, <2>3, <3>2, <3>4, <3>5, InsertSound DEF TypeOK, SoundInv, BlankInv, files
  <2>4. CASE pc' = Idle /\ UNCHANGED <<up, memory, todo, files, intact>>
    BY <2>1, <2>4, IdleType DEF TypeOK, SoundInv, TreeConsistent, BlankInv, memory, files
  <2> QED BY <1>9, <2>3, <2>4 DEF PathCreate
<1>10. CASE PathInsert
  <2>1. /\ pc.op = "path" /\ pc.at \in Findex /\ pc.last.id \in Ids /\ pc.last.text \in Texts
        /\ up = "run" /\ pc' = Idle
    BY <1>0, <1>10, PcFields, FinalFields DEF PathInsert, Ready
  <2>2. CASE insert(pc.at, pc.last.id, Far, pc.last.text)
    <3>1. UNCHANGED <<up, root, files, intact>>
      BY <2>2 DEF insert
    <3> QED BY <1>0, <2>1, <2>2, <3>1, InsertSound, IdleType DEF TypeOK, SoundInv, BlankInv, files
  <2>3. CASE UNCHANGED <<up, memory, todo, files, intact>>
    BY <2>1, <2>3, IdleType DEF TypeOK, SoundInv, TreeConsistent, BlankInv, memory, files
  <2> QED BY <1>10, <2>2, <2>3 DEF PathInsert
<1>11. CASE PathMove
  <2> DEFINE b == index[pc.last.id]
  <2>1. /\ pc.op = "path" /\ pc.at \in Findex /\ pc.last.id \in Ids
        /\ up = "run" /\ pc' = Idle
    BY <1>0, <1>11, PcFields, FinalFields DEF PathMove, Ready
  <2>2. CASE b # NULL /\ move(b, pc.at, Far)
    <3>1. b \in Findex
      BY <2>1, <2>2 DEF TypeOK
    <3>2. UNCHANGED <<up, branch_n, root, bid, text, index, files, intact>>
      BY <2>2 DEF move
    <3> HIDE DEF b
    <3> QED BY <1>0, <2>1, <2>2, <3>1, <3>2, MoveSound, IdleType DEF TypeOK, SoundInv, BlankInv, files
  <2>3. CASE UNCHANGED <<up, memory, todo, files, intact>>
    BY <2>1, <2>3, IdleType DEF TypeOK, SoundInv, TreeConsistent, BlankInv, memory, files
  <2> QED BY <1>11, <2>2, <2>3 DEF PathMove
<1>12. CASE Flush
  <2> DEFINE w == Head(todo)
             f == w.at
  <2>1. todo \in Seq(Writes) /\ todo # <<>> /\ up = "run"
    BY <1>12 DEF Flush, TypeOK
  <2>2. w \in Writes /\ Tail(todo) \in Seq(Writes)
    BY <2>1, HeadTailProperties
  <2>3. f \in Findex
    BY <2>2 DEF Writes
  <2>4. /\ todo' = Tail(todo) /\ UNCHANGED <<up, memory, pc, intact>>
        /\ \/ /\ bhead' = [bhead EXCEPT ![f] = Record(tree, bid, f)]
              /\ filesize' = IF f < filesize THEN filesize ELSE f + 1
              /\ UNCHANGED row
           \/ /\ row' = [row EXCEPT ![bid[f]] = text[f]]
              /\ UNCHANGED <<bhead, filesize>>
    BY <1>12 DEF Flush
  <2> HIDE DEF w, f
  <2>5. Record(tree, bid, f) \in Records
    BY <2>3, RecordType DEF TypeOK, SoundInv, TreeConsistent
  <2>6. bhead' \in [Findex -> Records] /\ row' \in [Ids -> Texts \cup {NoData}]
    BY <2>3, <2>4, <2>5 DEF TypeOK
  <2>7. filesize' \in 0 .. MaxBranch
    <3>1. f + 1 \in 0 .. MaxBranch
      BY <2>3, MaxBranchNat DEF Findex
    <3>2. filesize' \in {filesize, f + 1}
      BY <2>4
    <3> QED BY <3>1, <3>2 DEF TypeOK
  <2> QED BY <2>1, <2>2, <2>4, <2>6, <2>7 DEF TypeOK, SoundInv, TreeConsistent, BlankInv, memory
<1>13. CASE Crash \/ Segfault \/ MoveUnlisted \/ DeleteUnlisted \/ PathMoveUnlisted
  <2>1. EmptyTree \in Trees /\ Linked(EmptyTree) /\ \A f \in Findex : EmptyTree.parent[f] = NULL
    BY NullNotFindex DEF EmptyTree, Trees, Linked
  <2>2. 0 \in Ids /\ 0 \in 0 .. MaxBranch
    BY MaxBranchNat DEF Ids
  <2>3. /\ tree' = EmptyTree /\ branch_n' = 0 /\ root' = NULL /\ up' \in {"down", "damaged"} /\ pc' = Idle
        /\ todo' = <<>> /\ bid' = [f \in Findex |-> 0] /\ text' = [f \in Findex |-> NoData]
        /\ index' = [id \in Ids |-> NULL] /\ UNCHANGED files
    BY <1>13 DEF Segfault, Crash, NoMemory, MoveUnlisted, DeleteUnlisted, PathMoveUnlisted, Overflow
  <2>4. todo' \in Seq(Writes)
    BY <2>3, EmptySeq
  <2>5. intact' = intact \/ intact' = FALSE
    BY <1>13 DEF Segfault, Crash, MoveUnlisted, DeleteUnlisted, PathMoveUnlisted, Overflow
  <2>6. intact' \in BOOLEAN
    BY <2>5, Zenon DEF TypeOK
  <2>7. TreeConsistent'
    BY <2>1, <2>3, LinkedSound DEF TreeConsistent
  <2> QED BY <2>1, <2>2, <2>3, <2>4, <2>6, <2>7, IdleType DEF TypeOK, SoundInv, BlankInv, files
<1>14. CASE Restart \/ LoadExit \/ LoadDamaged
  <2>1. /\ up # "run" /\ up' \in {"down", "exited", "damaged"} /\ UNCHANGED <<memory, todo, pc, files>>
    BY <1>14 DEF Restart, LoadExit, LoadDamaged
  <2>2. intact' = intact \/ intact' = FALSE
    BY <1>14 DEF Restart, LoadExit, LoadDamaged
  <2>3. intact' \in BOOLEAN
    BY <2>2, Zenon DEF TypeOK
  <2>4. TreeConsistent'
    BY <2>1, <2>2 DEF SoundInv, TreeConsistent, memory
  <2> QED BY <2>1, <2>3, <2>4 DEF TypeOK, SoundInv, BlankInv, memory, files
<1>15. CASE Load
  <2>1. /\ Orphans = {} /\ SlotsFit /\ Roots # {} /\ up = "down" /\ up' = "run"
        /\ branch_n' = filesize /\ root' = LoadedRoot /\ tree' = LoadedTree
        /\ bid' = [f \in Findex |-> IF f \in Used THEN bhead[f].id ELSE 0]
        /\ text' = [f \in Findex |-> IF f \in Used THEN row[bhead[f].id] ELSE NoData]
        /\ index' = [id \in Ids |-> LoadedIndex(id)]
        /\ UNCHANGED <<todo, pc, files>>
    BY <1>15 DEF Load, LoadedCount
  <2>1a. intact' \in BOOLEAN /\ (intact' => Unlisted = {})
    BY <1>15, Zenon DEF Load
  <2>2. /\ Used \subseteq Findex
        /\ \A id \in Ids : LoadedIndex(id) \in Used \cup {NULL}
        /\ \A f \in Findex : LoadedParent(f) # NULL => f \in Used
    BY <2>1, LoadedProperties
  <2>3. tree' \in Trees /\ tree'.parent = [f \in Findex |-> LoadedParent(f)]
    BY <2>1, LoadedTreeProperties
  <2>3a. TreeConsistent'
    <3>1. ListsSound(tree') /\ (Unlisted = {} => Linked(tree'))
      BY <2>1, LoadedTreeProperties
    <3> QED BY <2>1a, <3>1 DEF TreeConsistent
  <2>4. root' \in Findex
    <3>1. MaxBranch \in Nat /\ Roots \in SUBSET (0 .. MaxBranch)
      <4>1. \A f \in 0 .. MaxBranch - 1 : f \in 0 .. MaxBranch
        BY MaxBranchNat
      <4>2. Roots \subseteq 0 .. MaxBranch - 1
        BY <2>2 DEF Roots, Findex
      <4> QED BY <4>1, <4>2, MaxBranchNat
    <3>2. \E m \in Roots : \A n \in Roots : n <= m
      BY <2>1, <3>1, MaxExists
    <3>3. LoadedRoot \in Roots
      BY <3>2 DEF LoadedRoot
    <3> QED BY <2>1, <2>2, <3>3 DEF Roots
  <2>5. \A f \in Findex : bhead[f].id \in Ids
    BY DEF TypeOK, Records
  <2>6. bid' \in [Findex -> Ids] /\ text' \in [Findex -> Texts \cup {NoData}]
    <3>1. 0 \in Ids
      BY DEF Ids
    <3> QED BY <2>1, <2>5, <3>1 DEF TypeOK
  <2>7. index' \in [Ids -> Findex \cup {NULL}]
    BY <2>1, <2>2
  <2>8. \A f \in Findex : f >= branch_n' => f \notin Used
    BY <2>1 DEF Used, Findex, TypeOK
  <2>9. \A f \in Findex : f >= branch_n' => tree'.parent[f] = NULL /\ bid'[f] = 0
    BY <2>1, <2>2, <2>3, <2>8
  <2>10. pc = Idle
    BY <2>1 DEF SoundInv, BlankInv
  <2> QED BY <2>1, <2>1a, <2>3, <2>3a, <2>4, <2>6, <2>7, <2>9, <2>10, IdleType DEF TypeOK, SoundInv, BlankInv, files
<1>16. CASE UNCHANGED vars
  BY <1>16 DEF vars, memory, files, TypeOK, SoundInv, TreeConsistent, BlankInv
<1> QED
  BY <1>1, <1>2, <1>3, <1>4, <1>5, <1>6, <1>7, <1>8, <1>9, <1>10, <1>11, <1>12, <1>13,
     <1>14, <1>15, <1>16 DEF Next, Continue

LEMMA SoundInvariant == Spec => [](TypeOK /\ SoundInv)
<1>1. Init => TypeOK /\ SoundInv
  BY SoundInit
<1>2. (TypeOK /\ SoundInv) /\ [Next]_vars => (TypeOK /\ SoundInv)'
  BY SoundNext
<1> QED BY <1>1, <1>2, PTL DEF Spec

\* Every variable keeps its type, records and writes included, through every
\* operation, crash and reload.
THEOREM TypeCorrect == Spec => []TypeOK
BY SoundInvariant, PTL

\* Whatever io_load_map has met, a child list holds only children of its branch, each
\* once.  It holds all of them, so that branch_detach and branch_get_pos find what they
\* look for, unless a load has found two records that claim one slot.
THEOREM LinksCorrect == Spec => []TreeConsistent
<1>1. SoundInv => TreeConsistent
  BY DEF SoundInv
<1> QED BY <1>1, SoundInvariant, PTL

\* A map that has been loaded with a branch left out of its list stays such a map.
LEMMA IntactKept == [Next]_vars /\ intact' => intact
<1> SUFFICES ASSUME [Next]_vars, intact' PROVE intact
  BY Zenon
<1>1. CASE Next
  BY <1>1, ZenonT(60) DEF Next, Continue, Insert, Move, MoveUnlisted, Update, DeleteStart, PathStart,
     DeleteChild, DeleteEnd, PathDescend, PathCreate, PathInsert, PathMove, Segfault,
     DeleteUnlisted, PathMoveUnlisted, Overflow, Flush, Crash, Restart, Load, LoadExit,
     LoadDamaged, insert, move
<1>2. CASE UNCHANGED vars
  BY <1>2 DEF vars
<1> QED BY <1>1, <1>2

-----------------------------------------------------------------------------
(***************************************************************************)
(* While clients behave, no crash can leave head records that the loader    *)
(* refuses.  The argument: every operation puts the one record whose id or  *)
(* parent it changes first into the queue of writes, so that all the other  *)
(* records agree with memory at every moment; memory is a tree of unique    *)
(* ids, hence so is the file, before and after that first write.            *)
(***************************************************************************)

\* The edge of a record.
LEMMA RecordEdge ==
  ASSUME NEW t, NEW ids, NEW f
  PROVE  /\ Record(t, ids, f).id = ids[f]
         /\ Record(t, ids, f).parent_id = IF t.parent[f] = NULL THEN 0 ELSE ids[t.parent[f]]
BY DEF Record

\* Between operations every record agrees with memory.
LEMMA ReadyCurrent ==
  ASSUME EdgesAgree, Ready, NEW f \in Findex
  PROVE  /\ bhead[f].id = bid[f]
         /\ bhead[f].parent_id = IF tree.parent[f] = NULL THEN 0 ELSE bid[tree.parent[f]]
BY RecordEdge DEF EdgesAgree, Ready

-----------------------------------------------------------------------------
(* The primary record is written first. *)

LEMMA ConcatHead ==
  ASSUME NEW S, NEW s \in Seq(S), NEW u \in Seq(S), Len(s) >= 1
  PROVE  s \o u # <<>> /\ (s \o u)[1] = s[1]
<1>1. Len(s) \in Nat /\ Len(u) \in Nat
  BY LenProperties
<1>2. 1 \in 1 .. Len(s)
  BY <1>1
<1>3. (s \o u)[1] = s[1] /\ Len(s \o u) = Len(s) + Len(u)
  BY <1>2, ConcatProperties
<1>4. Len(s \o u) # 0
  BY <1>1, <1>3
<1>5. Len(<<>>) = 0
  OBVIOUS
<1> QED BY <1>3, <1>4, <1>5

LEMMA NewHead ==
  ASSUME NEW t \in Trees, Linked(t), NEW f \in Findex, t.parent[f] \in Findex
  PROVE  io_branch_new(t, f) # <<>> /\ io_branch_new(t, f)[1] = HeadWrite(f)
<1> DEFINE r == io_childs_reordered(t, t.parent[f], branch_get_pos(t, f))
           a == <<HeadWrite(t.parent[f])>>
           h == <<HeadWrite(f)>>
           d == <<DataWrite(f)>>
<1>1. r \in Seq(Writes)
  BY PosType, ReorderedProperties
<1>2. a \in Seq(Writes) /\ h \in Seq(Writes) /\ d \in Seq(Writes) /\ Len(h) = 1 /\ h[1] = HeadWrite(f)
  BY WritesType
<1>3. io_branch_new(t, f) = (h \o (a \o r)) \o d
  BY NullNotFindex DEF io_branch_new
<1> HIDE DEF r, a, h, d
<1>4. a \o r \in Seq(Writes)
  BY <1>1, <1>2, ConcatProperties
<1>5. h \o (a \o r) # <<>> /\ (h \o (a \o r))[1] = HeadWrite(f)
  <2>1. h \in Seq(Writes) /\ Len(h) >= 1 /\ h[1] = HeadWrite(f)
    BY <1>2
  <2> QED BY <1>4, <2>1, ConcatHead, Zenon
<1>6. h \o (a \o r) \in Seq(Writes) /\ Len(h \o (a \o r)) >= 1
  <2>1. h \o (a \o r) \in Seq(Writes) /\ Len(h \o (a \o r)) = Len(h) + Len(a \o r)
    BY <1>2, <1>4, ConcatProperties
  <2>2. Len(a \o r) \in Nat
    BY <1>4, LenProperties
  <2> QED BY <1>2, <2>1, <2>2
<1> QED BY <1>2, <1>3, <1>5, <1>6, ConcatHead

LEMMA MovedHead ==
  ASSUME NEW t \in Trees, Linked(t), NEW f \in Findex, t.parent[f] \in Findex,
         NEW p \in Findex, NEW pos \in Nat
  PROVE  io_branch_moved(t, f, p, pos) # <<>> /\ io_branch_moved(t, f, p, pos)[1] = HeadWrite(f)
<1> DEFINE h == <<HeadWrite(f), HeadWrite(t.parent[f]), HeadWrite(p)>>
           r == io_childs_reordered(t, t.parent[f], branch_get_pos(t, f) + 1)
           q == io_childs_reordered(t, p, pos)
<1>1. branch_get_pos(t, f) + 1 \in Nat
  BY PosType
<1>2. r \in Seq(Writes) /\ q \in Seq(Writes)
  BY <1>1, ReorderedProperties
<1>3. h \in Seq(Writes) /\ Len(h) = 3 /\ h[1] = HeadWrite(f)
  BY WritesType
<1>4. io_branch_moved(t, f, p, pos) = (h \o r) \o q
  BY DEF io_branch_moved
<1> HIDE DEF h, r, q
<1>5. h \o r \in Seq(Writes) /\ Len(h \o r) >= 1
  <2>1. h \o r \in Seq(Writes) /\ Len(h \o r) = Len(h) + Len(r)
    BY <1>2, <1>3, ConcatProperties
  <2>2. Len(r) \in Nat
    BY <1>2, LenProperties
  <2> QED BY <1>3, <2>1, <2>2
<1>6. (h \o r)[1] = HeadWrite(f)
  BY <1>2, <1>3, ConcatHead
<1> QED BY <1>2, <1>4, <1>5, <1>6, ConcatHead

LEMMA DeletedHead ==
  ASSUME NEW t \in Trees, NEW f \in Findex, NEW p \in Findex, NEW pos \in Nat
  PROVE  io_branch_deleted(t, f, p, pos) # <<>> /\ io_branch_deleted(t, f, p, pos)[1] = HeadWrite(f)
<1> DEFINE h == <<HeadWrite(f), HeadWrite(p)>>
           q == io_childs_reordered(t, p, pos)
<1>1. q \in Seq(Writes)
  BY ReorderedProperties
<1>2. h \in Seq(Writes) /\ Len(h) = 2 /\ h[1] = HeadWrite(f)
  BY WritesType
<1>3. io_branch_deleted(t, f, p, pos) = h \o q
  BY DEF io_branch_deleted
<1> HIDE DEF h, q
<1>4. Len(h) >= 1
  BY <1>2
<1> QED BY <1>1, <1>2, <1>3, <1>4, ConcatHead, Zenon

-----------------------------------------------------------------------------
(* insert and move keep the tree live and touch one edge. *)

\* What does not depend on which operation calls insert or move.
TreeLive == \A f \in Findex : tree.parent[f] # NULL => bid[f] # 0 /\ bid[tree.parent[f]] # 0

LEMMA InsertEdges ==
  ASSUME TypeOK, MemoryInv, StoreInv, Ready,
         NEW p \in Findex, bid[p] # 0, NEW id \in Ids, id # 0, NEW pos \in Int,
         NEW txt \in Texts, insert(p, id, pos, txt)
  PROVE  /\ IndexExact' /\ TreeLive' /\ EdgesAgree'
         /\ bid'[branch_n] = id
         /\ bid'[root] # 0 /\ tree'.parent[root] = NULL
<1>1. /\ branch_n \in Findex
      /\ tree' \in Trees /\ Linked(tree')
      /\ tree'.parent = [tree.parent EXCEPT ![branch_n] = p]
      /\ bid' = [bid EXCEPT ![branch_n] = id]
  BY InsertStep
<1>2. bid[branch_n] = 0 /\ tree.parent[branch_n] = NULL
  <2>1. branch_n >= branch_n
    BY <1>1 DEF Findex
  <2> QED BY <1>1, <2>1 DEF MemoryInv, BlankInv
<1>3. /\ index[id] = NULL /\ index' = [index EXCEPT ![id] = branch_n]
      /\ todo' = io_branch_new(tree', branch_n) /\ UNCHANGED <<up, root, files>>
  BY DEF insert
<1>4. /\ bid \in [Findex -> Ids] /\ index \in [Ids -> Findex \cup {NULL}]
      /\ tree.parent \in [Findex -> Findex \cup {NULL}] /\ NULL \notin Findex
  BY NullNotFindex DEF TypeOK, Trees
<1>5. IndexExact'
  <2>1. ASSUME NEW i \in Ids, NEW f \in Findex
        PROVE  index'[i] = f <=> i # 0 /\ bid'[f] = i
    <3>1. index[i] = f <=> i # 0 /\ bid[f] = i
      BY DEF StoreInv, IndexExact
    <3>2. bid[f] # id
      BY <1>3, <1>4 DEF StoreInv, IndexExact
    <3> QED BY <1>1, <1>2, <1>3, <1>4, <3>1, <3>2
  <2> QED BY <2>1 DEF IndexExact
<1>6. /\ \A g \in Findex \ {branch_n} : bid'[g] = bid[g] /\ tree'.parent[g] = tree.parent[g]
      /\ bid'[branch_n] = id /\ tree'.parent[branch_n] = p
  BY <1>1, <1>4
<1>7. \A g \in Findex : tree.parent[g] # NULL => bid[g] # 0 /\ bid[tree.parent[g]] # 0
                                                 /\ tree.parent[g] \in Findex
  BY <1>4 DEF StoreInv, LiveInv
<1>8. TreeLive'
  BY <1>2, <1>6, <1>7 DEF TreeLive
<1>9. todo' # <<>> /\ todo'[1] = HeadWrite(branch_n)
  BY <1>1, <1>3, <1>6, NewHead
<1>10. EdgesAgree'
  <2> SUFFICES ASSUME NEW g \in Findex, g # branch_n
               PROVE  /\ bhead'[g].id = bid'[g]
                      /\ bhead'[g].parent_id = Record(tree', bid', g).parent_id
    BY <1>9 DEF EdgesAgree
  <2>1. /\ bhead[g].id = bid[g]
        /\ bhead[g].parent_id = IF tree.parent[g] = NULL THEN 0 ELSE bid[tree.parent[g]]
    BY ReadyCurrent DEF StoreInv
  <2>2. tree.parent[g] # NULL => bid'[tree.parent[g]] = bid[tree.parent[g]]
    BY <1>2, <1>6, <1>7
  <2>3. Record(tree', bid', g).parent_id
          = IF tree'.parent[g] = NULL THEN 0 ELSE bid'[tree'.parent[g]]
    BY RecordEdge
  <2> QED BY <1>3, <1>6, <2>1, <2>2, <2>3 DEF files
<1>11. root \in Findex /\ bid[root] # 0 /\ tree.parent[root] = NULL
  BY DEF StoreInv, LiveInv, MemoryInv, BlankInv, Ready
<1>12. bid'[root] # 0 /\ tree'.parent[root] = NULL
  BY <1>2, <1>6, <1>11
<1> QED BY <1>5, <1>6, <1>8, <1>10, <1>12

LEMMA MoveEdges ==
  ASSUME TypeOK, MemoryInv, StoreInv, Ready,
         NEW b \in Findex, NEW npb \in Findex, bid[npb] # 0, NEW pos \in Int,
         move(b, npb, pos)
  PROVE  /\ IndexExact' /\ TreeLive' /\ EdgesAgree'
         /\ tree'.parent[root] = NULL
<1>1. /\ tree.parent[b] \in Findex
      /\ tree' \in Trees /\ Linked(tree')
      /\ tree'.parent = [tree.parent EXCEPT ![b] = npb]
  BY MoveStep
<1>2. /\ todo' = io_branch_moved(tree', b, tree.parent[b], branch_get_pos(tree, b))
      /\ UNCHANGED <<up, branch_n, root, bid, text, index, files>>
  BY DEF move
<1>3. /\ bid \in [Findex -> Ids] /\ tree \in Trees /\ Linked(tree)
      /\ tree.parent \in [Findex -> Findex \cup {NULL}] /\ NULL \notin Findex
  BY NullNotFindex DEF TypeOK, Trees, MemoryInv, BlankInv
<1>4. IndexExact'
  BY <1>2 DEF StoreInv, IndexExact
<1>5. /\ \A g \in Findex \ {b} : tree'.parent[g] = tree.parent[g]
      /\ tree'.parent[b] = npb
  BY <1>1, <1>3
<1>6. \A g \in Findex : tree.parent[g] # NULL => bid[g] # 0 /\ bid[tree.parent[g]] # 0
  BY DEF StoreInv, LiveInv
<1>7. bid[b] # 0
  BY <1>1, <1>3, <1>6
<1>8. TreeLive'
  BY <1>2, <1>5, <1>6, <1>7 DEF TreeLive
<1>9. todo' # <<>> /\ todo'[1] = HeadWrite(b)
  <2>1. branch_get_pos(tree, b) \in Nat
    BY <1>1, <1>3, PosType
  <2>2. tree' \in Trees /\ Linked(tree') /\ tree'.parent[b] \in Findex
    BY <1>1, <1>5
  <2>3. /\ io_branch_moved(tree', b, tree.parent[b], branch_get_pos(tree, b)) # <<>>
        /\ io_branch_moved(tree', b, tree.parent[b], branch_get_pos(tree, b))[1] = HeadWrite(b)
    BY <1>1, <2>1, <2>2, MovedHead, ZenonT(60)
  <2> QED BY <1>2, <2>3
<1>10. EdgesAgree'
  <2> SUFFICES ASSUME NEW g \in Findex, g # b
               PROVE  /\ bhead'[g].id = bid'[g]
                      /\ bhead'[g].parent_id = Record(tree', bid', g).parent_id
    BY <1>9 DEF EdgesAgree
  <2>1. /\ bhead[g].id = bid[g]
        /\ bhead[g].parent_id = IF tree.parent[g] = NULL THEN 0 ELSE bid[tree.parent[g]]
    BY ReadyCurrent DEF StoreInv
  <2>2. Record(tree', bid', g).parent_id
          = IF tree'.parent[g] = NULL THEN 0 ELSE bid'[tree'.parent[g]]
    BY RecordEdge
  <2> QED BY <1>2, <1>5, <2>1, <2>2 DEF files
<1>11. root \in Findex /\ tree.parent[root] = NULL
  BY DEF StoreInv, LiveInv, MemoryInv, BlankInv, Ready
<1>12. tree'.parent[root] = NULL
  BY <1>1, <1>3, <1>5, <1>11
<1> QED BY <1>4, <1>8, <1>10, <1>12

\* A step that leaves the files alone leaves them well formed.
LEMMA FilesKept ==
  ASSUME StoreInv, UNCHANGED files
  PROVE  FileInv'
BY DEF StoreInv, FileInv, files

\* What the index finds exists.
LEMMA IndexLive ==
  ASSUME StoreInv, TypeOK, NEW id \in Ids, index[id] # NULL
  PROVE  index[id] \in Findex /\ bid[index[id]] = id /\ id # 0
BY DEF StoreInv, IndexExact, TypeOK

-----------------------------------------------------------------------------
(* StoreInv is inductive. *)

LEMMA StoreInit == Init => StoreInv
<1> SUFFICES ASSUME Init PROVE StoreInv
  OBVIOUS
<1>1. 0 \in Findex /\ RootId \in Ids /\ RootId # 0 /\ NULL \notin Findex
  BY MaxBranchNat, NullNotFindex DEF Findex, Ids, RootId
<1>2. /\ tree.parent = [f \in Findex |-> NULL] /\ root = 0 /\ pc = Idle
      /\ bid = [f \in Findex |-> IF f = 0 THEN RootId ELSE 0]
      /\ index = [id \in Ids |-> IF id = RootId THEN 0 ELSE NULL]
      /\ bhead = [f \in Findex |-> ZeroRecord] /\ up = "run"
      /\ todo = <<HeadWrite(0), DataWrite(0)>>
  BY DEF Init, EmptyTree
<1>3. IndexExact
  BY <1>1, <1>2 DEF IndexExact
<1>4. LiveInv
  BY <1>1, <1>2, IdleType DEF LiveInv
<1>5. EdgesAgree
  <2> SUFFICES ASSUME NEW f \in Findex, f # 0
               PROVE  bhead[f].id = bid[f] /\ bhead[f].parent_id = Record(tree, bid, f).parent_id
    <3>1. todo # <<>> /\ todo[1] = HeadWrite(0)
      BY <1>2
    <3> QED BY <3>1 DEF EdgesAgree
  <2> QED BY <1>2, RecordEdge DEF ZeroRecord
<1>6. FileInv
  BY <1>2 DEF FileInv, ZeroRecord
<1> QED BY <1>2, <1>3, <1>4, <1>5, <1>6 DEF StoreInv, NotRefused

\* The server runs and every record agrees with memory about its id and its parent.
AllCurrent ==
  /\ up = "run"
  /\ \A f \in Findex :
       /\ bhead[f].id = bid[f]
       /\ bhead[f].parent_id = IF tree.parent[f] = NULL THEN 0 ELSE bid[tree.parent[f]]

\* The first write of an operation makes every record current, a row changes none.
LEMMA FlushEdges ==
  ASSUME TypeOK, MemoryInv, StoreInv, Flush
  PROVE  EdgesAgree' /\ FileInv' /\ AllCurrent'
<1> DEFINE w == Head(todo)
           f == w.at
<1>1. todo \in Seq(Writes) /\ todo # <<>> /\ up = "run"
  BY DEF Flush, TypeOK
<1>2. w \in Writes /\ w = todo[1]
  BY <1>1, HeadTailProperties
<1>3. f \in Findex /\ w = [kind |-> w.kind, at |-> f]
  BY <1>2 DEF Writes
<1>4. UNCHANGED <<up, memory, pc>>
  BY DEF Flush
<1>5. \/ /\ w.kind = "head"
         /\ bhead' = [bhead EXCEPT ![f] = Record(tree, bid, f)]
         /\ filesize' = IF f < filesize THEN filesize ELSE f + 1
      \/ /\ w.kind = "data"
         /\ UNCHANGED <<bhead, filesize>>
  BY DEF Flush
<1>6. /\ bid \in [Findex -> Ids] /\ NULL \notin Findex
      /\ tree.parent \in [Findex -> Findex \cup {NULL}]
      /\ bhead \in [Findex -> Records]
  BY NullNotFindex DEF TypeOK, Trees
<1> HIDE DEF w, f
<1>7. ASSUME NEW g \in Findex
      PROVE  /\ bhead'[g].id = bid[g]
             /\ bhead'[g].parent_id = IF tree.parent[g] = NULL THEN 0 ELSE bid[tree.parent[g]]
  <2>1. w = HeadWrite(g) => w.kind = "head" /\ f = g
    BY <1>3 DEF HeadWrite
  <2>2. \/ w = HeadWrite(g)
        \/ /\ bhead[g].id = bid[g]
           /\ bhead[g].parent_id = IF tree.parent[g] = NULL THEN 0 ELSE bid[tree.parent[g]]
    BY <1>1, <1>2, RecordEdge DEF StoreInv, EdgesAgree
  <2>3. CASE w.kind = "head"
    <3>1. bhead' = [bhead EXCEPT ![f] = Record(tree, bid, f)]
      BY <1>5, <2>3
    <3>2. CASE g = f
      BY <1>3, <1>6, <3>1, <3>2, RecordEdge
    <3>3. CASE g # f
      BY <1>6, <2>1, <2>2, <3>1, <3>3
    <3> QED BY <3>2, <3>3
  <2>4. CASE w.kind # "head"
    BY <1>5, <2>1, <2>2, <2>4
  <2> QED BY <2>3, <2>4
<1>8. EdgesAgree'
  <2> SUFFICES ASSUME NEW g \in Findex
               PROVE  /\ bhead'[g].id = bid'[g]
                      /\ bhead'[g].parent_id = Record(tree', bid', g).parent_id
    BY DEF EdgesAgree
  <2>1. tree' = tree /\ bid' = bid
    BY <1>4 DEF memory
  <2>2. Record(tree', bid', g).parent_id
          = IF tree'.parent[g] = NULL THEN 0 ELSE bid'[tree'.parent[g]]
    BY RecordEdge
  <2> QED BY <1>7, <2>1, <2>2
<1>9. FileInv'
  <2>1. \A g \in Findex : tree.parent[g] # NULL => bid[g] # 0 /\ tree.parent[g] \in Findex
    BY <1>6 DEF StoreInv, LiveInv
  <2>2. ASSUME NEW g \in Findex, g >= filesize'
        PROVE  bhead'[g].id = 0
    <3>1. filesize \in Nat /\ f \in Nat /\ g \in Nat
      <4>1. filesize \in 0 .. MaxBranch
        BY DEF TypeOK
      <4>2. f \in 0 .. MaxBranch - 1 /\ g \in 0 .. MaxBranch - 1
        BY <1>3, <2>2 DEF Findex
      <4> QED BY <4>1, <4>2, MaxBranchNat
    <3>2. CASE w.kind = "head"
      <4>1. g # f /\ g >= filesize
        BY <1>5, <2>2, <3>1, <3>2
      <4>2. bhead'[g] = bhead[g]
        BY <1>5, <1>6, <3>2, <4>1
      <4> QED BY <4>1, <4>2 DEF StoreInv, FileInv
    <3>3. CASE w.kind # "head"
      BY <1>5, <2>2, <3>3 DEF StoreInv, FileInv
    <3> QED BY <3>2, <3>3
  <2>3. \A g \in Findex : bhead'[g].id = 0 => bhead'[g].parent_id = 0
    BY <1>7, <2>1
  <2>4. \A g, h \in Findex : bhead'[g].id # 0 /\ bhead'[g].id = bhead'[h].id => g = h
    <3>1. \A g, h \in Findex : bid[g] # 0 /\ bid[g] = bid[h] => g = h
      BY <1>6 DEF StoreInv, IndexExact
    <3> QED BY <1>7, <3>1
  <2>5. ASSUME NEW g \in Findex, bhead'[g].parent_id # 0
        PROVE  \E h \in Findex : bhead'[h].id = bhead'[g].parent_id
    <3>1. tree.parent[g] \in Findex /\ bhead'[g].parent_id = bid[tree.parent[g]]
      BY <1>6, <1>7, <2>5
    <3> QED BY <1>7, <3>1
  <2> QED BY <2>2, <2>3, <2>4, <2>5 DEF FileInv
<1>10. AllCurrent'
  <2>1. tree' = tree /\ bid' = bid /\ up' = "run"
    BY <1>1, <1>4 DEF memory
  <2> QED BY <1>7, <2>1 DEF AllCurrent
<1> QED BY <1>8, <1>9, <1>10

\* The loader rebuilds a memory that agrees with the records.
LEMMA LoadEdges ==
  ASSUME TypeOK, MemoryInv, StoreInv, Load
  PROVE  StoreInv'
<1>1. /\ Orphans = {} /\ SlotsFit /\ Roots # {} /\ up = "down" /\ up' = "run"
      /\ root' = LoadedRoot /\ tree' = LoadedTree
      /\ bid' = [f \in Findex |-> IF f \in Used THEN bhead[f].id ELSE 0]
      /\ index' = [id \in Ids |-> LoadedIndex(id)]
      /\ UNCHANGED <<todo, pc, files>>
  BY DEF Load
<1>2. /\ Used \subseteq Findex
      /\ \A id \in Ids : LoadedIndex(id) \in Used \cup {NULL}
      /\ \A id \in Ids : LoadedIndex(id) # NULL => bhead[LoadedIndex(id)].id = id
      /\ \A f \in Findex : LoadedParent(f) \in Used \cup {NULL}
      /\ \A f \in Findex : LoadedParent(f) # NULL => f \in Used
  BY <1>1, LoadedProperties
<1>3. tree'.parent = [f \in Findex |-> LoadedParent(f)]
  BY <1>1, LoadedTreeProperties
<1>4. NULL \notin Findex /\ \A f \in Findex : bhead[f].id \in Ids /\ bhead[f].parent_id \in Ids
  BY NullNotFindex DEF TypeOK, Records
<1>5. \A f \in Findex : f \in Used <=> bhead[f].id # 0
  <2>1. filesize \in Nat /\ \A f \in Findex : f \in Nat
    BY DEF TypeOK, Findex
  <2>2. \A f \in Findex : bhead[f].id # 0 => f < filesize
    BY <2>1 DEF StoreInv, FileInv
  <2>3. \A f \in Findex : f < filesize => f \in 0 .. filesize - 1
    BY <2>1
  <2> QED BY <2>2, <2>3 DEF Used
<1>6. \A f \in Findex : bid'[f] = bhead[f].id
  BY <1>1, <1>5
<1>7. ASSUME NEW id \in Ids, NEW f \in Findex
      PROVE  LoadedIndex(id) = f <=> id # 0 /\ bhead[f].id = id
  <2>1. ASSUME LoadedIndex(id) = f
        PROVE  id # 0 /\ bhead[f].id = id
    <3>1. f \in Used
      BY <2>1, <1>2, <1>4
    <3> QED BY <2>1, <3>1, <1>2, <1>4, <1>5
  <2>2. ASSUME id # 0, bhead[f].id = id
        PROVE  LoadedIndex(id) = f
    <3>1. f \in Found(id)
      BY <2>2, <1>5 DEF Found
    <3>2. LoadedIndex(id) = CHOOSE m \in Found(id) : \A g \in Found(id) : g <= m
      BY <3>1 DEF LoadedIndex
    <3>3. \A g \in Found(id) : g = f
      BY <1>2, <2>2 DEF Found, StoreInv, FileInv
    <3>4. f <= f
      BY DEF Findex
    <3> QED BY <3>1, <3>2, <3>3, <3>4
  <2> QED BY <2>1, <2>2
<1>8. IndexExact'
  BY <1>1, <1>6, <1>7 DEF IndexExact
<1>9. \A f \in Findex : bhead[f].parent_id # 0 => f \in Used /\ LoadedParent(f) # NULL
                          /\ LoadedParent(f) \in Findex /\ bhead[LoadedParent(f)].id = bhead[f].parent_id
  <2> SUFFICES ASSUME NEW f \in Findex, bhead[f].parent_id # 0
               PROVE  /\ f \in Used /\ LoadedParent(f) # NULL /\ LoadedParent(f) \in Findex
                      /\ bhead[LoadedParent(f)].id = bhead[f].parent_id
    OBVIOUS
  <2>1. f \in Used
    BY <1>5 DEF StoreInv, FileInv
  <2>2. PICK g \in Findex : bhead[g].id = bhead[f].parent_id
    BY DEF StoreInv, FileInv
  <2>3. LoadedIndex(bhead[f].parent_id) = g
    BY <1>4, <1>7, <2>2
  <2>4. LoadedParent(f) = g
    BY <2>1, <2>3 DEF LoadedParent
  <2> QED BY <1>4, <2>1, <2>2, <2>4
<1>10. EdgesAgree'
  <2> SUFFICES ASSUME NEW f \in Findex
               PROVE  /\ bhead'[f].id = bid'[f]
                      /\ bhead'[f].parent_id = Record(tree', bid', f).parent_id
    BY DEF EdgesAgree
  <2>1. Record(tree', bid', f).parent_id
          = IF LoadedParent(f) = NULL THEN 0 ELSE bid'[LoadedParent(f)]
    BY <1>3, RecordEdge
  <2>2. bhead[f].parent_id = 0 => LoadedParent(f) = NULL
    BY DEF LoadedParent
  <2> QED BY <1>1, <1>6, <1>9, <2>1, <2>2 DEF files
<1>11. LiveInv'
  <2>1. \A f \in Findex : tree'.parent[f] # NULL => bid'[f] # 0 /\ bid'[tree'.parent[f]] # 0
    BY <1>2, <1>3, <1>5, <1>6
  <2>2. LoadedRoot \in Roots
    <3>1. MaxBranch \in Nat /\ Roots \in SUBSET (0 .. MaxBranch)
      <4>1. \A f \in 0 .. MaxBranch - 1 : f \in 0 .. MaxBranch
        BY ONLY MaxBranchNat
      <4>2. Roots \subseteq 0 .. MaxBranch - 1
        BY <1>2 DEF Roots, Findex
      <4> QED BY <4>1, <4>2, MaxBranchNat
    <3>2. \E m \in Roots : \A n \in Roots : n <= m
      BY <1>1, <3>1, MaxExists
    <3> QED BY <3>2 DEF LoadedRoot
  <2>3. bid'[root'] # 0 /\ tree'.parent[root'] = NULL
    BY <1>1, <1>2, <1>3, <1>5, <1>6, <2>2 DEF Roots, LoadedParent
  <2>4. pc' = Idle
    BY <1>1 DEF MemoryInv, BlankInv
  <2> QED BY <2>1, <2>3, <2>4, IdleType DEF LiveInv
<1>12. FileInv'
  BY <1>1, FilesKept
<1> QED BY <1>1, <1>8, <1>10, <1>11, <1>12 DEF StoreInv, NotRefused

LEMMA StoreNext ==
  ASSUME ClientsBehave
  PROVE  TypeOK /\ MemoryInv /\ StoreInv /\ [Next]_vars /\ intact' => StoreInv'
<1> SUFFICES ASSUME TypeOK, MemoryInv, StoreInv, [Next]_vars, intact'
             PROVE  StoreInv'
  OBVIOUS
<1>0. /\ pc \in Pcs /\ NULL \notin Findex /\ Far \in Int
      /\ bid \in [Findex -> Ids] /\ tree \in Trees /\ Linked(tree)
      /\ tree.parent \in [Findex -> Findex \cup {NULL}]
      /\ ClientIds \subseteq Ids /\ 0 \notin ClientIds
  <2>1. Far \in Int
    BY MaxBranchNat DEF Far
  <2>2. ClientIds \subseteq Ids /\ 0 \notin ClientIds
    BY DEF Ids, ClientsBehave
  <2>3. /\ pc \in Pcs /\ bid \in [Findex -> Ids] /\ tree \in Trees /\ Linked(tree)
        /\ tree.parent \in [Findex -> Findex \cup {NULL}]
    BY DEF TypeOK, Trees, MemoryInv, BlankInv
  <2> QED BY <2>1, <2>2, <2>3, NullNotFindex
<1>1. CASE Insert
  <2>1. PICK pid \in Ids, id \in ClientIds, pos \in 0 .. Far, txt \in Texts :
          index[pid] # NULL /\ insert(index[pid], id, pos, txt)
    BY <1>1 DEF Insert
  <2>2. index[pid] \in Findex /\ bid[index[pid]] # 0 /\ id \in Ids /\ id # 0 /\ pos \in Int
    BY <1>0, <2>1, IndexLive
  <2>3. Ready /\ pc' = Idle /\ UNCHANGED <<up, root, files>> /\ up = "run"
    BY <1>1, <2>1 DEF Insert, insert, Ready
  <2>4. /\ IndexExact' /\ TreeLive' /\ EdgesAgree'
        /\ bid'[root] # 0 /\ tree'.parent[root] = NULL
    BY <2>1, <2>2, <2>3, InsertEdges
  <2>5. LiveInv'
    BY <2>3, <2>4, IdleType DEF LiveInv, TreeLive
  <2> QED BY <2>3, <2>4, <2>5, FilesKept DEF StoreInv, NotRefused
<1>2. CASE Move
  <2>1. PICK id \in Ids, npid \in Ids, pos \in 0 .. Far :
          /\ index[id] # NULL /\ index[npid] # NULL
          /\ move(index[id], index[npid], pos)
    BY <1>2 DEF Move
  <2>2. index[id] \in Findex /\ index[npid] \in Findex /\ bid[index[npid]] # 0 /\ pos \in Int
    BY <1>0, <2>1, IndexLive
  <2>3. Ready /\ pc' = Idle /\ UNCHANGED <<up, root, bid, files>> /\ up = "run"
    BY <1>2, <2>1 DEF Move, move, Ready
  <2>4. IndexExact' /\ TreeLive' /\ EdgesAgree' /\ tree'.parent[root] = NULL
    BY <2>1, <2>2, <2>3, MoveEdges
  <2>5. LiveInv'
    BY <2>3, <2>4, IdleType DEF LiveInv, TreeLive, StoreInv
  <2> QED BY <2>3, <2>4, <2>5, FilesKept DEF StoreInv, NotRefused
<1>3. CASE Update
  <2>1. Ready /\ UNCHANGED <<up, root, tree, bid, index, pc, files>> /\ up = "run"
    BY <1>3 DEF Update, Ready
  <2>2. EdgesAgree'
    BY <2>1 DEF StoreInv, EdgesAgree, Ready, files
  <2> QED BY <2>1, <2>2, FilesKept DEF StoreInv, NotRefused, IndexExact, LiveInv
<1>4. CASE DeleteStart
  <2>1. PICK id \in Ids :
          /\ index[id] # NULL
          /\ Len(tree.child_list[index[id]]) <= MaxDeleteChildren
          /\ pc' = [op |-> "delete", b |-> index[id], i |-> 0]
    BY <1>4 DEF DeleteStart
  <2>2. index[id] \in Findex /\ bid[index[id]] # 0
    BY <2>1, IndexLive
  <2>3. Ready /\ up = "run" /\ UNCHANGED <<up, memory, todo, files>>
    BY <1>4 DEF DeleteStart, Ready
  <2>4. Len(tree.child_list[index[id]]) \in {0, 1}
    <3>1. Len(tree.child_list[index[id]]) \in Nat
      BY <2>2, LenProperties DEF TypeOK, Trees
    <3>2. MaxDeleteChildren \in Nat /\ MaxDeleteChildren <= 1
      BY MaxDeleteChildrenAssumption DEF ClientsBehave
    <3>3. \A n \in Nat : n <= MaxDeleteChildren => n \in {0, 1}
      BY <3>2
    <3> QED BY <2>1, <3>1, <3>3
  <2>5. pc'.op = "delete" /\ pc'.b = index[id] /\ pc'.i = 0
    BY <2>1
  <2>6. UNCHANGED <<up, root, tree, bid, index, todo, files>>
    BY <2>3 DEF memory
  <2>7. LiveInv'
    <3>1. pc'.op # "path"
      BY <2>5
    <3> QED BY <2>2, <2>4, <2>5, <2>6, <3>1 DEF StoreInv, LiveInv
  <2>8. EdgesAgree'
    BY <2>6 DEF StoreInv, EdgesAgree, files
  <2> QED BY <2>6, <2>7, <2>8, FilesKept DEF StoreInv, NotRefused, IndexExact
<1>5. CASE PathStart
  <2>1. PICK pid \in Ids, n \in 0 .. MaxNames, last \in Finals :
          \E names \in [1 .. n -> Texts] :
            LET at == IF pid = 0 THEN root ELSE index[pid]
            IN  /\ at # NULL
                /\ pc' = [op |-> "path", at |-> at, names |-> names, last |-> last]
    BY <1>5 DEF PathStart
  <2>2. Ready /\ up = "run" /\ UNCHANGED <<up, memory, todo, files>>
    BY <1>5 DEF PathStart, Ready
  <2>3. pc'.op = "path" /\ bid[pc'.at] # 0
    <3>1. PICK at : /\ at = IF pid = 0 THEN root ELSE index[pid]
                    /\ at # NULL /\ pc'.op = "path" /\ pc'.at = at
      BY <2>1
    <3>2. bid[root] # 0
      BY <2>2 DEF StoreInv, LiveInv
    <3> QED BY <3>1, <3>2, IndexLive
  <2>4. UNCHANGED <<up, root, tree, bid, index, todo, files>>
    BY <2>2 DEF memory
  <2>5. LiveInv'
    <3>1. pc'.op # "delete"
      BY <2>3
    <3> QED BY <2>3, <2>4, <3>1 DEF StoreInv, LiveInv
  <2>6. EdgesAgree'
    BY <2>4 DEF StoreInv, EdgesAgree, files
  <2> QED BY <2>4, <2>5, <2>6, FilesKept DEF StoreInv, NotRefused, IndexExact
<1>6. CASE DeleteChild
  <2> DEFINE l == tree.child_list[pc.b]
             c == l[pc.i + 1]
  <2>1. /\ pc.op = "delete" /\ pc.b \in Findex /\ pc.i \in Nat
        /\ pc'.op = "delete" /\ pc'.b = pc.b
    BY <1>0, <1>6, PcFields DEF DeleteChild
  <2>2. Ready /\ up = "run" /\ root \in Findex /\ bid[root] # 0 /\ tree.parent[root] = NULL
    BY <1>6 DEF DeleteChild, Ready, MemoryInv, BlankInv, StoreInv, LiveInv
  <2>3. l \in Seq(Findex) /\ Len(l) \in Nat /\ pc.i < Len(l)
    BY <1>6, <2>1, LenProperties DEF DeleteChild, TypeOK, Trees
  <2>4. Len(l) = 1 /\ pc.i = 0
    <3>1. Len(l) = 0 \/ (Len(l) = 1 /\ pc.i = 0)
      BY <2>1 DEF StoreInv, LiveInv
    <3> QED BY <2>1, <2>3, <3>1
  <2>5. c \in Findex /\ tree.parent[c] = pc.b
    <3>1. pc.i + 1 \in 1 .. Len(l)
      BY <2>1, <2>3
    <3>2. c \in Findex
      BY <2>3, <3>1, ElementOfSeq, SMTT(40)
    <3> QED BY <1>0, <2>1, <3>1, <3>2 DEF Linked
  <2>6. move(c, root, Far) /\ UNCHANGED <<up, root, bid, files>>
    BY <1>6 DEF DeleteChild, move
  <2>7. pc.b # root
    BY <2>1, <2>2 DEF MemoryInv, BlankInv
  <2> HIDE DEF c
  <2>8. IndexExact' /\ TreeLive' /\ EdgesAgree' /\ tree'.parent[root] = NULL
    BY <1>0, <2>2, <2>5, <2>6, MoveEdges
  <2>9. Len(tree'.child_list[pc.b]) = 0
    <3>1. tree.parent[c] # root =>
            Len(tree'.child_list[tree.parent[c]]) = Len(tree.child_list[tree.parent[c]]) - 1
      BY <1>0, <2>2, <2>5, <2>6, MoveStep
    <3>2. Len(tree'.child_list[pc.b]) = Len(l) - 1
      BY <2>5, <2>7, <3>1
    <3> QED BY <2>4, <3>2
  <2>10. LiveInv'
    <3>1. pc'.op # "path" /\ bid[pc.b] # 0
      BY <2>1 DEF StoreInv, LiveInv
    <3> QED BY <2>1, <2>2, <2>6, <2>8, <2>9, <3>1 DEF LiveInv, TreeLive
  <2> QED BY <2>2, <2>6, <2>8, <2>10, FilesKept DEF StoreInv, NotRefused
<1>7. CASE DeleteEnd
  <2> DEFINE b == pc.b
             pos == branch_get_pos(tree, b) % 256
  <2>1. pc.op = "delete" /\ b \in Findex /\ pc.i \in Nat
    BY <1>0, <1>7, PcFields DEF DeleteEnd
  <2>2. tree.parent[b] \in Findex
    BY <1>0, <2>1 DEF MemoryInv, BlankInv
  <2>3. /\ tree' = branch_detach(tree, b) /\ bid' = [bid EXCEPT ![b] = 0]
        /\ index' = [index EXCEPT ![bid[b]] = NULL]
        /\ todo' = io_branch_deleted(tree', b, tree.parent[b], pos)
        /\ pc' = Idle /\ up = "run" /\ Ready /\ UNCHANGED <<up, root, files>>
    BY <1>7 DEF DeleteEnd, Ready
  <2>4. Len(tree.child_list[b]) = 0 /\ bid[b] # 0
    <3>1. /\ pc.i >= Len(tree.child_list[b])
          /\ \/ Len(tree.child_list[b]) = 0
             \/ Len(tree.child_list[b]) = 1 /\ pc.i = 0
      BY <1>7, <2>1 DEF DeleteEnd, StoreInv, LiveInv
    <3>2. bid[b] # 0
      BY <2>1 DEF StoreInv, LiveInv
    <3> QED BY <2>1, <3>1, <3>2
  <2>5. pos \in Nat
    <3>1. branch_get_pos(tree, b) \in Nat
      BY <1>0, <2>1, <2>2, PosType
    <3> QED BY <3>1
  <2> HIDE DEF b, pos
  <2>6. \A g \in Findex : tree.parent[g] # b
    <3>1. 1 .. Len(tree.child_list[b]) = {}
      BY <2>4
    <3> QED BY <1>0, <2>1, <3>1 DEF Linked
  <2>7. tree' \in Trees /\ tree'.parent = [tree.parent EXCEPT ![b] = NULL]
    BY <1>0, <2>1, <2>2, <2>3, DetachProperties
  <2>8. /\ \A g \in Findex \ {b} : tree'.parent[g] = tree.parent[g] /\ bid'[g] = bid[g]
        /\ tree'.parent[b] = NULL /\ bid'[b] = 0
    BY <1>0, <2>1, <2>3, <2>7
  <2>9. IndexExact'
    <3>1. ASSUME NEW id \in Ids, NEW f \in Findex
          PROVE  index'[id] = f <=> id # 0 /\ bid'[f] = id
      <4>1. index[id] = f <=> id # 0 /\ bid[f] = id
        BY DEF StoreInv, IndexExact
      <4>2. index[bid[b]] = b /\ bid[b] \in Ids
        BY <1>0, <2>1, <2>4 DEF StoreInv, IndexExact
      <4>3. index \in [Ids -> Findex \cup {NULL}]
        BY DEF TypeOK
      <4>4. index'[id] = IF id = bid[b] THEN NULL ELSE index[id]
        BY <2>3, <4>2, <4>3
      <4>5. CASE f = b
        BY <1>0, <2>8, <4>1, <4>4, <4>5
      <4>6. CASE f # b
        BY <1>0, <2>8, <4>1, <4>2, <4>4, <4>6
      <4> QED BY <4>5, <4>6
    <3> QED BY <3>1 DEF IndexExact
  <2>10. LiveInv'
    <3>1. \A g \in Findex : tree.parent[g] # NULL =>
            bid[g] # 0 /\ tree.parent[g] \in Findex \ {b} /\ bid[tree.parent[g]] # 0
      BY <1>0, <2>6 DEF StoreInv, LiveInv
    <3>2. root \in Findex /\ bid[root] # 0 /\ tree.parent[root] = NULL /\ root # b
      BY <1>0, <2>2, <2>3 DEF StoreInv, LiveInv, MemoryInv, BlankInv
    <3>3. \A g \in Findex : tree'.parent[g] # NULL => bid'[g] # 0 /\ bid'[tree'.parent[g]] # 0
      BY <2>8, <3>1
    <3>4. bid'[root'] # 0 /\ tree'.parent[root'] = NULL
      BY <2>3, <2>8, <3>2
    <3> QED BY <2>3, <3>3, <3>4, IdleType DEF LiveInv
  <2>11. todo' # <<>> /\ todo'[1] = HeadWrite(b)
    BY <2>1, <2>2, <2>3, <2>5, <2>7, DeletedHead
  <2>12. EdgesAgree'
    <3> SUFFICES ASSUME NEW g \in Findex, g # b
                 PROVE  /\ bhead'[g].id = bid'[g]
                        /\ bhead'[g].parent_id = Record(tree', bid', g).parent_id
      BY <2>11 DEF EdgesAgree
    <3>1. /\ bhead[g].id = bid[g]
          /\ bhead[g].parent_id = IF tree.parent[g] = NULL THEN 0 ELSE bid[tree.parent[g]]
      BY <2>3, ReadyCurrent DEF StoreInv
    <3>2. Record(tree', bid', g).parent_id
            = IF tree'.parent[g] = NULL THEN 0 ELSE bid'[tree'.parent[g]]
      BY RecordEdge
    <3>3. tree.parent[g] # NULL => bid'[tree.parent[g]] = bid[tree.parent[g]]
      BY <1>0, <2>6, <2>8
    <3> QED BY <2>3, <2>8, <3>1, <3>2, <3>3 DEF files
  <2> QED BY <2>3, <2>9, <2>10, <2>12, FilesKept DEF StoreInv, NotRefused
<1>8. CASE PathDescend
  <2>1. pc.op = "path" /\ pc.at \in Findex /\ pc.names \in Seq(Texts) /\ pc.names # <<>>
    BY <1>0, <1>8, PcFields DEF PathDescend
  <2>2. PICK i \in 1 .. Len(tree.child_list[pc.at]) : pc' = Deeper(tree.child_list[pc.at][i])
    BY <1>8 DEF PathDescend
  <2> DEFINE c == tree.child_list[pc.at][i]
  <2>3. c \in Findex /\ tree.parent[c] = pc.at
    <3>1. c \in Findex
      BY <2>1, ElementOfSeq DEF TypeOK, Trees
    <3> QED BY <1>0, <2>1, <3>1 DEF Linked
  <2>4. bid[c] # 0
    BY <1>0, <2>1, <2>3 DEF StoreInv, LiveInv
  <2> HIDE DEF c
  <2>7. pc'.op = "path" /\ pc'.at = c
    BY <2>2 DEF Deeper, c
  <2>8. UNCHANGED <<up, root, tree, bid, index, todo, files>>
    BY <1>8 DEF PathDescend, memory
  <2>9. LiveInv'
    <3>1. pc'.op # "delete"
      BY <2>7
    <3> QED BY <2>4, <2>7, <2>8, <3>1 DEF StoreInv, LiveInv
  <2>10. EdgesAgree'
    BY <2>8 DEF StoreInv, EdgesAgree, files
  <2> QED BY <2>8, <2>9, <2>10, FilesKept DEF StoreInv, NotRefused, IndexExact
<1>9. CASE PathCreate
  <2>1. /\ pc.op = "path" /\ pc.at \in Findex /\ pc.names \in Seq(Texts) /\ pc.names # <<>>
        /\ Ready /\ up = "run" /\ bid[pc.at] # 0
    BY <1>0, <1>9, PcFields DEF PathCreate, Ready, StoreInv, LiveInv
  <2>2. Head(pc.names) \in Texts /\ Tail(pc.names) \in Seq(Texts)
    BY <2>1, HeadTailProperties
  <2>3. CASE /\ insert(pc.at, GenBase + branch_n, Far, Head(pc.names))
             /\ pc' = Deeper(branch_n)
    <3>1. branch_n \in Findex /\ GenBase + branch_n # 0
      <4>1. branch_n < MaxBranch /\ branch_n \in 0 .. MaxBranch
        BY <2>3 DEF insert, TypeOK
      <4> QED BY <4>1, MaxBranchNat, GenBaseAssumption DEF Findex
    <3>2. GenBase + branch_n \in Ids
      BY <3>1 DEF Ids
    <3>4. pc'.op = "path" /\ pc'.at = branch_n
      BY <2>3 DEF Deeper
    <3>5. UNCHANGED <<up, root, files>>
      BY <2>3 DEF insert
    <3>6. /\ IndexExact' /\ TreeLive' /\ EdgesAgree'
          /\ bid'[branch_n] = GenBase + branch_n
          /\ bid'[root] # 0 /\ tree'.parent[root] = NULL
      BY <1>0, <2>1, <2>2, <2>3, <3>1, <3>2, InsertEdges
    <3>7. LiveInv'
      <4>1. pc'.op # "delete" /\ bid'[pc'.at] # 0
        BY <3>1, <3>4, <3>6
      <4> QED BY <3>5, <3>6, <4>1 DEF LiveInv, TreeLive
    <3> QED BY <2>1, <3>5, <3>6, <3>7, FilesKept DEF StoreInv, NotRefused
  <2>4. CASE pc' = Idle /\ UNCHANGED <<up, memory, todo, files>>
    <3>1. UNCHANGED <<up, root, tree, bid, index, todo, files>> /\ pc' = Idle
      BY <2>4 DEF memory
    <3>2. LiveInv' /\ EdgesAgree'
      BY <3>1, IdleType DEF StoreInv, LiveInv, EdgesAgree, files
    <3> QED BY <3>1, <3>2, FilesKept DEF StoreInv, NotRefused, IndexExact
  <2> QED BY <1>9, <2>3, <2>4 DEF PathCreate
<1>10. CASE PathInsert
  <2>1. /\ pc.op = "path" /\ pc.at \in Findex /\ bid[pc.at] # 0 /\ pc.last \in Finals
        /\ Ready /\ up = "run" /\ pc' = Idle
    BY <1>0, <1>10, PcFields DEF PathInsert, Ready, StoreInv, LiveInv
  <2>2. pc.last.id \in ClientIds /\ pc.last.id \in Ids /\ pc.last.text \in Texts
    <3>1. pc.last.op = "insert"
      BY <1>10 DEF PathInsert
    <3>2. pc.last.id \in ClientIds
      BY <2>1 DEF Finals
    <3> QED BY <1>0, <2>1, <3>1, <3>2, FinalFields
  <2>3. CASE insert(pc.at, pc.last.id, Far, pc.last.text)
    <3>1. UNCHANGED <<up, root, files>>
      BY <2>3 DEF insert
    <3>2. pc.last.id # 0
      BY <1>0, <2>2
    <3>3. /\ IndexExact' /\ TreeLive' /\ EdgesAgree'
          /\ bid'[root] # 0 /\ tree'.parent[root] = NULL
      BY <1>0, <2>1, <2>2, <2>3, <3>2, InsertEdges
    <3>4. LiveInv'
      BY <2>1, <3>1, <3>3, IdleType DEF LiveInv, TreeLive
    <3> QED BY <2>1, <3>1, <3>3, <3>4, FilesKept DEF StoreInv, NotRefused
  <2>4. CASE UNCHANGED <<up, memory, todo, files>>
    <3>1. UNCHANGED <<up, root, tree, bid, index, todo, files>> /\ pc' = Idle
      BY <2>1, <2>4 DEF memory
    <3>2. LiveInv' /\ EdgesAgree'
      BY <3>1, IdleType DEF StoreInv, LiveInv, EdgesAgree, files
    <3> QED BY <3>1, <3>2, FilesKept DEF StoreInv, NotRefused, IndexExact
  <2> QED BY <1>10, <2>3, <2>4 DEF PathInsert
<1>11. CASE PathMove
  <2> DEFINE b == index[pc.last.id]
  <2>1. /\ pc.op = "path" /\ pc.at \in Findex /\ bid[pc.at] # 0 /\ pc.last.id \in Ids
        /\ Ready /\ up = "run" /\ pc' = Idle
    BY <1>0, <1>11, PcFields, FinalFields DEF PathMove, Ready, StoreInv, LiveInv
  <2>2. CASE b # NULL /\ move(b, pc.at, Far)
    <3>1. b \in Findex
      BY <2>1, <2>2 DEF TypeOK
    <3>2. UNCHANGED <<up, root, bid, files>>
      BY <2>2 DEF move
    <3> HIDE DEF b
    <3>3. IndexExact' /\ TreeLive' /\ EdgesAgree' /\ tree'.parent[root] = NULL
      BY <1>0, <2>1, <2>2, <3>1, MoveEdges
    <3>4. LiveInv'
      BY <2>1, <3>2, <3>3, IdleType DEF LiveInv, TreeLive, StoreInv
    <3> QED BY <2>1, <3>2, <3>3, <3>4, FilesKept DEF StoreInv, NotRefused
  <2>3. CASE UNCHANGED <<up, memory, todo, files>>
    <3>1. UNCHANGED <<up, root, tree, bid, index, todo, files>> /\ pc' = Idle
      BY <2>1, <2>3 DEF memory
    <3>2. LiveInv' /\ EdgesAgree'
      BY <3>1, IdleType DEF StoreInv, LiveInv, EdgesAgree, files
    <3> QED BY <3>1, <3>2, FilesKept DEF StoreInv, NotRefused, IndexExact
  <2> QED BY <1>11, <2>2, <2>3 DEF PathMove
<1>12. CASE Flush
  <2>1. UNCHANGED <<up, root, tree, bid, index, pc>>
    BY <1>12 DEF Flush, memory
  <2>2. EdgesAgree' /\ FileInv'
    BY <1>12, FlushEdges
  <2>3. LiveInv' /\ IndexExact'
    BY <2>1 DEF StoreInv, LiveInv, IndexExact
  <2> QED BY <2>1, <2>2, <2>3 DEF StoreInv, NotRefused
<1>13. CASE Crash \/ Segfault
  <2>1. /\ tree' = EmptyTree /\ up' = "down" /\ pc' = Idle
        /\ bid' = [f \in Findex |-> 0] /\ index' = [id \in Ids |-> NULL] /\ UNCHANGED files
    BY <1>13 DEF Segfault, Crash, NoMemory
  <2>2. IndexExact'
    BY <1>0, <2>1 DEF IndexExact
  <2>3. LiveInv' /\ EdgesAgree'
    BY <2>1, IdleType DEF LiveInv, EdgesAgree, EmptyTree
  <2> QED BY <2>1, <2>2, <2>3, FilesKept DEF StoreInv, NotRefused
<1>14. CASE LoadExit
  <2>1. PICK f \in Used : bhead[f].parent_id # 0 /\ Found(bhead[f].parent_id) = {}
    BY <1>14 DEF LoadExit, Orphans
  <2>2. filesize \in 0 .. MaxBranch
    BY DEF TypeOK
  <2>3. f \in Findex
    <3>1. f \in 0 .. filesize - 1
      BY <2>1 DEF Used
    <3> QED BY <2>2, <3>1, MaxBranchNat DEF Findex
  <2>4. PICK g \in Findex : bhead[g].id = bhead[f].parent_id
    BY <2>1, <2>3 DEF StoreInv, FileInv
  <2>5. ~(g >= filesize)
    BY <2>1, <2>4 DEF StoreInv, FileInv
  <2>6. g \in 0 .. filesize - 1
    <3>1. g \in 0 .. MaxBranch - 1
      BY DEF Findex
    <3> QED BY <2>2, <2>5, <3>1, MaxBranchNat
  <2>7. g \in Found(bhead[f].parent_id)
    BY <2>1, <2>4, <2>6 DEF Found, Used
  <2> QED BY <2>1, <2>7
<1>15. CASE Restart \/ LoadDamaged
  <2>1. up' \in {"down", "damaged"} /\ UNCHANGED <<memory, todo, pc, files>>
    BY <1>15 DEF Restart, LoadDamaged
  <2>2. UNCHANGED <<root, tree, bid, index, pc, files>>
    BY <2>1 DEF memory
  <2>3. LiveInv' /\ EdgesAgree' /\ IndexExact'
    BY <2>1, <2>2 DEF StoreInv, LiveInv, EdgesAgree, IndexExact
  <2> QED BY <2>1, <2>3, FilesKept DEF StoreInv, NotRefused
<1>16. CASE Load
  BY <1>16, LoadEdges
<1>16a. CASE MoveUnlisted \/ DeleteUnlisted \/ PathMoveUnlisted
  BY <1>16a DEF MoveUnlisted, DeleteUnlisted, PathMoveUnlisted, Overflow
<1>17. CASE UNCHANGED vars
  <2>1. UNCHANGED <<up, root, tree, bid, index, todo, pc, files>>
    BY <1>17 DEF vars, memory
  <2>2. LiveInv' /\ EdgesAgree' /\ IndexExact'
    BY <2>1 DEF StoreInv, LiveInv, EdgesAgree, IndexExact, files
  <2> QED BY <2>1, <2>2, FilesKept DEF StoreInv, NotRefused
<1> QED
  BY <1>1, <1>2, <1>3, <1>4, <1>5, <1>6, <1>7, <1>8, <1>9, <1>10, <1>11, <1>12, <1>13,
     <1>14, <1>15, <1>16, <1>16a, <1>17 DEF Next, Continue

LEMMA StoreInvariant ==
  ASSUME ClientsBehave
  PROVE  Spec => [](intact => MemoryInv /\ StoreInv)
<1>1. Init => (intact => StoreInv)
  BY StoreInit
<1>2. TypeOK /\ SoundInv /\ (intact => StoreInv) /\ [Next]_vars => (intact => StoreInv)'
  BY StoreNext, IntactKept, IntactMemory
<1> QED BY <1>1, <1>2, SoundInvariant, IntactMemory, PTL DEF Spec

\* While clients send no id 0 and delete no branch with several children, no crash,
\* wherever it cuts the writes of an operation, leaves a record whose parent is
\* missing, so that io_load_map stops the server with "Abnormality detected": this holds
\* from the first start until a load finds two records that claim one slot, and what
\* operations do to a map that was loaded that way is excluded.
THEOREM StartsWhileIntact ==
  ASSUME ClientsBehave
  PROVE  Spec => []NoAbnormality
<1>1. (intact => MemoryInv /\ StoreInv) => NoAbnormality
  BY DEF StoreInv, NoAbnormality
<1> QED BY <1>1, StoreInvariant, PTL

\* Under the same conditions only the record that is written next may disagree with
\* memory about an id or a parent.
THEOREM OneStaleEdge ==
  ASSUME ClientsBehave
  PROVE  Spec => []EdgesCurrent
<1>1. (intact => MemoryInv /\ StoreInv) => EdgesCurrent
  BY DEF StoreInv, EdgesCurrent
<1> QED BY <1>1, StoreInvariant, PTL

\* Under the same conditions the index finds every branch by its id, and only those.
THEOREM IndexCorrect ==
  ASSUME ClientsBehave
  PROVE  Spec => [](intact => IndexExact)
<1>1. (intact => MemoryInv /\ StoreInv) => (intact => IndexExact)
  BY DEF StoreInv
<1> QED BY <1>1, StoreInvariant, PTL

=============================================================================
