---------------------------- MODULE RecordProofs ----------------------------
(***************************************************************************)
(* While clients behave, the files hold the whole map between operations.   *)
(* The argument: whatever a record or a row lacks is still in the queue of  *)
(* writes, because an operation queues every record whose parent, position  *)
(* or number of children it changes; when the queue is empty, nothing is    *)
(* missing.                                                                 *)
(***************************************************************************)
EXTENDS TreeProofs

-----------------------------------------------------------------------------
(* What a queue of writes contains. *)

In(s, w) == \E i \in 1 .. Len(s) : s[i] = w

LEMMA ConcatIn ==
  ASSUME NEW S, NEW s \in Seq(S), NEW u \in Seq(S), NEW w
  PROVE  In(s \o u, w) <=> In(s, w) \/ In(u, w)
<1> DEFINE c == s \o u
           n == Len(s)
           m == Len(u)
<1>1. n \in Nat /\ m \in Nat
  BY LenProperties
<1>2. Len(c) = n + m /\ \A i \in 1 .. n + m : c[i] = IF i <= n THEN s[i] ELSE u[i - n]
  BY ConcatProperties
<1> HIDE DEF c, n, m
<1>3. ASSUME NEW i \in 1 .. n + m, c[i] = w
      PROVE  (\E j \in 1 .. n : s[j] = w) \/ (\E j \in 1 .. m : u[j] = w)
  <2>1. CASE i <= n
    <3>1. i \in 1 .. n
      BY <1>1, <2>1
    <3> QED BY <1>2, <1>3, <2>1, <3>1
  <2>2. CASE ~(i <= n)
    <3>1. i - n \in 1 .. m
      BY <1>1, <2>2
    <3> QED BY <1>2, <1>3, <2>2, <3>1
  <2> QED BY <2>1, <2>2
<1>4. ASSUME NEW j \in 1 .. n, s[j] = w
      PROVE  \E i \in 1 .. n + m : c[i] = w
  <2>1. j \in 1 .. n + m /\ j <= n
    BY <1>1
  <2> QED BY <1>2, <1>4, <2>1
<1>5. ASSUME NEW j \in 1 .. m, u[j] = w
      PROVE  \E i \in 1 .. n + m : c[i] = w
  <2>1. PICK i \in 1 .. n + m : ~(i <= n) /\ i - n = j
    <3>1. j + n \in 1 .. n + m /\ ~(j + n <= n) /\ (j + n) - n = j
      BY <1>1
    <3> QED BY <3>1
  <2>2. c[i] = u[i - n]
    BY <1>2, <2>1
  <2> QED BY <1>5, <2>1, <2>2
<1>6. (\E i \in 1 .. Len(c) : c[i] = w)
        <=> (\E j \in 1 .. n : s[j] = w) \/ (\E j \in 1 .. m : u[j] = w)
  BY <1>2, <1>3, <1>4, <1>5
<1> QED BY <1>6 DEF In, c, n, m

\* io_childs_reordered writes the children after a position.
LEMMA ReorderedIn ==
  ASSUME NEW t \in Trees, NEW p \in Findex, NEW pos \in Nat, NEW w
  PROVE  In(io_childs_reordered(t, p, pos), w)
           <=> \E i \in 1 .. Len(t.child_list[p]) : i > pos /\ w = HeadWrite(t.child_list[p][i])
<1> DEFINE l == t.child_list[p]
           n == IF Len(l) >= pos THEN Len(l) - pos ELSE 0
           s == io_childs_reordered(t, p, pos)
<1>1. s \in Seq(Writes) /\ l \in Seq(Findex) /\ Len(l) \in Nat
  BY ReorderedProperties, LenProperties DEF Trees
<1>2. n \in Nat /\ 1 .. Len(l) - pos = 1 .. n
  BY <1>1
<1>3. s = [i \in 1 .. n |-> HeadWrite(l[pos + i])]
  BY <1>2 DEF io_childs_reordered
<1>4. Len(s) = n
  <2> HIDE DEF s, n
  <2>1. DOMAIN s = 1 .. n
    BY <1>3
  <2> QED BY <1>1, <1>2, <2>1, LenProperties
<1>5. ASSUME NEW j \in 1 .. n
      PROVE  pos + j \in 1 .. Len(l) /\ pos + j > pos /\ s[j] = HeadWrite(l[pos + j])
  <2>1. pos + j \in 1 .. Len(l) /\ pos + j > pos
    BY <1>1
  <2> QED BY <1>3, <2>1
<1>6. ASSUME NEW i \in 1 .. Len(l), i > pos
      PROVE  i - pos \in 1 .. n /\ s[i - pos] = HeadWrite(l[i])
  <2>1. i - pos \in 1 .. n /\ pos + (i - pos) = i
    BY <1>1, <1>6
  <2> HIDE DEF n
  <2> QED BY <1>3, <2>1
<1> HIDE DEF s, l, n
<1>7. (\E j \in 1 .. Len(s) : s[j] = w) <=> \E i \in 1 .. Len(l) : i > pos /\ w = HeadWrite(l[i])
  BY <1>4, <1>5, <1>6
<1> QED BY <1>7 DEF In, s, l

\* The records that the writes of io.c name.
LEMMA NewIn ==
  ASSUME NEW t \in Trees, Linked(t), NEW f \in Findex, t.parent[f] \in Findex, NEW w
  PROVE  In(io_branch_new(t, f), w)
           <=> \/ w \in {HeadWrite(f), HeadWrite(t.parent[f]), DataWrite(f)}
               \/ \E i \in 1 .. Len(t.child_list[t.parent[f]]) :
                    i > branch_get_pos(t, f) /\ w = HeadWrite(t.child_list[t.parent[f]][i])
<1> DEFINE r == io_childs_reordered(t, t.parent[f], branch_get_pos(t, f))
           a == <<HeadWrite(t.parent[f])>>
           h == <<HeadWrite(f)>>
           d == <<DataWrite(f)>>
<1>1. r \in Seq(Writes)
  BY PosType, ReorderedProperties
<1>2. a \in Seq(Writes) /\ h \in Seq(Writes) /\ d \in Seq(Writes)
  BY WritesType
<1>3. io_branch_new(t, f) = (h \o (a \o r)) \o d
  BY NullNotFindex DEF io_branch_new
<1>4. /\ In(a, w) <=> w = HeadWrite(t.parent[f])
      /\ In(h, w) <=> w = HeadWrite(f)
      /\ In(d, w) <=> w = DataWrite(f)
  BY DEF In
<1>5. In(r, w) <=> \E i \in 1 .. Len(t.child_list[t.parent[f]]) :
                     i > branch_get_pos(t, f) /\ w = HeadWrite(t.child_list[t.parent[f]][i])
  BY PosType, ReorderedIn
<1> HIDE DEF r, a, h, d
<1> DEFINE ar == a \o r
           har == h \o ar
<1>6. ar \in Seq(Writes) /\ (In(ar, w) <=> In(a, w) \/ In(r, w))
  BY <1>1, <1>2, ConcatProperties, ConcatIn
<1> HIDE DEF ar
<1>7. har \in Seq(Writes) /\ (In(har, w) <=> In(h, w) \/ In(ar, w))
  BY <1>2, <1>6, ConcatProperties, ConcatIn
<1> HIDE DEF har
<1>8. In(har \o d, w) <=> In(har, w) \/ In(d, w)
  BY <1>2, <1>7, ConcatIn
<1>9. io_branch_new(t, f) = har \o d
  BY <1>3 DEF har, ar
<1> QED BY <1>4, <1>5, <1>6, <1>7, <1>8, <1>9

LEMMA MovedIn ==
  ASSUME NEW t \in Trees, Linked(t), NEW f \in Findex, t.parent[f] \in Findex,
         NEW p \in Findex, NEW pos \in Nat, NEW w
  PROVE  In(io_branch_moved(t, f, p, pos), w)
           <=> \/ w \in {HeadWrite(f), HeadWrite(t.parent[f]), HeadWrite(p)}
               \/ \E i \in 1 .. Len(t.child_list[t.parent[f]]) :
                    i > branch_get_pos(t, f) + 1 /\ w = HeadWrite(t.child_list[t.parent[f]][i])
               \/ \E i \in 1 .. Len(t.child_list[p]) : i > pos /\ w = HeadWrite(t.child_list[p][i])
<1> DEFINE h == <<HeadWrite(f), HeadWrite(t.parent[f]), HeadWrite(p)>>
           r == io_childs_reordered(t, t.parent[f], branch_get_pos(t, f) + 1)
           q == io_childs_reordered(t, p, pos)
<1>1. branch_get_pos(t, f) + 1 \in Nat
  BY PosType
<1>2. r \in Seq(Writes) /\ q \in Seq(Writes) /\ h \in Seq(Writes)
  BY <1>1, ReorderedProperties, WritesType
<1>3. io_branch_moved(t, f, p, pos) = (h \o r) \o q
  BY DEF io_branch_moved
<1>4. In(h, w) <=> w \in {HeadWrite(f), HeadWrite(t.parent[f]), HeadWrite(p)}
  <2>1. Len(h) = 3 /\ h[1] = HeadWrite(f) /\ h[2] = HeadWrite(t.parent[f]) /\ h[3] = HeadWrite(p)
    OBVIOUS
  <2>2. 1 .. 3 = {1, 2, 3}
    OBVIOUS
  <2> HIDE DEF h
  <2> QED BY <2>1, <2>2 DEF In
<1>5. In(r, w) <=> \E i \in 1 .. Len(t.child_list[t.parent[f]]) :
                     i > branch_get_pos(t, f) + 1 /\ w = HeadWrite(t.child_list[t.parent[f]][i])
  BY <1>1, ReorderedIn
<1>6. In(q, w) <=> \E i \in 1 .. Len(t.child_list[p]) : i > pos /\ w = HeadWrite(t.child_list[p][i])
  BY ReorderedIn
<1> HIDE DEF r, q, h
<1> DEFINE hr == h \o r
<1>7. hr \in Seq(Writes) /\ (In(hr, w) <=> In(h, w) \/ In(r, w))
  BY <1>2, ConcatProperties, ConcatIn
<1> HIDE DEF hr
<1>8. In(hr \o q, w) <=> In(hr, w) \/ In(q, w)
  BY <1>2, <1>7, ConcatIn
<1>9. io_branch_moved(t, f, p, pos) = hr \o q
  BY <1>3 DEF hr
<1> QED BY <1>4, <1>5, <1>6, <1>7, <1>8, <1>9

LEMMA DeletedIn ==
  ASSUME NEW t \in Trees, NEW f \in Findex, NEW p \in Findex, NEW pos \in Nat, NEW w
  PROVE  In(io_branch_deleted(t, f, p, pos), w)
           <=> \/ w \in {HeadWrite(f), HeadWrite(p)}
               \/ \E i \in 1 .. Len(t.child_list[p]) : i > pos /\ w = HeadWrite(t.child_list[p][i])
<1> DEFINE h == <<HeadWrite(f), HeadWrite(p)>>
           q == io_childs_reordered(t, p, pos)
<1>1. q \in Seq(Writes) /\ h \in Seq(Writes)
  BY ReorderedProperties, WritesType
<1>2. io_branch_deleted(t, f, p, pos) = h \o q
  BY DEF io_branch_deleted
<1>3. In(h, w) <=> w \in {HeadWrite(f), HeadWrite(p)}
  <2>1. Len(h) = 2 /\ h[1] = HeadWrite(f) /\ h[2] = HeadWrite(p)
    OBVIOUS
  <2>2. 1 .. 2 = {1, 2}
    OBVIOUS
  <2> HIDE DEF h
  <2> QED BY <2>1, <2>2 DEF In
<1>4. In(q, w) <=> \E i \in 1 .. Len(t.child_list[p]) : i > pos /\ w = HeadWrite(t.child_list[p][i])
  BY ReorderedIn
<1> HIDE DEF h, q
<1>5. In(h \o q, w) <=> In(h, w) \/ In(q, w)
  BY <1>1, ConcatIn
<1> QED BY <1>2, <1>3, <1>4, <1>5

\* A child list holds each branch at most once, so a position fits into uint16_t.
LEMMA PosFits ==
  ASSUME NEW t \in Trees, Linked(t), NEW f \in Findex, t.parent[f] \in Findex
  PROVE  uint16(branch_get_pos(t, f)) = branch_get_pos(t, f)
<1> DEFINE l == t.child_list[t.parent[f]]
<1>1. l \in Seq(Findex)
  BY DEF Trees
<1>2. Len(l) \in Nat /\ l \in [1 .. Len(l) -> Findex]
  BY <1>1, LenProperties
<1>3. \A i, j \in 1 .. Len(l) : l[i] = l[j] => i = j
  BY DEF Linked
<1>4. branch_get_pos(t, f) \in 0 .. Len(l) - 1
  BY PosProperties
<1> HIDE DEF l
<1>6. IsFiniteSet(Findex) /\ Cardinality(Findex) = MaxBranch
  <2>1. 0 \in Int /\ MaxBranch - 1 \in Int /\ ~(0 > MaxBranch - 1) /\ (MaxBranch - 1) - 0 + 1 = MaxBranch
    BY MaxBranchNat
  <2> QED BY <2>1, FS_Interval DEF Findex
<1>7. /\ IsFiniteSet(1 .. Len(l))
      /\ Cardinality(1 .. Len(l)) = IF 1 > Len(l) THEN 0 ELSE Len(l) - 1 + 1
  BY <1>2, FS_Interval
<1>8. Len(l) <= MaxBranch
  <2> SUFFICES ASSUME ~(Len(l) <= MaxBranch) PROVE FALSE
    OBVIOUS
  <2>1. Cardinality(Findex) < Cardinality(1 .. Len(l))
    BY <1>2, <1>6, <1>7, MaxBranchNat
  <2> QED BY <1>2, <1>3, <1>6, <1>7, <2>1, FS_PigeonHole
<1>9. PICK m \in Nat : m = UINT16_MAX /\ MaxBranch \in 1 .. m
  BY UintNat, MaxBranchAssumption
<1>10. branch_get_pos(t, f) \in 0 .. UINT16_MAX
  BY <1>2, <1>4, <1>8, <1>9
<1>11. branch_get_pos(t, f) \in Int
  BY <1>2, <1>4
<1> QED BY <1>10, <1>11, UintType

\* The branch g has the same parent and the same place in its list in both trees.
SamePlace(t, u, g) ==
  /\ u.parent[g] = t.parent[g]
  /\ t.parent[g] # NULL =>
       \E i \in 1 .. Len(t.child_list[t.parent[g]]) :
         /\ i \in 1 .. Len(u.child_list[t.parent[g]])
         /\ t.child_list[t.parent[g]][i] = g /\ u.child_list[t.parent[g]][i] = g

\* A record depends on the edge of its branch, its place in the list and its children.
LEMMA SameRecord ==
  ASSUME NEW t \in Trees, Linked(t), NEW u \in Trees, Linked(u), NEW ids, NEW jds,
         NEW g \in Findex, SamePlace(t, u, g), jds[g] = ids[g],
         u.child_list[g] = t.child_list[g],
         t.parent[g] # NULL => jds[t.parent[g]] = ids[t.parent[g]]
  PROVE  Record(u, jds, g) = Record(t, ids, g)
<1>1. CASE t.parent[g] = NULL
  BY <1>1 DEF Record, SamePlace
<1>2. CASE t.parent[g] # NULL
  <2>1. t.parent[g] \in Findex /\ u.parent[g] = t.parent[g]
    BY <1>2 DEF Trees, SamePlace
  <2>2. PICK i \in 1 .. Len(t.child_list[t.parent[g]]) :
          /\ i \in 1 .. Len(u.child_list[t.parent[g]])
          /\ t.child_list[t.parent[g]][i] = g /\ u.child_list[t.parent[g]][i] = g
    BY <1>2 DEF SamePlace
  <2>3. branch_get_pos(t, g) = i - 1 /\ branch_get_pos(u, g) = i - 1
    BY <2>1, <2>2, PosUnique
  <2> QED BY <1>2, <2>1, <2>3 DEF Record
<1> QED BY <1>1, <1>2

\* A branch with an unchanged parent whose list is unchanged keeps its place.
LEMMA OtherList ==
  ASSUME NEW t \in Trees, Linked(t), NEW u, NEW g \in Findex, u.parent[g] = t.parent[g],
         t.parent[g] # NULL => u.child_list[t.parent[g]] = t.child_list[t.parent[g]]
  PROVE  SamePlace(t, u, g)
<1> SUFFICES ASSUME t.parent[g] # NULL
             PROVE  \E i \in 1 .. Len(t.child_list[t.parent[g]]) :
                      /\ i \in 1 .. Len(u.child_list[t.parent[g]])
                      /\ t.child_list[t.parent[g]][i] = g /\ u.child_list[t.parent[g]][i] = g
  BY DEF SamePlace
<1>1. t.parent[g] \in Findex
  BY DEF Trees
<1>2. \E i \in 1 .. Len(t.child_list[t.parent[g]]) : t.child_list[t.parent[g]][i] = g
  BY <1>1 DEF Linked
<1> QED BY <1>2

\* In a list with an entry more the branches before it keep their places.
LEMMA AddPlaces ==
  ASSUME NEW t \in Trees, Linked(t), NEW f \in Findex, NEW p \in Findex, NEW pos \in Int,
         t.parent[f] = NULL, NEW u, u = branch_add(t, f, p, pos), NEW g \in Findex, g # f
  PROVE  \/ SamePlace(t, u, g)
         \/ \E i \in 1 .. Len(u.child_list[p]) : i > branch_get_pos(u, f) + 1 /\ u.child_list[p][i] = g
<1> DEFINE at == branch_get_pos(u, f)
<1>1. /\ u \in Trees /\ Linked(u) /\ u.parent = [t.parent EXCEPT ![f] = p]
      /\ \A h \in Findex \ {p} : u.child_list[h] = t.child_list[h]
      /\ Len(u.child_list[p]) = Len(t.child_list[p]) + 1
      /\ \A i \in 1 .. at : u.child_list[p][i] = t.child_list[p][i]
  <2> DEFINE a == branch_add(t, f, p, pos)
  <2>1. /\ a \in Trees /\ Linked(a) /\ a.parent = [t.parent EXCEPT ![f] = p]
        /\ \A h \in Findex \ {p} : a.child_list[h] = t.child_list[h]
        /\ Len(a.child_list[p]) = Len(t.child_list[p]) + 1
        /\ \A i \in 1 .. branch_get_pos(a, f) : a.child_list[p][i] = t.child_list[p][i]
    BY AddProperties
  <2>2. a = u
    OBVIOUS
  <2> HIDE DEF a
  <2> QED BY <2>1, <2>2, Zenon
<1>2. t.parent \in [Findex -> Findex \cup {NULL}] /\ Len(t.child_list[p]) \in Nat
  BY LenProperties DEF Trees
<1>3. u.parent[f] = p /\ u.parent[g] = t.parent[g]
  BY <1>1, <1>2
<1>4. at \in 0 .. Len(u.child_list[p]) - 1 /\ u.child_list[p][at + 1] = f
  <2>1. u \in Trees /\ Linked(u) /\ u.parent[f] \in Findex
    BY <1>1, <1>3
  <2>2. /\ branch_get_pos(u, f) \in 0 .. Len(u.child_list[u.parent[f]]) - 1
        /\ u.child_list[u.parent[f]][branch_get_pos(u, f) + 1] = f
    BY <2>1, PosProperties
  <2> QED BY <1>3, <2>2
<1> HIDE DEF at
<1>5. CASE t.parent[g] # p
  <2>1. t.parent[g] # NULL => u.child_list[t.parent[g]] = t.child_list[t.parent[g]]
    BY <1>1, <1>2, <1>5
  <2> QED BY <1>3, <2>1, OtherList
<1>6. CASE t.parent[g] = p
  <2>1. PICK i \in 1 .. Len(u.child_list[p]) : u.child_list[p][i] = g
    BY <1>1, <1>3, <1>6 DEF Linked
  <2>2. CASE i > at + 1
    BY <2>1, <2>2 DEF at
  <2>3. CASE ~(i > at + 1)
    <3>1. i # at + 1
      BY <1>4, <2>1
    <3>2. i \in 1 .. at /\ i \in 1 .. Len(t.child_list[p])
      BY <1>1, <1>2, <1>4, <2>3, <3>1
    <3>3. t.child_list[p][i] = g
      BY <1>1, <2>1, <3>2
    <3> QED BY <1>3, <1>6, <2>1, <3>2, <3>3 DEF SamePlace
  <2> QED BY <2>2, <2>3
<1> QED BY <1>5, <1>6

\* In a list with an entry less the branches before it keep their places.
LEMMA DetachPlaces ==
  ASSUME NEW t \in Trees, Linked(t), NEW f \in Findex, NEW p \in Findex, t.parent[f] = p,
         NEW u, u = branch_detach(t, f), NEW g \in Findex, g # f
  PROVE  \/ SamePlace(t, u, g)
         \/ \E i \in 1 .. Len(u.child_list[p]) : i > branch_get_pos(t, f) /\ u.child_list[p][i] = g
<1> DEFINE at == branch_get_pos(t, f)
<1>1. /\ u \in Trees /\ Linked(u) /\ u.parent = [t.parent EXCEPT ![f] = NULL]
      /\ \A h \in Findex \ {p} : u.child_list[h] = t.child_list[h]
      /\ Len(u.child_list[p]) = Len(t.child_list[p]) - 1
      /\ \A i \in 1 .. at : u.child_list[p][i] = t.child_list[p][i]
  BY DetachProperties, ZenonT(60)
<1>2. t.parent \in [Findex -> Findex \cup {NULL}] /\ Len(t.child_list[p]) \in Nat
  BY LenProperties DEF Trees
<1>3. u.parent[g] = t.parent[g]
  BY <1>1, <1>2
<1>4. at \in 0 .. Len(t.child_list[p]) - 1
  BY PosProperties
<1> HIDE DEF at
<1>5. CASE t.parent[g] # p
  <2>1. t.parent[g] # NULL => u.child_list[t.parent[g]] = t.child_list[t.parent[g]]
    BY <1>1, <1>2, <1>5
  <2> QED BY <1>3, <2>1, OtherList
<1>6. CASE t.parent[g] = p
  <2>1. PICK i \in 1 .. Len(u.child_list[p]) : u.child_list[p][i] = g
    BY <1>1, <1>3, <1>6 DEF Linked
  <2>2. CASE i > at
    BY <2>1, <2>2 DEF at
  <2>3. CASE ~(i > at)
    <3>1. i \in 1 .. at /\ i \in 1 .. Len(t.child_list[p])
      BY <1>1, <1>2, <1>4, <2>3
    <3>2. t.child_list[p][i] = g
      BY <1>1, <2>1, <3>1
    <3> QED BY <1>3, <1>6, <2>1, <3>1, <3>2 DEF SamePlace
  <2> QED BY <2>2, <2>3
<1> QED BY <1>5, <1>6

\* A move shifts branches of the two lists only, and only those written again.
LEMMA MovePlaces ==
  ASSUME NEW t \in Trees, Linked(t), NEW b \in Findex, NEW opb \in Findex, t.parent[b] = opb,
         NEW npb \in Findex, NEW pos \in Int,
         NEW u, u = branch_add(branch_detach(t, b), b, npb, pos), NEW g \in Findex, g # b
  PROVE  \/ SamePlace(t, u, g)
         \/ \E i \in 1 .. Len(u.child_list[npb]) :
              i > branch_get_pos(u, b) + 1 /\ u.child_list[npb][i] = g
         \/ \E i \in 1 .. Len(u.child_list[opb]) :
              i > branch_get_pos(t, b) /\ u.child_list[opb][i] = g
<1> DEFINE d == branch_detach(t, b)
<1>1. d \in Trees /\ Linked(d) /\ d.parent[b] = NULL /\ d.parent[g] = t.parent[g]
  <2>1. d \in Trees /\ Linked(d) /\ d.parent = [t.parent EXCEPT ![b] = NULL]
    BY DetachProperties
  <2>2. t.parent \in [Findex -> Findex \cup {NULL}]
    BY DEF Trees
  <2> HIDE DEF d
  <2> QED BY <2>1, <2>2
<1>2. \/ SamePlace(t, d, g)
      \/ \E i \in 1 .. Len(d.child_list[opb]) : i > branch_get_pos(t, b) /\ d.child_list[opb][i] = g
  BY DetachPlaces
<1>3. u = branch_add(d, b, npb, pos)
  OBVIOUS
<1> HIDE DEF d
<1>4. \/ SamePlace(d, u, g)
      \/ \E i \in 1 .. Len(u.child_list[npb]) : i > branch_get_pos(u, b) + 1 /\ u.child_list[npb][i] = g
  BY <1>1, <1>3, AddPlaces
<1>5. ASSUME SamePlace(d, u, g), NEW j \in 1 .. Len(d.child_list[opb]), d.child_list[opb][j] = g
      PROVE  j \in 1 .. Len(u.child_list[opb]) /\ u.child_list[opb][j] = g
  <2>1. d.parent[g] = opb
    BY <1>1, <1>5, PosUnique
  <2>2. PICK i \in 1 .. Len(d.child_list[opb]) :
          /\ i \in 1 .. Len(u.child_list[opb])
          /\ d.child_list[opb][i] = g /\ u.child_list[opb][i] = g
    BY <1>5, <2>1, NullNotFindex DEF SamePlace
  <2>3. i = j
    BY <1>1, <1>5, <2>2 DEF Linked
  <2> QED BY <2>2, <2>3
<1>6. ASSUME SamePlace(t, d, g), SamePlace(d, u, g)
      PROVE  SamePlace(t, u, g)
  <2>1. u.parent[g] = t.parent[g] /\ d.parent[g] = t.parent[g]
    BY <1>6 DEF SamePlace
  <2>2. CASE t.parent[g] # NULL
    <3>1. t.parent[g] \in Findex
      BY <2>2 DEF Trees
    <3>2. PICK i \in 1 .. Len(t.child_list[t.parent[g]]) :
            i \in 1 .. Len(d.child_list[t.parent[g]])
            /\ t.child_list[t.parent[g]][i] = g /\ d.child_list[t.parent[g]][i] = g
      BY <1>6, <2>2 DEF SamePlace
    <3>3. PICK j \in 1 .. Len(d.child_list[t.parent[g]]) :
            j \in 1 .. Len(u.child_list[t.parent[g]])
            /\ d.child_list[t.parent[g]][j] = g /\ u.child_list[t.parent[g]][j] = g
      BY <1>6, <2>1, <2>2 DEF SamePlace
    <3>4. i = j
      BY <1>1, <3>1, <3>2, <3>3, SMTT(40) DEF Linked
    <3> QED BY <2>1, <3>2, <3>3, <3>4 DEF SamePlace
  <2>3. CASE t.parent[g] = NULL
    BY <2>1, <2>3 DEF SamePlace
  <2> QED BY <2>2, <2>3
<1> QED BY <1>2, <1>4, <1>5, <1>6

-----------------------------------------------------------------------------
(* RecordInv is inductive: the operations. *)

LEMMA WriteFields ==
  ASSUME NEW f
  PROVE  HeadWrite(f).at = f /\ DataWrite(f).at = f
BY DEF HeadWrite, DataWrite

\* Between operations the files lack nothing.
LEMMA ReadyRecords ==
  ASSUME RecordInv, Ready
  PROVE  /\ \A f \in Findex : bid[f] # 0 => bhead[f] = Record(tree, bid, f) /\ row[bid[f]] = text[f]
         /\ filesize = branch_n
<1>1. up = "run" /\ todo = <<>> /\ \A w : ~Pending(w)
  BY DEF Ready, Pending
<1> QED BY <1>1 DEF RecordInv, HeadsPending, RowsPending, SizePending

\* Live branches have numbers that were handed out.
LEMMA LiveBelow ==
  ASSUME TypeOK, MemoryInv, NEW f \in Findex, bid[f] # 0
  PROVE  f < branch_n
<1>1. f \in Int /\ branch_n \in Int
  BY DEF Findex, TypeOK
<1>2. ~(f >= branch_n)
  BY DEF MemoryInv, BlankInv
<1> QED BY <1>1, <1>2

\* What only the files decide.
LEMMA FilesOnly ==
  ASSUME RecordInv, UNCHANGED files
  PROVE  ParentRows' /\ RootPos'
BY DEF RecordInv, ParentRows, RootPos, files

LEMMA InsertRecords ==
  ASSUME TypeOK, MemoryInv, StoreInv, RecordInv,
         NEW p, NEW id, NEW pos, NEW txt, Inserts(p, id, pos, txt)
  PROVE  RecordInv'
<1> DEFINE f == branch_n
<1>t. PICK t : t = tree'
  OBVIOUS
<1>0. /\ insert(p, id, pos, txt) /\ up = "run" /\ todo = <<>> /\ UNCHANGED <<up, root, files>>
      /\ Ready /\ p \in Findex /\ bid[p] # 0 /\ id \in Ids /\ id # 0 /\ pos \in Int /\ txt \in Texts
  BY DEF Inserts, insert, Ready
<1>1. /\ f \in Findex /\ t \in Trees /\ Linked(t)
      /\ t.parent = [tree.parent EXCEPT ![f] = p]
      /\ bid' = [bid EXCEPT ![f] = id]
  BY <1>0, <1>t, InsertStep
<1>b. \A g \in Findex : g >= branch_n' => bid'[g] = 0
  <2>1. SoundInv
    BY MemorySound
  <2> QED BY <1>0, <2>1, InsertSound
<1>2. /\ text' = [text EXCEPT ![f] = txt] /\ text[p] # NoData /\ branch_n' = branch_n + 1
      /\ t = branch_add(tree, f, p, pos) /\ todo' = io_branch_new(t, f)
  BY <1>0, <1>t DEF insert
<1>3. /\ tree \in Trees /\ Linked(tree) /\ tree.parent \in [Findex -> Findex \cup {NULL}]
      /\ bid \in [Findex -> Ids] /\ text \in [Findex -> Texts \cup {NoData}]
      /\ NoData \notin Texts /\ NULL \notin Findex /\ branch_n \in Nat
  BY NullNotFindex, TextsAssumption DEF TypeOK, Trees, MemoryInv, BlankInv
<1>4. bid[f] = 0 /\ tree.parent[f] = NULL
  <2>1. f >= f
    BY <1>1 DEF Findex
  <2> QED BY <1>1, <2>1 DEF MemoryInv, BlankInv
<1>5. /\ t.parent[f] = p /\ bid'[f] = id /\ text'[f] = txt /\ f # p
      /\ \A x \in Findex \ {f} : t.parent[x] = tree.parent[x] /\ bid'[x] = bid[x] /\ text'[x] = text[x]
  BY <1>0, <1>1, <1>2, <1>3, <1>4
<1>6. \A x \in Findex : tree.parent[x] # NULL => tree.parent[x] \in Findex \ {f}
  BY <1>3, <1>4 DEF StoreInv, LiveInv
<1>7. /\ \A x \in Findex : bid[x] # 0 => bhead[x] = Record(tree, bid, x) /\ row[bid[x]] = text[x]
      /\ filesize = branch_n
  BY <1>0, ReadyRecords
<1>8. TreeLive' /\ todo' # <<>> /\ todo'[1] = HeadWrite(f)
  BY <1>0, <1>1, <1>2, <1>5, <1>t, InsertEdges, NewHead, ZenonT(60)
<1>9. ASSUME NEW g \in Findex, g # f
      PROVE  \/ SamePlace(tree, t, g)
             \/ \E i \in 1 .. Len(t.child_list[p]) :
                  i > branch_get_pos(t, f) + 1 /\ t.child_list[p][i] = g
  <2>1. /\ tree \in Trees /\ Linked(tree) /\ f \in Findex /\ p \in Findex /\ pos \in Int
        /\ tree.parent[f] = NULL /\ t = branch_add(tree, f, p, pos)
    BY <1>0, <1>1, <1>2, <1>3, <1>4
  <2> QED BY ONLY <2>1, <1>9, g \in Findex, AddPlaces
<1>10. \A g \in Findex \ {p} : t.child_list[g] = tree.child_list[g]
  <2> DEFINE a == branch_add(tree, f, p, pos)
  <2>1. \A g \in Findex \ {p} : a.child_list[g] = tree.child_list[g]
    BY <1>0, <1>1, <1>3, <1>4, AddProperties
  <2>2. a = t
    BY <1>2
  <2> HIDE DEF a
  <2> QED BY <2>1, <2>2
<1>11. ASSUME NEW w
       PROVE  In(todo', w) <=> \/ w \in {HeadWrite(f), HeadWrite(p), DataWrite(f)}
                               \/ \E i \in 1 .. Len(t.child_list[p]) :
                                    i > branch_get_pos(t, f) /\ w = HeadWrite(t.child_list[p][i])
  <2>1. t \in Trees /\ Linked(t) /\ f \in Findex /\ t.parent[f] \in Findex
    BY <1>0, <1>1, <1>5
  <2>2. In(io_branch_new(t, f), w)
           <=> \/ w \in {HeadWrite(f), HeadWrite(t.parent[f]), DataWrite(f)}
               \/ \E i \in 1 .. Len(t.child_list[t.parent[f]]) :
                    i > branch_get_pos(t, f) /\ w = HeadWrite(t.child_list[t.parent[f]][i])
    BY <2>1, NewIn
  <2> QED BY <1>2, <1>5, <2>2
<1> HIDE DEF f
<1>12. HeadsPending'
  <2> SUFFICES ASSUME NEW g \in Findex, bid'[g] # 0
               PROVE  In(todo', HeadWrite(g)) \/ bhead[g] = Record(t, bid', g)
    BY <1>0, <1>t DEF HeadsPending, Pending, In, files
  <2>1. CASE g = f \/ g = p
    BY <1>11, <2>1
  <2>2. CASE g # f /\ g # p /\ SamePlace(tree, t, g)
    <3>1. t.child_list[g] = tree.child_list[g] /\ bid'[g] = bid[g]
      BY <1>5, <1>10, <2>2
    <3>2. tree.parent[g] # NULL => bid'[tree.parent[g]] = bid[tree.parent[g]]
      BY <1>5, <1>6
    <3>3. Record(t, bid', g) = Record(tree, bid, g)
      <4>1. tree \in Trees /\ Linked(tree) /\ t \in Trees /\ Linked(t)
        BY <1>1, <1>3
      <4> QED BY <2>2, <3>1, <3>2, <4>1, SameRecord
    <3> QED BY <1>7, <3>1, <3>3
  <2>3. ASSUME NEW i \in 1 .. Len(t.child_list[p]), i > branch_get_pos(t, f) + 1, t.child_list[p][i] = g
        PROVE  In(todo', HeadWrite(g))
    <3>1. branch_get_pos(t, f) \in Nat
      BY <1>0, <1>1, <1>5, PosType
    <3>2. i > branch_get_pos(t, f)
      BY <2>3, <3>1
    <3> QED BY <1>11, <2>3, <3>2
  <2> QED BY <1>9, <2>1, <2>2, <2>3
<1>13. RowsPending'
  <2> SUFFICES ASSUME NEW g \in Findex, bid'[g] # 0
               PROVE  In(todo', DataWrite(g)) \/ row[bid'[g]] = text'[g]
    BY <1>0 DEF RowsPending, Pending, In, files
  <2> QED BY <1>5, <1>7, <1>11
<1>14. SizePending'
  <2>1. filesize' = filesize /\ filesize = branch_n /\ branch_n' - 1 = branch_n
    BY <1>0, <1>2, <1>3, <1>7 DEF files
  <2> QED BY <1>8, <2>1 DEF SizePending, f
<1>15. WritesBelow'
  <2>1. \A g \in Findex : bid'[g] # 0 => g < branch_n'
    <3>1. \A g \in Findex : g \in Int
      BY DEF Findex
    <3> QED BY <1>b, <1>2, <1>3, <3>1
  <2>2. ASSUME NEW w, In(todo', w)
        PROVE  w.at < branch_n'
    <3>1. CASE w \in {HeadWrite(f), HeadWrite(p), DataWrite(f)}
      <4>1. bid'[f] # 0 /\ bid'[p] # 0
        BY <1>0, <1>5
      <4> QED BY <1>0, <1>1, <2>1, <3>1, <4>1, WriteFields
    <3>2. ASSUME NEW i \in 1 .. Len(t.child_list[p]), w = HeadWrite(t.child_list[p][i])
          PROVE  w.at < branch_n'
      <4>1. t.child_list[p][i] \in Findex /\ t.parent[t.child_list[p][i]] = p
        <5>1. t \in Trees /\ Linked(t) /\ p \in Findex
          BY <1>0, <1>1
        <5> QED BY <5>1, PosUnique
      <4>2. bid'[t.child_list[p][i]] # 0
        BY <1>0, <1>3, <1>8, <4>1, <1>t DEF TreeLive
      <4> QED BY <2>1, <3>2, <4>1, <4>2, WriteFields
    <3> QED BY <1>11, <2>2, <3>1, <3>2
  <2> QED BY <1>0, <2>2 DEF WritesBelow, In
<1>16. IdsKept'
  <2> SUFFICES ASSUME NEW g \in Findex
               PROVE  bhead[g].id = bid'[g] \/ bid'[g] = 0 \/ g >= filesize
    BY <1>0 DEF IdsKept, files
  <2>1. CASE g = f
    BY <1>3, <1>7, <2>1 DEF f
  <2>2. CASE g # f
    <3>1. bhead[g].id = bid[g]
      BY <1>0, ReadyCurrent DEF StoreInv
    <3> QED BY <1>5, <2>2, <3>1
  <2> QED BY <2>1, <2>2
<1>17. ParentData'
  <2> SUFFICES ASSUME NEW g \in Findex, t.parent[g] # NULL
               PROVE  text'[t.parent[g]] # NoData /\ row[bid'[t.parent[g]]] # NoData
    BY <1>0, <1>t DEF ParentData, files
  <2>1. CASE g = f
    <3>1. t.parent[g] = p /\ text'[p] = text[p] /\ bid'[p] = bid[p] /\ row[bid[p]] = text[p]
      BY <1>0, <1>5, <1>7, <2>1
    <3> QED BY <1>2, <3>1
  <2>2. CASE g # f
    <3>1. t.parent[g] = tree.parent[g] /\ tree.parent[g] \in Findex \ {f}
      BY <1>5, <1>6, <2>2
    <3> QED BY <1>5, <3>1 DEF RecordInv, ParentData
  <2> QED BY <2>1, <2>2
<1> QED BY <1>0, <1>12, <1>13, <1>14, <1>15, <1>16, <1>17, FilesOnly DEF RecordInv

LEMMA MoveRecords ==
  ASSUME TypeOK, MemoryInv, StoreInv, RecordInv,
         NEW b, NEW npb, NEW pos, Moves(b, npb, pos)
  PROVE  RecordInv'
<1>0. /\ move(b, npb, pos) /\ up = "run" /\ Ready
      /\ UNCHANGED <<up, branch_n, root, bid, text, files>>
      /\ b \in Findex /\ npb \in Findex /\ bid[npb] # 0 /\ pos \in Int
  BY DEF Moves, move, Ready
<1>t. PICK t, opb, old : t = tree' /\ opb = tree.parent[b] /\ old = branch_get_pos(tree, b)
  OBVIOUS
<1>1. /\ opb \in Findex /\ t \in Trees /\ Linked(t)
      /\ t.parent = [tree.parent EXCEPT ![b] = npb]
  BY <1>0, <1>t, MoveStep
<1>2. /\ t = branch_add(branch_detach(tree, b), b, npb, pos)
      /\ todo' = io_branch_moved(t, b, opb, old) /\ text[npb] # NoData
  BY <1>0, <1>t DEF move
<1>3. /\ tree \in Trees /\ Linked(tree) /\ tree.parent \in [Findex -> Findex \cup {NULL}]
      /\ bid \in [Findex -> Ids] /\ NULL \notin Findex
  BY NullNotFindex DEF TypeOK, Trees, MemoryInv, BlankInv
<1>4. t.parent[b] = npb /\ \A x \in Findex \ {b} : t.parent[x] = tree.parent[x]
  BY <1>0, <1>1, <1>3
<1>5. t \in Trees /\ Linked(t) /\ old \in Nat
  BY <1>0, <1>1, <1>3, <1>t, PosType
<1>6. bid[b] # 0 /\ bid[opb] # 0
  BY <1>0, <1>1, <1>3, <1>t DEF StoreInv, LiveInv
<1>7. /\ \A x \in Findex : bid[x] # 0 => bhead[x] = Record(tree, bid, x) /\ row[bid[x]] = text[x]
      /\ filesize = branch_n
  BY <1>0, ReadyRecords
<1>8. TreeLive'
  BY <1>0, MoveEdges
<1>9. ASSUME NEW g \in Findex, g # b
      PROVE  \/ SamePlace(tree, t, g)
             \/ \E i \in 1 .. Len(t.child_list[npb]) :
                  i > branch_get_pos(t, b) + 1 /\ t.child_list[npb][i] = g
             \/ \E i \in 1 .. Len(t.child_list[opb]) : i > old /\ t.child_list[opb][i] = g
  <2>1. /\ tree \in Trees /\ Linked(tree) /\ b \in Findex /\ opb \in Findex /\ tree.parent[b] = opb
        /\ npb \in Findex /\ pos \in Int /\ t = branch_add(branch_detach(tree, b), b, npb, pos)
    BY <1>0, <1>1, <1>2, <1>3, <1>t
  <2>2. \/ SamePlace(tree, t, g)
        \/ \E i \in 1 .. Len(t.child_list[npb]) :
             i > branch_get_pos(t, b) + 1 /\ t.child_list[npb][i] = g
        \/ \E i \in 1 .. Len(t.child_list[opb]) :
             i > branch_get_pos(tree, b) /\ t.child_list[opb][i] = g
    BY <1>9, <2>1, MovePlaces
  <2> QED BY <1>t, <2>2
<1>10. \A g \in Findex \ {npb, opb} : t.child_list[g] = tree.child_list[g]
  <2> DEFINE d == branch_detach(tree, b)
             a == branch_add(d, b, npb, pos)
  <2>1. /\ d \in Trees /\ Linked(d) /\ d.parent = [tree.parent EXCEPT ![b] = NULL]
        /\ \A g \in Findex \ {opb} : d.child_list[g] = tree.child_list[g]
    BY <1>0, <1>1, <1>3, <1>t, DetachProperties
  <2>2. a = t
    BY <1>2
  <2> HIDE DEF d
  <2>3. d.parent[b] = NULL
    BY <1>0, <1>3, <2>1
  <2>4. \A g \in Findex \ {npb} : a.child_list[g] = d.child_list[g]
    <3>1. d \in Trees /\ Linked(d) /\ b \in Findex /\ npb \in Findex /\ pos \in Int
      BY <1>0, <2>1
    <3>2. /\ a \in Trees /\ Linked(a) /\ a.parent = [d.parent EXCEPT ![b] = npb]
          /\ \A g \in Findex \ {npb} : a.child_list[g] = d.child_list[g]
      BY <2>3, <3>1, AddProperties
    <3> QED BY <3>2
  <2> HIDE DEF a
  <2> QED BY <2>1, <2>2, <2>4
<1>11. ASSUME NEW w
       PROVE  In(todo', w)
                <=> \/ w \in {HeadWrite(b), HeadWrite(npb), HeadWrite(opb)}
                    \/ \E i \in 1 .. Len(t.child_list[npb]) :
                         i > branch_get_pos(t, b) + 1 /\ w = HeadWrite(t.child_list[npb][i])
                    \/ \E i \in 1 .. Len(t.child_list[opb]) :
                         i > old /\ w = HeadWrite(t.child_list[opb][i])
  <2>1. t.parent[b] \in Findex
    BY <1>0, <1>4
  <2>2. In(io_branch_moved(t, b, opb, old), w)
          <=> \/ w \in {HeadWrite(b), HeadWrite(t.parent[b]), HeadWrite(opb)}
              \/ \E i \in 1 .. Len(t.child_list[t.parent[b]]) :
                   i > branch_get_pos(t, b) + 1 /\ w = HeadWrite(t.child_list[t.parent[b]][i])
              \/ \E i \in 1 .. Len(t.child_list[opb]) : i > old /\ w = HeadWrite(t.child_list[opb][i])
    <3>1. opb \in Findex /\ b \in Findex
      BY <1>0, <1>1
    <3> QED BY <1>5, <2>1, <3>1, MovedIn
  <2>3. todo' = io_branch_moved(t, b, opb, old)
    BY <1>2
  <2> QED BY <1>4, <2>2, <2>3
<1>12. HeadsPending'
  <2> SUFFICES ASSUME NEW g \in Findex, bid[g] # 0
               PROVE  In(todo', HeadWrite(g)) \/ bhead[g] = Record(t, bid, g)
    BY <1>0, <1>t DEF HeadsPending, Pending, In, files
  <2>1. CASE g \in {b, npb, opb}
    BY <1>11, <2>1
  <2>2. CASE g \notin {b, npb, opb} /\ SamePlace(tree, t, g)
    <3>1. t.child_list[g] = tree.child_list[g]
      BY <1>10, <2>2
    <3>2. tree \in Trees /\ Linked(tree)
      BY <1>3
    <3>3. Record(t, bid, g) = Record(tree, bid, g)
      BY <1>5, <2>2, <3>1, <3>2, SameRecord
    <3> QED BY <1>7, <3>3
  <2>3. ASSUME \/ \E i \in 1 .. Len(t.child_list[npb]) :
                    i > branch_get_pos(t, b) + 1 /\ t.child_list[npb][i] = g
               \/ \E i \in 1 .. Len(t.child_list[opb]) : i > old /\ t.child_list[opb][i] = g
        PROVE  In(todo', HeadWrite(g))
    BY <1>11, <2>3
  <2> QED BY <1>9, <2>1, <2>2, <2>3
<1>13. RowsPending'
  BY <1>0, <1>7 DEF RowsPending, files
<1>14. SizePending'
  BY <1>0, <1>7 DEF SizePending, files
<1>15. WritesBelow'
  <2>1. ASSUME NEW q \in Findex, NEW i \in 1 .. Len(t.child_list[q])
        PROVE  t.child_list[q][i] < branch_n
    <3>1. t.child_list[q][i] \in Findex /\ t.parent[t.child_list[q][i]] = q
      BY <1>5, PosUnique
    <3>2. bid[t.child_list[q][i]] # 0
      BY <1>0, <1>3, <1>8, <1>t, <3>1 DEF TreeLive
    <3> QED BY <3>1, <3>2, LiveBelow
  <2>2. b < branch_n /\ npb < branch_n /\ opb < branch_n
    BY <1>0, <1>1, <1>6, LiveBelow
  <2>3. ASSUME NEW w, In(todo', w)
        PROVE  w.at < branch_n
    BY <1>0, <1>1, <1>11, <2>1, <2>2, <2>3, WriteFields
  <2> QED BY <1>0, <2>3 DEF WritesBelow, In
<1>16. IdsKept'
  BY <1>0 DEF RecordInv, IdsKept, files
<1>17. ParentData'
  <2> SUFFICES ASSUME NEW g \in Findex, t.parent[g] # NULL
               PROVE  text[t.parent[g]] # NoData /\ row[bid[t.parent[g]]] # NoData
    BY <1>0, <1>t DEF ParentData, files
  <2>1. CASE g = b
    BY <1>0, <1>2, <1>4, <1>7, <2>1
  <2>2. CASE g # b
    BY <1>4, <2>2 DEF RecordInv, ParentData
  <2> QED BY <2>1, <2>2
<1> QED BY <1>0, <1>12, <1>13, <1>14, <1>15, <1>16, <1>17, FilesOnly DEF RecordInv

LEMMA DeleteRecords ==
  ASSUME TypeOK, MemoryInv, StoreInv, RecordInv, NEW b, NEW pos, Deletes(b, pos)
  PROVE  RecordInv'
<1>0. /\ up = "run" /\ Ready /\ UNCHANGED <<up, branch_n, root, text, files>>
      /\ b \in Findex /\ bid[b] # 0 /\ pos \in Nat /\ \A g \in Findex : tree.parent[g] # b
      /\ bid' = [bid EXCEPT ![b] = 0]
  BY DEF Deletes, Ready
<1>t. PICK t, opb : t = tree' /\ opb = tree.parent[b]
  OBVIOUS
<1>1. /\ opb \in Findex /\ t = branch_detach(tree, b) /\ todo' = io_branch_deleted(t, b, opb, pos)
      /\ pos <= branch_get_pos(tree, b)
  BY <1>t DEF Deletes
<1>2. /\ tree \in Trees /\ Linked(tree) /\ tree.parent \in [Findex -> Findex \cup {NULL}]
      /\ bid \in [Findex -> Ids] /\ NULL \notin Findex
  BY NullNotFindex DEF TypeOK, Trees, MemoryInv, BlankInv
<1>3. /\ t \in Trees /\ Linked(t) /\ t.parent = [tree.parent EXCEPT ![b] = NULL]
      /\ \A g \in Findex \ {opb} : t.child_list[g] = tree.child_list[g]
  <2> DEFINE d == branch_detach(tree, b)
  <2>1. /\ d \in Trees /\ Linked(d) /\ d.parent = [tree.parent EXCEPT ![b] = NULL]
        /\ \A g \in Findex \ {opb} : d.child_list[g] = tree.child_list[g]
    BY <1>0, <1>1, <1>2, <1>t, DetachProperties
  <2>2. d = t
    BY <1>1
  <2> HIDE DEF d
  <2> QED BY <2>1, <2>2
<1>4. /\ t.parent[b] = NULL /\ bid'[b] = 0
      /\ \A x \in Findex \ {b} : t.parent[x] = tree.parent[x] /\ bid'[x] = bid[x]
  BY <1>0, <1>2, <1>3
<1>5. t \in Trees /\ Linked(t) /\ tree \in Trees /\ Linked(tree) /\ branch_get_pos(tree, b) \in Nat
  BY <1>0, <1>1, <1>2, <1>3, <1>t, PosType
<1>6. \A x \in Findex : tree.parent[x] # NULL =>
        /\ tree.parent[x] \in Findex \ {b} /\ bid[x] # 0 /\ bid[tree.parent[x]] # 0
  BY <1>0, <1>2 DEF StoreInv, LiveInv
<1>7. /\ \A x \in Findex : bid[x] # 0 => bhead[x] = Record(tree, bid, x) /\ row[bid[x]] = text[x]
      /\ filesize = branch_n
  BY <1>0, ReadyRecords
<1>8. ASSUME NEW g \in Findex, g # b
      PROVE  \/ SamePlace(tree, t, g)
             \/ \E i \in 1 .. Len(t.child_list[opb]) : i > pos /\ t.child_list[opb][i] = g
  <2>1. \/ SamePlace(tree, t, g)
        \/ \E i \in 1 .. Len(t.child_list[opb]) :
             i > branch_get_pos(tree, b) /\ t.child_list[opb][i] = g
    <3>1. /\ tree \in Trees /\ Linked(tree) /\ b \in Findex /\ opb \in Findex
          /\ tree.parent[b] = opb /\ t = branch_detach(tree, b)
      BY <1>0, <1>1, <1>2, <1>t
    <3> QED BY <1>8, <3>1, DetachPlaces
  <2>2. \A i \in 1 .. Len(t.child_list[opb]) : i > branch_get_pos(tree, b) => i > pos
    BY <1>0, <1>1, <1>5
  <2> QED BY <2>1, <2>2
<1>9. ASSUME NEW w
      PROVE  In(todo', w)
               <=> \/ w \in {HeadWrite(b), HeadWrite(opb)}
                   \/ \E i \in 1 .. Len(t.child_list[opb]) :
                        i > pos /\ w = HeadWrite(t.child_list[opb][i])
  <2>1. t \in Trees /\ b \in Findex /\ opb \in Findex /\ pos \in Nat
    BY <1>0, <1>1, <1>5
  <2>2. In(io_branch_deleted(t, b, opb, pos), w)
          <=> \/ w \in {HeadWrite(b), HeadWrite(opb)}
              \/ \E i \in 1 .. Len(t.child_list[opb]) : i > pos /\ w = HeadWrite(t.child_list[opb][i])
    BY <2>1, DeletedIn
  <2>3. todo' = io_branch_deleted(t, b, opb, pos)
    BY <1>1
  <2> QED BY <2>2, <2>3
<1>10. HeadsPending'
  <2> SUFFICES ASSUME NEW g \in Findex, bid'[g] # 0
               PROVE  In(todo', HeadWrite(g)) \/ bhead[g] = Record(t, bid', g)
    BY <1>0, <1>t DEF HeadsPending, Pending, In, files
  <2>0. g # b /\ bid'[g] = bid[g]
    BY <1>4
  <2>1. CASE g = opb
    BY <1>9, <2>1
  <2>2. CASE g # opb /\ SamePlace(tree, t, g)
    <3>1. t.child_list[g] = tree.child_list[g]
      BY <1>3, <2>2
    <3>2. tree.parent[g] # NULL => bid'[tree.parent[g]] = bid[tree.parent[g]]
      BY <1>4, <1>6
    <3>3. Record(t, bid', g) = Record(tree, bid, g)
      BY <1>5, <2>0, <2>2, <3>1, <3>2, SameRecord
    <3> QED BY <1>7, <2>0, <3>3
  <2>3. ASSUME \E i \in 1 .. Len(t.child_list[opb]) : i > pos /\ t.child_list[opb][i] = g
        PROVE  In(todo', HeadWrite(g))
    BY <1>9, <2>3
  <2> QED BY <1>8, <2>0, <2>1, <2>2, <2>3
<1>11. RowsPending'
  BY <1>0, <1>4, <1>7 DEF RowsPending, files
<1>12. SizePending'
  BY <1>0, <1>7 DEF SizePending, files
<1>13. WritesBelow'
  <2>1. ASSUME NEW i \in 1 .. Len(t.child_list[opb])
        PROVE  t.child_list[opb][i] < branch_n
    <3>1. t.child_list[opb][i] \in Findex /\ t.parent[t.child_list[opb][i]] = opb
      <4>1. opb \in Findex
        BY <1>1
      <4> QED BY <1>5, <4>1, PosUnique
    <3>2. bid[t.child_list[opb][i]] # 0
      BY <1>1, <1>2, <1>4, <1>6, <3>1
    <3> QED BY <3>1, <3>2, LiveBelow
  <2>2. b < branch_n /\ opb < branch_n
    <3>1. bid[opb] # 0
      BY <1>0, <1>1, <1>2, <1>6, <1>t
    <3> QED BY <1>0, <1>1, <3>1, LiveBelow
  <2>3. ASSUME NEW w, In(todo', w)
        PROVE  w.at < branch_n
    BY <1>9, <2>1, <2>2, <2>3, WriteFields
  <2> QED BY <1>0, <2>3 DEF WritesBelow, In
<1>14. IdsKept'
  BY <1>0, <1>4 DEF RecordInv, IdsKept, files
<1>15. ParentData'
  <2> SUFFICES ASSUME NEW g \in Findex, t.parent[g] # NULL
               PROVE  text[t.parent[g]] # NoData /\ row[bid'[t.parent[g]]] # NoData
    BY <1>0, <1>t DEF ParentData, files
  <2>1. t.parent[g] = tree.parent[g] /\ tree.parent[g] \in Findex \ {b}
    BY <1>4, <1>6
  <2> QED BY <1>4, <2>1 DEF RecordInv, ParentData
<1> QED BY <1>0, <1>10, <1>11, <1>12, <1>13, <1>14, <1>15, FilesOnly DEF RecordInv

LEMMA UpdateRecords ==
  ASSUME TypeOK, MemoryInv, StoreInv, RecordInv, NEW f, NEW txt, Updates(f, txt)
  PROVE  RecordInv'
<1>0. /\ up = "run" /\ Ready /\ f \in Findex /\ bid[f] # 0 /\ txt \in Texts
      /\ text' = [text EXCEPT ![f] = txt] /\ todo' = <<DataWrite(f)>>
      /\ UNCHANGED <<up, branch_n, root, tree, bid, index, files>>
  BY DEF Updates, Ready
<1>1. text \in [Findex -> Texts \cup {NoData}] /\ NoData \notin Texts
      /\ tree.parent \in [Findex -> Findex \cup {NULL}]
  BY TextsAssumption DEF TypeOK, Trees
<1>2. /\ \A x \in Findex : bid[x] # 0 => bhead[x] = Record(tree, bid, x) /\ row[bid[x]] = text[x]
      /\ filesize = branch_n
  BY <1>0, ReadyRecords
<1>3. text'[f] = txt /\ \A x \in Findex \ {f} : text'[x] = text[x]
  BY <1>0, <1>1
<1>4. HeadsPending' /\ SizePending' /\ IdsKept'
  BY <1>0, <1>2 DEF RecordInv, HeadsPending, SizePending, IdsKept, files
<1>5. Len(todo') = 1 /\ todo'[1] = DataWrite(f) /\ 1 .. 1 = {1}
  BY <1>0
<1>6. RowsPending'
  <2> SUFFICES ASSUME NEW g \in Findex, bid[g] # 0
               PROVE  (\E i \in 1 .. Len(todo') : todo'[i] = DataWrite(g)) \/ row[bid[g]] = text'[g]
    BY <1>0 DEF RowsPending, Pending, files
  <2> QED BY <1>2, <1>3, <1>5
<1>7. WritesBelow'
  BY <1>0, <1>5, LiveBelow, WriteFields DEF WritesBelow
<1>8. ParentData'
  <2> SUFFICES ASSUME NEW g \in Findex, tree.parent[g] # NULL
               PROVE  text'[tree.parent[g]] # NoData /\ row[bid[tree.parent[g]]] # NoData
    BY <1>0 DEF ParentData, files
  <2> QED BY <1>0, <1>1, <1>3 DEF RecordInv, ParentData
<1> QED BY <1>0, <1>4, <1>6, <1>7, <1>8, FilesOnly DEF RecordInv

-----------------------------------------------------------------------------
(* RecordInv is inductive: writes, crashes and loading. *)

LEMMA TailIn ==
  ASSUME NEW S, NEW s \in Seq(S), s # <<>>, NEW x
  PROVE  /\ In(s, x) => x = s[1] \/ In(Tail(s), x)
         /\ In(Tail(s), x) => In(s, x)
<1> DEFINE u == Tail(s)
           n == Len(s)
<1>1. n \in Nat /\ n # 0
  BY LenProperties, EmptySeq
<1>2. Len(u) = n - 1 /\ \A i \in 1 .. n - 1 : u[i] = s[i + 1]
  BY HeadTailProperties
<1> HIDE DEF u
<1>3. ASSUME NEW i \in 1 .. n, s[i] = x, i # 1
      PROVE  \E j \in 1 .. n - 1 : u[j] = x
  <2>1. i - 1 \in 1 .. n - 1 /\ (i - 1) + 1 = i
    BY <1>1, <1>3
  <2> HIDE DEF n
  <2> QED BY <1>2, <1>3, <2>1
<1>4. ASSUME NEW j \in 1 .. n - 1, u[j] = x
      PROVE  \E i \in 1 .. n : s[i] = x
  <2>1. j + 1 \in 1 .. n
    BY <1>1
  <2> HIDE DEF n
  <2> QED BY <1>2, <1>4, <2>1
<1> HIDE DEF n
<1>5. /\ (\E i \in 1 .. n : s[i] = x) => x = s[1] \/ \E j \in 1 .. n - 1 : u[j] = x
      /\ (\E j \in 1 .. n - 1 : u[j] = x) => \E i \in 1 .. n : s[i] = x
  BY <1>3, <1>4
<1> QED BY <1>2, <1>5 DEF In, u, n

LEMMA FlushRecords ==
  ASSUME TypeOK, MemoryInv, StoreInv, RecordInv, Flush
  PROVE  RecordInv'
<1>1. todo \in Seq(Writes) /\ todo # <<>> /\ up = "run" /\ todo' = Tail(todo)
      /\ UNCHANGED <<up, branch_n, root, tree, bid, text>>
  BY DEF Flush, TypeOK, memory
<1>w. PICK w, f : w = todo[1] /\ w = Head(todo) /\ f = w.at
  BY <1>1, HeadTailProperties
<1>2. w \in Writes /\ f \in Findex /\ w = [kind |-> w.kind, at |-> f]
  <2>1. w \in Writes
    BY <1>1, <1>w, HeadTailProperties
  <2> QED BY <1>w, <2>1 DEF Writes
<1>3. \/ /\ w.kind = "head"
         /\ bhead' = [bhead EXCEPT ![f] = Record(tree, bid, f)]
         /\ filesize' = IF f < filesize THEN filesize ELSE f + 1
         /\ row' = row
      \/ /\ w.kind = "data"
         /\ row' = [row EXCEPT ![bid[f]] = text[f]]
         /\ bhead' = bhead /\ filesize' = filesize
  BY <1>w DEF Flush
<1>4. /\ bid \in [Findex -> Ids] /\ bhead \in [Findex -> Records]
      /\ row \in [Ids -> Texts \cup {NoData}] /\ NULL \notin Findex
      /\ tree.parent \in [Findex -> Findex \cup {NULL}]
  BY NullNotFindex DEF TypeOK, Trees
<1>5. \A x : (In(todo, x) => x = w \/ In(todo', x)) /\ (In(todo', x) => In(todo, x))
  BY <1>1, <1>w, TailIn
<1>6. \A g, h \in Findex : bid[g] # 0 /\ bid[g] = bid[h] => g = h
  BY <1>4 DEF StoreInv, IndexExact
<1>7. \A g \in Findex : tree.parent[g] # NULL => tree.parent[g] \in Findex /\ bid[tree.parent[g]] # 0
  BY <1>4 DEF StoreInv, LiveInv
<1>8. \A g \in Findex :
        /\ bhead'[g].id = bid[g]
        /\ bhead'[g].parent_id = IF tree.parent[g] = NULL THEN 0 ELSE bid[tree.parent[g]]
  <2>1. AllCurrent'
    BY FlushEdges
  <2> QED BY <1>1, <2>1 DEF AllCurrent
<1>9. \A g \in Findex : bhead'[g] = bhead[g] \/ bhead'[g] = Record(tree, bid, g)
  BY <1>2, <1>3, <1>4
<1>10. \A g \in Findex : w = HeadWrite(g) => bhead'[g] = Record(tree, bid, g)
  <2> SUFFICES ASSUME NEW g \in Findex, w = HeadWrite(g)
               PROVE  bhead'[g] = Record(tree, bid, g)
    OBVIOUS
  <2>1. w.kind = "head" /\ f = g
    BY <1>w DEF HeadWrite
  <2> QED BY <1>3, <1>4, <2>1
<1>11. \A g \in Findex : bid[g] # 0 =>
         /\ w = DataWrite(g) => row'[bid[g]] = text[g]
         /\ row'[bid[g]] = row[bid[g]] \/ row'[bid[g]] = text[g]
  <2> SUFFICES ASSUME NEW g \in Findex, bid[g] # 0
               PROVE  /\ w = DataWrite(g) => row'[bid[g]] = text[g]
                      /\ row'[bid[g]] = row[bid[g]] \/ row'[bid[g]] = text[g]
    OBVIOUS
  <2>1. CASE w.kind = "head"
    BY <1>3, <2>1 DEF DataWrite
  <2>2. CASE w.kind # "head"
    <3>1. row' = [row EXCEPT ![bid[f]] = text[f]]
      BY <1>3, <2>2
    <3>2. w = DataWrite(g) => f = g
      BY <1>w DEF DataWrite
    <3>3. row'[bid[g]] = IF bid[g] = bid[f] THEN text[f] ELSE row[bid[g]]
      BY <1>4, <3>1
    <3>4. bid[g] = bid[f] => g = f
      BY <1>2, <1>6
    <3> QED BY <3>2, <3>3, <3>4
  <2> QED BY <2>1, <2>2
<1>12. HeadsPending'
  <2> SUFFICES ASSUME NEW g \in Findex, bid[g] # 0
               PROVE  In(todo', HeadWrite(g)) \/ bhead'[g] = Record(tree, bid, g)
    BY <1>1 DEF HeadsPending, Pending, In
  <2>1. In(todo, HeadWrite(g)) \/ bhead[g] = Record(tree, bid, g)
    BY <1>1 DEF RecordInv, HeadsPending, Pending, In
  <2> QED BY <1>5, <1>9, <1>10, <2>1
<1>13. RowsPending'
  <2> SUFFICES ASSUME NEW g \in Findex, bid[g] # 0
               PROVE  In(todo', DataWrite(g)) \/ row'[bid[g]] = text[g]
    BY <1>1 DEF RowsPending, Pending, In
  <2>1. In(todo, DataWrite(g)) \/ row[bid[g]] = text[g]
    BY <1>1 DEF RecordInv, RowsPending, Pending, In
  <2> QED BY <1>5, <1>11, <2>1
<1>14. SizePending'
  <2>1. f < branch_n /\ f \in Nat /\ branch_n \in Nat /\ filesize \in Nat
    <3>1. Len(todo) \in Nat /\ Len(todo) # 0
      BY <1>1, LenProperties, EmptySeq
    <3>2. 1 \in 1 .. Len(todo)
      BY <3>1
    <3>3. todo[1].at < branch_n
      BY <3>2 DEF RecordInv, WritesBelow
    <3>4. f \in Nat /\ branch_n \in Nat /\ filesize \in Nat
      BY <1>2 DEF Findex, TypeOK
    <3> QED BY <1>w, <3>3, <3>4
  <2>2. CASE filesize = branch_n
    <3>1. filesize' = branch_n
      BY <1>3, <2>1, <2>2
    <3> QED BY <1>1, <3>1 DEF SizePending
  <2>3. CASE filesize = branch_n - 1 /\ w = HeadWrite(filesize)
    <3>1. w.kind = "head" /\ f = filesize
      BY <1>w, <2>3 DEF HeadWrite
    <3>2. filesize' = f + 1
      BY <1>3, <2>1, <3>1
    <3>3. filesize' = branch_n
      BY <2>1, <2>3, <3>1, <3>2
    <3> QED BY <1>1, <3>3 DEF SizePending
  <2> QED BY <1>1, <1>w, <2>2, <2>3 DEF RecordInv, SizePending
<1>15. WritesBelow'
  <2>1. \A x : In(todo, x) => x.at < branch_n
    BY DEF RecordInv, WritesBelow, In
  <2>2. \A x : In(todo', x) => x.at < branch_n
    BY <1>5, <2>1
  <2> QED BY <1>1, <2>2 DEF WritesBelow, In
<1>16. IdsKept'
  BY <1>1, <1>8 DEF IdsKept
<1>17. ParentData'
  <2> SUFFICES ASSUME NEW g \in Findex, tree.parent[g] # NULL
               PROVE  text[tree.parent[g]] # NoData /\ row'[bid[tree.parent[g]]] # NoData
    BY <1>1 DEF ParentData
  <2>1. text[tree.parent[g]] # NoData /\ row[bid[tree.parent[g]]] # NoData
    BY DEF RecordInv, ParentData
  <2> QED BY <1>7, <1>11, <2>1
<1>18. ParentRows'
  <2> SUFFICES ASSUME NEW h \in Findex, NEW g \in Findex, bhead'[h].id # 0,
                      bhead'[g].parent_id = bhead'[h].id
               PROVE  row'[bhead'[h].id] # NoData
    BY DEF ParentRows
  <2>1. tree.parent[g] # NULL /\ bhead'[h].id = bid[tree.parent[g]]
    BY <1>8
  <2> QED BY <1>1, <1>17, <2>1 DEF ParentData
<1>19. RootPos'
  <2> SUFFICES ASSUME NEW g \in Findex, bhead'[g].parent_id = 0
               PROVE  bhead'[g].pos = 0
    BY DEF RootPos
  <2>1. CASE bhead'[g] = bhead[g]
    BY <2>1 DEF RecordInv, RootPos
  <2>2. CASE bhead'[g] = Record(tree, bid, g)
    <3>1. tree.parent[g] = NULL
      BY <1>7, <1>8
    <3> QED BY <2>2, <3>1 DEF Record
  <2> QED BY <1>9, <2>1, <2>2
<1> QED BY <1>12, <1>13, <1>14, <1>15, <1>16, <1>17, <1>18, <1>19 DEF RecordInv

LEMMA LoadRecords ==
  ASSUME TypeOK, MemoryInv, StoreInv, RecordInv, Loads
  PROVE  RecordInv'
<1>0. FileInv
  BY DEF StoreInv
<1>1. /\ Orphans = {} /\ SlotsFit /\ Unlisted = {} /\ up = "down" /\ up' = "run"
      /\ branch_n' = filesize /\ tree' = LoadedTree
      /\ bid' = [f \in Findex |-> IF f \in Used THEN bhead[f].id ELSE 0]
      /\ text' = [f \in Findex |-> IF f \in Used THEN row[bhead[f].id] ELSE NoData]
      /\ UNCHANGED <<todo, files>>
  BY DEF Loads, Load, LoadedCount
<1>2. todo' = <<>> /\ bhead' = bhead /\ filesize' = filesize /\ row' = row
  BY <1>1 DEF RecordInv, WritesBelow, files
<1>3. \A f \in Findex : (f \in Used <=> bhead[f].id # 0) /\ bid'[f] = bhead[f].id
                        /\ (f \in Used => text'[f] = row[bhead[f].id])
  BY <1>0, <1>1, UsedRecords
<1>t. PICK t : t = tree'
  OBVIOUS
<1>4. /\ t \in Trees /\ Linked(t) /\ t.parent = FileParents
      /\ \A p \in Used : Len(t.child_list[p]) = bhead[p].child_n
      /\ \A c \in Used : LoadedParent(c) # NULL =>
           /\ bhead[c].pos + 1 \in 1 .. Len(t.child_list[LoadedParent(c)])
           /\ t.child_list[LoadedParent(c)][bhead[c].pos + 1] = c
  BY <1>1, <1>t, LoadedTreeProperties DEF FileParents
<1>5. /\ FileParents \in [Findex -> Findex \cup {NULL}]
      /\ \A f \in Findex : FileParents[f] = LoadedParent(f)
      /\ \A f \in Findex : FileParents[f] # NULL =>
           /\ bhead[f].id # 0 /\ bhead[f].parent_id # 0
           /\ FileParents[f] \in Findex /\ bhead[FileParents[f]].id = bhead[f].parent_id
      /\ \A f \in Findex : FileParents[f] = NULL => bhead[f].parent_id = 0
  BY <1>0, FileParentsType DEF FileParents
<1>6. HeadsPending'
  <2> SUFFICES ASSUME NEW g \in Findex, bid'[g] # 0
               PROVE  bhead[g] = Record(t, bid', g)
    BY <1>2, <1>t DEF HeadsPending
  <2>1. g \in Used /\ bhead[g] \in Records /\ bid'[g] = bhead[g].id
    BY <1>3 DEF TypeOK
  <2>2. Len(t.child_list[g]) = bhead[g].child_n
    BY <1>4, <2>1
  <2>3. CASE FileParents[g] = NULL
    <3>1. bhead[g].parent_id = 0 /\ bhead[g].pos = 0 /\ t.parent[g] = NULL
      BY <1>4, <1>5, <2>3 DEF RecordInv, RootPos
    <3> QED BY <2>1, <2>2, <3>1 DEF Record, Records
  <2>4. CASE FileParents[g] # NULL
    <3>1. PICK p \in Findex : p = FileParents[g] /\ t.parent[g] = p /\ LoadedParent(g) = p
      BY <1>4, <1>5, <2>4
    <3>2. PICK i \in 1 .. Len(t.child_list[p]) : i = bhead[g].pos + 1 /\ t.child_list[p][i] = g
      BY <1>4, <1>5, <2>1, <2>4, <3>1
    <3>3. t \in Trees /\ Linked(t)
      BY <1>4
    <3>4. branch_get_pos(t, t.child_list[p][i]) = i - 1
      BY <3>3, PosUnique
    <3>5. uint16(branch_get_pos(t, g)) = bhead[g].pos
      <4>1. bhead[g].pos \in 0 .. UINT16_MAX /\ UINT16_MAX \in Nat
        BY <2>1, UintNat DEF Records
      <4>2. branch_get_pos(t, g) = bhead[g].pos
        BY <3>2, <3>4, <4>1
      <4> QED BY <4>1, <4>2, UintType
    <3>6. bid'[p] = bhead[g].parent_id /\ t.parent[g] # NULL
      BY <1>3, <1>5, <2>4, <3>1
    <3> QED BY <2>1, <2>2, <3>1, <3>5, <3>6 DEF Record, Records
  <2> QED BY <2>3, <2>4
<1>7. RowsPending'
  BY <1>2, <1>3 DEF RowsPending
<1>8. SizePending' /\ IdsKept'
  BY <1>1, <1>2, <1>3 DEF SizePending, IdsKept
<1>9. WritesBelow'
  BY <1>1, <1>2 DEF WritesBelow
<1>10. ParentData'
  <2> SUFFICES ASSUME NEW g \in Findex, t.parent[g] # NULL
               PROVE  text'[t.parent[g]] # NoData /\ row[bid'[t.parent[g]]] # NoData
    BY <1>2, <1>t DEF ParentData
  <2>1. PICK p \in Findex : p = t.parent[g] /\ bhead[p].id = bhead[g].parent_id /\ bhead[p].id # 0
    BY <1>4, <1>5
  <2>2. row[bhead[p].id] # NoData
    BY <2>1 DEF RecordInv, ParentRows
  <2> QED BY <1>3, <2>1, <2>2
<1> QED BY <1>1, <1>6, <1>7, <1>8, <1>9, <1>10, FilesOnly DEF RecordInv

LEMMA RecordInit == Init => RecordInv
<1> SUFFICES ASSUME Init PROVE RecordInv
  OBVIOUS
<1>1. /\ up = "run" /\ branch_n = 1 /\ tree = EmptyTree
      /\ bid = [f \in Findex |-> IF f = 0 THEN RootId ELSE 0]
      /\ todo = <<HeadWrite(0), DataWrite(0)>>
      /\ bhead = [f \in Findex |-> ZeroRecord] /\ filesize = 0
  BY DEF Init
<1>2. Len(todo) = 2 /\ todo[1] = HeadWrite(0) /\ todo[2] = DataWrite(0) /\ 1 .. 2 = {1, 2} /\ todo # <<>>
  BY <1>1
<1>3. \A f \in Findex : bid[f] # 0 => f = 0
  BY <1>1
<1>4. HeadsPending /\ RowsPending
  <2>1. Pending(HeadWrite(0)) /\ Pending(DataWrite(0))
    BY <1>2 DEF Pending
  <2> QED BY <1>3, <2>1 DEF HeadsPending, RowsPending
<1>5. SizePending
  BY <1>1, <1>2 DEF SizePending
<1>6. WritesBelow
  <2>1. todo[1].at = 0 /\ todo[2].at = 0
    BY <1>2, WriteFields
  <2> QED BY <1>1, <1>2, <2>1 DEF WritesBelow
<1>7. IdsKept
  BY <1>1, <1>3 DEF IdsKept
<1>8. ParentRows /\ RootPos
  BY <1>1 DEF ParentRows, RootPos, ZeroRecord
<1>9. ParentData
  BY <1>1 DEF ParentData, EmptyTree
<1> QED BY <1>4, <1>5, <1>6, <1>7, <1>8, <1>9 DEF RecordInv

LEMMA RecordNext ==
  ASSUME ClientsBehave
  PROVE  TypeOK /\ MemoryInv /\ StoreInv /\ RecordInv /\ [Next]_vars /\ intact' => RecordInv'
<1> SUFFICES ASSUME TypeOK, MemoryInv, StoreInv, RecordInv, [Next]_vars, intact'
             PROVE  RecordInv'
  OBVIOUS
<1>0. Shapes
  BY StepShapes
<1>1. CASE Crash
  <2>1. tree' = EmptyTree /\ up' = "down" /\ todo' = <<>> /\ UNCHANGED files
    BY <1>1 DEF Crash, NoMemory
  <2>2. ParentData'
    BY <2>1 DEF ParentData, EmptyTree
  <2>3. /\ HeadsPending' /\ RowsPending' /\ SizePending' /\ IdsKept'
    BY <2>1 DEF HeadsPending, RowsPending, SizePending, IdsKept
  <2>4. WritesBelow'
    BY <2>1 DEF WritesBelow
  <2> QED BY <2>1, <2>2, <2>3, <2>4, FilesOnly DEF RecordInv
<1>2. CASE Rests
  <2>1. UNCHANGED <<up, branch_n, tree, bid, text, todo, files>>
    BY <1>2 DEF Rests, memory
  <2>2. HeadsPending' /\ RowsPending' /\ SizePending' /\ WritesBelow' /\ IdsKept'
    BY <2>1 DEF RecordInv, HeadsPending, RowsPending, SizePending, WritesBelow, IdsKept, Pending, files
  <2>3. ParentData'
    BY <2>1 DEF RecordInv, ParentData, files
  <2> QED BY <2>1, <2>2, <2>3, FilesOnly DEF RecordInv
<1>3. CASE Sleeps
  <2>1. up # "run" /\ up' # "run" /\ UNCHANGED <<branch_n, tree, bid, text, todo, files>>
    BY <1>3 DEF Sleeps, memory
  <2>2. HeadsPending' /\ RowsPending' /\ SizePending' /\ IdsKept'
    BY <2>1 DEF HeadsPending, RowsPending, SizePending, IdsKept
  <2>3. WritesBelow'
    BY <2>1 DEF RecordInv, WritesBelow
  <2>4. ParentData'
    BY <2>1 DEF RecordInv, ParentData, files
  <2> QED BY <2>1, <2>2, <2>3, <2>4, FilesOnly DEF RecordInv
<1> QED
  BY <1>0, <1>1, <1>2, <1>3, InsertRecords, MoveRecords, DeleteRecords, UpdateRecords,
     FlushRecords, LoadRecords DEF Shapes

LEMMA RecordInvariant ==
  ASSUME ClientsBehave
  PROVE  Spec => [](intact => RecordInv)
<1>1. Init => RecordInv
  BY RecordInit
<1>2. TypeOK /\ MemoryInv /\ StoreInv /\ RecordInv /\ [Next]_vars /\ intact' => RecordInv'
  BY RecordNext
<1> QED BY <1>1, <1>2, SoundInvariant, StoreInvariant, IntactKept, PTL DEF Spec

-----------------------------------------------------------------------------
(* What follows. *)

\* While clients send no id 0 and delete no branch with several children, and if every load
\* finds each slot claimed once, a record that io_save_branch_head has written for a branch
\* is never given to another one: the findex of a deleted branch stays free.
THEOREM NumbersKept ==
  ASSUME ClientsBehave
  PROVE  Spec /\ []intact => RecordsNeverReused
<1> DEFINE Kept == \A f \in Findex : f < filesize /\ bhead'[f].id # bhead[f].id => bhead'[f].id = 0
<1>1. TypeOK /\ MemoryInv /\ StoreInv /\ RecordInv /\ [Next]_vars /\ intact' => [Kept]_vars
  <2> SUFFICES ASSUME TypeOK, MemoryInv, StoreInv, RecordInv, [Next]_vars, intact',
                      NEW f \in Findex, f < filesize, bhead'[f].id # bhead[f].id
               PROVE  bhead'[f].id = 0
    OBVIOUS
  <2>1. bhead' # bhead
    OBVIOUS
  <2>2. Flush
    <3>1. Shapes
      BY StepShapes
    <3> QED BY <2>1, <3>1 DEF Shapes, Inserts, insert, Moves, move, Deletes, Updates, Rests, Sleeps,
                              Crash, Loads, Load, files
  <2>3. bhead'[f].id = bid'[f] /\ bid' = bid /\ up = "run"
    <3>1. AllCurrent'
      BY <2>2, FlushEdges
    <3> QED BY <2>2, <3>1 DEF AllCurrent, Flush, memory
  <2>4. ~(f >= filesize)
    <3>1. f \in Int /\ filesize \in Int
      BY DEF Findex, TypeOK
    <3> QED BY <3>1
  <2> QED BY <2>3, <2>4 DEF RecordInv, IdsKept
<1> QED BY <1>1, SoundInvariant, StoreInvariant, RecordInvariant, PTL DEF Spec, RecordsNeverReused

\* Under the same conditions a branch whose row a crash lost has no children, so that no
\* operation on a loaded map follows a data pointer that is NULL from a child upwards.
THEOREM DatalessLeaves ==
  ASSUME ClientsBehave
  PROVE  Spec => [](intact => DatalessAreLeaves)
<1>1. TypeOK /\ MemoryInv /\ RecordInv => DatalessAreLeaves
  <2> SUFFICES ASSUME TypeOK, MemoryInv, RecordInv, NEW f \in Findex, text[f] = NoData,
                      tree.child_list[f] # <<>>
               PROVE  FALSE
    BY DEF DatalessAreLeaves
  <2>1. tree \in Trees /\ Linked(tree) /\ tree.child_list[f] \in Seq(Findex)
    BY DEF TypeOK, Trees, MemoryInv, BlankInv
  <2>2. 1 \in 1 .. Len(tree.child_list[f])
    <3>1. Len(tree.child_list[f]) \in Nat /\ Len(tree.child_list[f]) # 0
      BY <2>1, LenProperties, EmptySeq
    <3> QED BY <3>1
  <2>3. tree.child_list[f][1] \in Findex /\ tree.parent[tree.child_list[f][1]] = f
    BY <2>1, <2>2, PosUnique
  <2>4. f # NULL
    BY NullNotFindex
  <2> QED BY <2>3, <2>4 DEF RecordInv, ParentData
<1> QED BY <1>1, SoundInvariant, StoreInvariant, RecordInvariant, PTL

LEMMA ReloadedMap ==
  TypeOK /\ MemoryInv /\ StoreInv /\ TreeInv /\ RecordInv => ReloadRestores
<1> SUFFICES ASSUME TypeOK, MemoryInv, StoreInv, TreeInv, RecordInv, Ready
             PROVE  /\ Orphans = {} /\ Roots = {root} /\ SlotsFit /\ Unlisted = {}
                    /\ filesize = branch_n
                    /\ \A f \in Findex : bid[f] = IF f \in Used THEN bhead[f].id ELSE 0
                    /\ LoadedTree.parent = tree.parent /\ LoadedTree.total = tree.total
                    /\ \A f \in Used : LoadedTree.child_list[f] = tree.child_list[f]
                    /\ \A f \in Used : text[f] = row[bid[f]]
  BY DEF ReloadRestores
<1>1. AllCurrent
  BY ReadyCurrent DEF AllCurrent, Ready, StoreInv
<1>2. Rooted /\ TotalsKept /\ FileRooted /\ FileInv
  BY DEF TreeInv, StoreInv
<1>3. /\ Used = {f \in Findex : bid[f] # 0} /\ FileParents = tree.parent
      /\ Roots = {root}
  BY <1>1, <1>2, CurrentFiles
<1>4. /\ \A x \in Findex : bid[x] # 0 => bhead[x] = Record(tree, bid, x) /\ row[bid[x]] = text[x]
      /\ filesize = branch_n
  BY ReadyRecords
<1>5. /\ tree \in Trees /\ Linked(tree) /\ tree.parent \in [Findex -> Findex \cup {NULL}]
      /\ NULL \notin Findex
  BY NullNotFindex DEF TypeOK, Trees, MemoryInv, BlankInv
<1>6. \A f \in Findex : LoadedParent(f) = tree.parent[f]
  BY <1>3 DEF FileParents
<1>7. Orphans = {}
  <2> SUFFICES ASSUME NEW f \in Used, bhead[f].parent_id # 0
               PROVE  Found(bhead[f].parent_id) # {}
    BY DEF Orphans
  <2>1. PICK g \in Findex : bhead[g].id = bhead[f].parent_id
    BY <1>2, <1>3 DEF FileInv
  <2>2. g \in Used
    BY <1>2, <2>1, UsedRecords
  <2> QED BY <2>1, <2>2 DEF Found
<1>8. \A f \in Used : /\ bhead[f].child_n = Len(tree.child_list[f])
                      /\ tree.parent[f] # NULL => bhead[f].pos = branch_get_pos(tree, f)
  <2> TAKE f \in Used
  <2>1. bhead[f] = Record(tree, bid, f)
    BY <1>3, <1>4
  <2>2. /\ Record(tree, bid, f).child_n = Len(tree.child_list[f])
        /\ tree.parent[f] # NULL => Record(tree, bid, f).pos = uint16(branch_get_pos(tree, f))
    BY DEF Record
  <2>3. ASSUME tree.parent[f] # NULL
        PROVE  uint16(branch_get_pos(tree, f)) = branch_get_pos(tree, f)
    <3>1. f \in Findex /\ tree.parent[f] \in Findex
      BY <1>3, <1>5, <2>3
    <3> QED BY <1>5, <3>1, PosFits
  <2> QED BY <2>1, <2>2, <2>3
<1>9. ASSUME NEW f \in Used, tree.parent[f] # NULL
      PROVE  /\ tree.parent[f] \in Used
             /\ bhead[f].pos \in 0 .. Len(tree.child_list[tree.parent[f]]) - 1
             /\ tree.child_list[tree.parent[f]][bhead[f].pos + 1] = f
  <2>1. f \in Findex /\ tree.parent[f] \in Findex /\ bid[tree.parent[f]] # 0
    BY <1>3, <1>5, <1>9 DEF StoreInv, LiveInv
  <2>2. /\ branch_get_pos(tree, f) \in 0 .. Len(tree.child_list[tree.parent[f]]) - 1
        /\ tree.child_list[tree.parent[f]][branch_get_pos(tree, f) + 1] = f
    BY <1>5, <2>1, PosProperties
  <2> QED BY <1>3, <1>8, <1>9, <2>1, <2>2
<1>10. ASSUME NEW p \in Used, NEW i \in 0 .. bhead[p].child_n - 1
       PROVE  Filling(p, i) = {tree.child_list[p][i + 1]}
  <2>1. p \in Findex /\ bhead[p].child_n = Len(tree.child_list[p]) /\ Len(tree.child_list[p]) \in Nat
    BY <1>3, <1>5, <1>8, LenProperties DEF Trees
  <2>2. PICK k \in 1 .. Len(tree.child_list[p]) : k = i + 1
    BY <1>10, <2>1
  <2>3. PICK c : c = tree.child_list[p][k]
    OBVIOUS
  <2>4. c \in Findex /\ tree.parent[c] = p /\ branch_get_pos(tree, c) = k - 1
    <3>1. /\ tree.child_list[p][k] \in Findex /\ tree.parent[tree.child_list[p][k]] = p
          /\ branch_get_pos(tree, tree.child_list[p][k]) = k - 1
      BY <1>5, <2>1, PosUnique
    <3> QED BY <2>3, <3>1
  <2>5. c \in Used /\ LoadedParent(c) = p /\ bhead[c].pos = i
    <3>1. bid[c] # 0 /\ tree.parent[c] # NULL
      BY <1>5, <2>1, <2>4 DEF StoreInv, LiveInv
    <3>2. k - 1 = i
      BY <2>1, <2>2
    <3> QED BY <1>3, <1>6, <1>8, <2>4, <3>1, <3>2
  <2>6. ASSUME NEW f \in Used, LoadedParent(f) = p, bhead[f].pos = i
        PROVE  f = c
    <3>1. tree.parent[f] = p /\ tree.parent[f] # NULL
      BY <1>3, <1>5, <1>6, <2>1, <2>6
    <3>2. tree.child_list[p][i + 1] = f
      BY <1>9, <2>6, <3>1
    <3> QED BY <2>2, <2>3, <3>2
  <2>7. Filling(p, i) = {c}
    BY <2>5, <2>6 DEF Filling
  <2> QED BY <2>2, <2>3, <2>7
<1>11. SlotsFit
  <2>1. ASSUME NEW f \in Used, LoadedParent(f) # NULL
        PROVE  bhead[f].pos < bhead[LoadedParent(f)].child_n
    <3>1. PICK p \in Used : /\ LoadedParent(f) = p
                            /\ bhead[f].pos \in 0 .. Len(tree.child_list[p]) - 1
      BY <1>3, <1>6, <1>9, <2>1
    <3>2. bhead[p].child_n = Len(tree.child_list[p]) /\ Len(tree.child_list[p]) \in Nat
      BY <1>3, <1>5, <1>8, LenProperties DEF Trees
    <3> QED BY <3>1, <3>2
  <2>2. \A p \in Used : \A i \in 0 .. bhead[p].child_n - 1 : Filling(p, i) # {}
    BY <1>10
  <2> QED BY <2>1, <2>2 DEF SlotsFit
<1>16. ASSUME NEW p \in Used, NEW i \in 0 .. bhead[p].child_n - 1
       PROVE  Slot(p, i) = tree.child_list[p][i + 1]
  <2>1. p \in Findex /\ bhead[p].child_n = Len(tree.child_list[p]) /\ Len(tree.child_list[p]) \in Nat
    BY <1>3, <1>5, <1>8, LenProperties DEF Trees
  <2>2. PICK k \in 1 .. Len(tree.child_list[p]) : k = i + 1
    BY <1>16, <2>1
  <2>3. PICK c : c = tree.child_list[p][k]
    OBVIOUS
  <2>4. c \in Int
    <3>1. tree.child_list[p][k] \in Findex
      BY <1>5, <2>1, PosUnique
    <3> QED BY <2>3, <3>1 DEF Findex
  <2>5. Filling(p, i) = {c} /\ c <= c
    BY <1>10, <2>2, <2>3, <2>4
  <2>6. (CHOOSE f \in {c} : \A g \in {c} : g <= f) = c
    BY <2>5
  <2> QED BY <2>2, <2>3, <2>5, <2>6 DEF Slot
<1>17. Unlisted = {}
  <2> SUFFICES ASSUME NEW f \in Used, LoadedParent(f) # NULL
               PROVE  Slot(LoadedParent(f), bhead[f].pos) = f
    BY DEF Unlisted
  <2>1. PICK p \in Used : /\ LoadedParent(f) = p
                          /\ bhead[f].pos \in 0 .. Len(tree.child_list[p]) - 1
                          /\ tree.child_list[p][bhead[f].pos + 1] = f
    BY <1>3, <1>6, <1>9
  <2>2. bhead[f].pos \in 0 .. bhead[p].child_n - 1
    BY <1>8, <2>1
  <2> QED BY <1>16, <2>1, <2>2
<1>12. LoadedTree.parent = tree.parent
  BY <1>3 DEF LoadedTree, FileParents
<1>13. ASSUME NEW p \in Used
       PROVE  LoadedTree.child_list[p] = tree.child_list[p]
  <2>1. p \in Findex /\ bhead[p].child_n = Len(tree.child_list[p]) /\ Len(tree.child_list[p]) \in Nat
        /\ tree.child_list[p] \in Seq(Findex)
    BY <1>3, <1>5, <1>8, LenProperties DEF Trees
  <2>2. LoadedTree.child_list[p]
          = [i \in 1 .. bhead[p].child_n |-> Slot(p, i - 1)]
    BY <2>1 DEF LoadedTree
  <2>3. ASSUME NEW i \in 1 .. Len(tree.child_list[p])
        PROVE  Slot(p, i - 1) = tree.child_list[p][i]
    <3>1. i - 1 \in 0 .. bhead[p].child_n - 1 /\ (i - 1) + 1 = i
      BY <2>1
    <3>2. Slot(p, i - 1) = tree.child_list[p][(i - 1) + 1]
      BY <1>16, <3>1
    <3> QED BY <3>1, <3>2
  <2>4. tree.child_list[p] = [i \in 1 .. Len(tree.child_list[p]) |-> tree.child_list[p][i]]
    <3>1. DOMAIN tree.child_list[p] = 1 .. Len(tree.child_list[p])
          /\ tree.child_list[p] \in [1 .. Len(tree.child_list[p]) -> Findex]
      BY <2>1, LenProperties
    <3> QED BY <3>1
  <2> QED BY <2>1, <2>2, <2>3, <2>4
<1>14. LoadedTree.total = tree.total
  <2>1. LoadedTree.total = branch_calculate(FileParents)
    BY DEF LoadedTree, FileParents
  <2>2. ASSUME NEW h \in Findex
        PROVE  branch_calculate(FileParents)[h] = tree.total[h]
    <3>1. branch_calculate(FileParents)[h]
            = Cardinality({g \in Findex : h \in Ancestors(FileParents, g)})
      BY <1>2, <1>3, <1>17, Calculated
    <3>2. tree.total[h] = Cardinality({g \in Findex : h \in Ancestors(tree.parent, g)})
      BY <1>2 DEF TotalsKept, Descendants
    <3> QED BY <1>3, <3>1, <3>2
  <2>3. tree.total \in [Findex -> Int]
    BY <1>5 DEF Trees
  <2>4. branch_calculate(FileParents) = [h \in Findex |-> branch_calculate(FileParents)[h]]
    BY DEF branch_calculate
  <2> QED BY <2>1, <2>2, <2>3, <2>4
<1>15. \A f \in Findex : bid[f] = IF f \in Used THEN bhead[f].id ELSE 0
  BY <1>1, <1>3 DEF AllCurrent
<1> QED BY <1>3, <1>4, <1>7, <1>11, <1>12, <1>13, <1>14, <1>15, <1>17

\* Under the same conditions the files are complete between operations, whatever crashes
\* and reloads went before: io_load_map would accept them and rebuild exactly the tree,
\* the order of the children, the ids, the counts and the texts that are in memory.
THEOREM NothingLost ==
  ASSUME ClientsBehave
  PROVE  Spec => []ReloadRestores
<1>1. (intact => ReloadRestores) => ReloadRestores
  BY DEF ReloadRestores
<1> QED
  BY <1>1, ReloadedMap, SoundInvariant, StoreInvariant, TreeInvariant, RecordInvariant, PTL

-----------------------------------------------------------------------------
(* The head file implements DurableTree.  Only Flush writes to it, and only   *)
(* the record it writes can change an edge, for all the others agree with     *)
(* memory already.  Old and new edges therefore differ at one id, and what    *)
(* that difference is follows from the two trees, the one in the file before  *)
(* the write and the one in memory, both of them rooted.                      *)

-----------------------------------------------------------------------------
(* A map of edges drawn from the ids and the parents of records. *)

Draws(e, ids, par) ==
  /\ e = [i \in DOMAIN e |-> e[i]]
  /\ \A i : i \in DOMAIN e <=> i # 0 /\ \E f \in Findex : ids[f] = i
  /\ \A f \in Findex : ids[f] # 0 => e[ids[f]] = par[f]

OnlyAt(f, ids, par, ids2, par2) ==
  \A g \in Findex \ {f} : ids2[g] = ids[g] /\ par2[g] = par[g]

With(e, id, parent) == [i \in DOMAIN e \cup {id} |-> IF i = id THEN parent ELSE e[i]]
Without(e, id) == [i \in DOMAIN e \ {id} |-> e[i]]

Unique(ids) == \A f, g \in Findex : ids[f] # 0 /\ ids[f] = ids[g] => f = g

LEMMA DrawSame ==
  ASSUME NEW e, NEW e2, NEW ids, NEW par, NEW ids2, NEW par2, NEW f \in Findex,
         Draws(e, ids, par), Draws(e2, ids2, par2), OnlyAt(f, ids, par, ids2, par2),
         ids2[f] = ids[f], ids[f] # 0 => par2[f] = par[f]
  PROVE  e2 = e
<1>1. \A i : i \in DOMAIN e2 <=> i \in DOMAIN e
  BY DEF Draws, OnlyAt
<1>2. DOMAIN e2 = DOMAIN e
  BY <1>1
<1>3. \A i \in DOMAIN e : e2[i] = e[i]
  BY DEF Draws, OnlyAt
<1> QED BY <1>2, <1>3 DEF Draws

LEMMA DrawPut ==
  ASSUME NEW e, NEW e2, NEW ids, NEW par, NEW ids2, NEW par2, NEW f \in Findex,
         Draws(e, ids, par), Draws(e2, ids2, par2), OnlyAt(f, ids, par, ids2, par2),
         Unique(ids2), ids2[f] # 0, ids[f] = 0 \/ ids[f] = ids2[f]
  PROVE  e2 = With(e, ids2[f], par2[f])
<1>1. \A i : i \in DOMAIN e2 <=> i \in DOMAIN e \cup {ids2[f]}
  BY DEF Draws, OnlyAt
<1>2. DOMAIN e2 = DOMAIN e \cup {ids2[f]}
  BY <1>1
<1>3. ASSUME NEW i \in DOMAIN e2, i # ids2[f]
      PROVE  e2[i] = e[i]
  <2>1. PICK g \in Findex : ids2[g] = i
    BY DEF Draws
  <2> QED BY <1>3, <2>1 DEF Draws, OnlyAt
<1>4. e2[ids2[f]] = par2[f]
  BY DEF Draws
<1> QED BY <1>2, <1>3, <1>4 DEF Draws, With

LEMMA DrawDrop ==
  ASSUME NEW e, NEW e2, NEW ids, NEW par, NEW ids2, NEW par2, NEW f \in Findex,
         Draws(e, ids, par), Draws(e2, ids2, par2), OnlyAt(f, ids, par, ids2, par2),
         Unique(ids), ids[f] # 0, ids2[f] = 0
  PROVE  e2 = Without(e, ids[f])
<1>1. \A i : i \in DOMAIN e2 <=> i \in DOMAIN e \ {ids[f]}
  BY DEF Draws, OnlyAt, Unique
<1>2. DOMAIN e2 = DOMAIN e \ {ids[f]}
  BY <1>1
<1>3. ASSUME NEW i \in DOMAIN e2
      PROVE  e2[i] = e[i]
  <2>1. PICK g \in Findex : ids2[g] = i
    BY DEF Draws
  <2> QED BY <1>1, <2>1 DEF Draws, OnlyAt
<1> QED BY <1>2, <1>3 DEF Draws, Without

-----------------------------------------------------------------------------
(* The least set of edges upwards, which DurableTree's Above chooses. *)

ClosedUp(e, S) == \A i \in S : e[i] \in S \cup {0}

Least(e, id) ==
  CHOOSE S \in SUBSET DOMAIN e :
    /\ id \in S
    /\ \A i \in S : e[i] \in S \cup {0}
    /\ \A T \in SUBSET S : id \in T /\ (\A i \in T : e[i] \in T \cup {0}) => T = S

LEMMA LeastBelow ==
  ASSUME NEW e, NEW id, NEW U \in SUBSET DOMAIN e, id \in U, ClosedUp(e, U)
  PROVE  Least(e, id) \subseteq U
<1> DEFINE Q(S) == /\ id \in S
                   /\ \A i \in S : e[i] \in S \cup {0}
                   /\ \A T \in SUBSET S : id \in T /\ (\A i \in T : e[i] \in T \cup {0}) => T = S
           M == {j \in U : \A T \in SUBSET DOMAIN e : id \in T /\ ClosedUp(e, T) => j \in T}
<1>1. M \in SUBSET DOMAIN e /\ id \in M
  OBVIOUS
<1>2. ASSUME NEW i \in M
      PROVE  e[i] \in M \cup {0}
  <2>1. i \in U /\ e[i] \in U \cup {0}
    BY DEF ClosedUp
  <2>2. ASSUME NEW T \in SUBSET DOMAIN e, id \in T, ClosedUp(e, T)
        PROVE  e[i] \in T \cup {0}
    <3>1. i \in T
      BY <2>2
    <3> QED BY <2>2, <3>1 DEF ClosedUp
  <2> QED BY <2>1, <2>2
<1>3. ASSUME NEW T \in SUBSET M, id \in T, \A i \in T : e[i] \in T \cup {0}
      PROVE  T = M
  <2>1. T \in SUBSET DOMAIN e /\ ClosedUp(e, T)
    BY <1>1, <1>3 DEF ClosedUp
  <2>2. \A j \in M : j \in T
    BY <1>3, <2>1
  <2> QED BY <2>2
<1>4. Q(M)
  BY <1>1, <1>2, <1>3
<1>5. Q(Least(e, id)) /\ Least(e, id) \in SUBSET DOMAIN e
  <2> HIDE DEF M, Q
  <2>1. Least(e, id) = CHOOSE S \in SUBSET DOMAIN e : Q(S)
    BY DEF Least, Q
  <2> QED BY <1>1, <1>4, <2>1
<1> DEFINE L == Least(e, id)
<1>6. Q(L)
  BY <1>5
<1> HIDE DEF L
<1>7. /\ L \cap U \in SUBSET L /\ id \in L \cap U
      /\ \A i \in L \cap U : e[i] \in (L \cap U) \cup {0}
  BY <1>6 DEF ClosedUp
<1>8. L \cap U = L
  BY <1>6, <1>7
<1> QED BY <1>8 DEF L

-----------------------------------------------------------------------------
(* The edges of the head file. *)

FileIds == [f \in Findex |-> bhead[f].id]
FileUp == [f \in Findex |-> bhead[f].parent_id]
EdgesDrawn == Draws(Edges, FileIds, FileUp)

LEMMA FileDrawn == TypeOK /\ StoreInv => EdgesDrawn
<1> SUFFICES ASSUME TypeOK, StoreInv PROVE EdgesDrawn
  OBVIOUS
<1>1. FileInv /\ Used = {f \in Findex : bhead[f].id # 0}
  BY UsedRecords DEF StoreInv
<1> DEFINE D == {bhead[f].id : f \in Used}
           v(id) == bhead[CHOOSE f \in Used : bhead[f].id = id].parent_id
<1>2. Edges = [id \in D |-> v(id)]
  BY DEF Edges
<1>3. \A id \in D : id # 0
  BY <1>1
<1>4. ASSUME NEW f \in Findex, bhead[f].id # 0
      PROVE  bhead[f].id \in D /\ v(bhead[f].id) = bhead[f].parent_id
  <2>1. f \in Used
    BY <1>1, <1>4
  <2>2. \A g \in Used : bhead[g].id = bhead[f].id => g = f
    BY <1>1, <1>4 DEF FileInv
  <2>3. (CHOOSE g \in Used : bhead[g].id = bhead[f].id) = f
    BY <2>1, <2>2
  <2> QED BY <2>1, <2>3
<1>5. \A i \in D : \E f \in Findex : bhead[f].id = i
  BY <1>1
<1> HIDE DEF D, v
<1>6. DOMAIN Edges = D /\ \A i \in D : Edges[i] = v(i)
  BY <1>2
<1>7. Edges = [i \in DOMAIN Edges |-> Edges[i]]
  BY <1>2
<1>8. \A f \in Findex : FileIds[f] = bhead[f].id /\ FileUp[f] = bhead[f].parent_id
  BY DEF FileIds, FileUp
<1>9. \A i : i \in DOMAIN Edges <=> i # 0 /\ \E f \in Findex : FileIds[f] = i
  BY <1>3, <1>4, <1>5, <1>6, <1>8
<1>10. \A f \in Findex : FileIds[f] # 0 => Edges[FileIds[f]] = FileUp[f]
  BY <1>4, <1>6, <1>8
<1> QED BY <1>7, <1>9, <1>10 DEF EdgesDrawn, Draws

\* A write of a head leaves every other record alone; after it all agree with memory.
LEMMA OneRecord ==
  ASSUME TypeOK, StoreInv, Flush, AllCurrent', ~UNCHANGED <<bhead, filesize>>
  PROVE  \E f \in Findex :
           /\ OnlyAt(f, FileIds, FileUp, FileIds', FileUp')
           /\ \A g \in Findex \ {f} : bhead'[g] = bhead[g]
<1> DEFINE f == Head(todo).at
<1>1. bhead' = [bhead EXCEPT ![f] = Record(tree, bid, f)] /\ bhead \in [Findex -> Records]
  BY DEF Flush, TypeOK
<1>2. f \in Findex
  <2>1. todo \in Seq(Writes) /\ todo # <<>>
    BY DEF Flush, TypeOK
  <2>2. Head(todo) \in Writes
    BY <2>1, HeadTailProperties
  <2> QED BY <2>2 DEF Writes
<1> HIDE DEF f
<1>3. \A g \in Findex \ {f} : bhead'[g] = bhead[g]
  BY <1>1, <1>2
<1>4. OnlyAt(f, FileIds, FileUp, FileIds', FileUp')
  BY <1>3 DEF OnlyAt, FileIds, FileUp
<1> QED BY <1>2, <1>3, <1>4

\* The record of f, before the write, has the edge that memory has.
OldEdge(f) ==
  /\ bhead[f].id = bid[f]
  /\ bhead[f].parent_id = IF tree.parent[f] = NULL THEN 0 ELSE bid[tree.parent[f]]

\* A record that agrees with memory and has no parent is the root's.
LEMMA ParentlessRoot ==
  ASSUME TypeOK, MemoryInv, StoreInv, Rooted, up = "run", NEW f \in Findex,
         bid[f] # 0, tree.parent[f] = NULL
  PROVE  f = root
<1> SUFFICES ASSUME f # root PROVE FALSE
  OBVIOUS
<1>1. tree.parent \in [Findex -> Findex \cup {NULL}]
  BY DEF TypeOK, Trees
<1>2. root \in Ancestors(tree.parent, f)
  BY DEF Rooted
<1> QED BY <1>1, <1>2, AncestorsProperties

LEMMA FlushRefines ==
  TypeOK /\ MemoryInv /\ StoreInv /\ TreeInv /\ IdsKept /\ EdgesDrawn /\ Flush
    /\ AllCurrent' /\ StoreInv' /\ EdgesDrawn'
    => Durable!Next \/ UNCHANGED Edges
<1> SUFFICES ASSUME TypeOK, MemoryInv, StoreInv, TreeInv, IdsKept, EdgesDrawn, Flush,
                    AllCurrent', StoreInv', EdgesDrawn'
             PROVE  Durable!Next \/ Edges' = Edges
  OBVIOUS
<1>0. CASE UNCHANGED <<bhead, filesize>>
  BY <1>0 DEF Edges, Used
<1> SUFFICES ASSUME ~UNCHANGED <<bhead, filesize>>
             PROVE  Durable!Next \/ Edges' = Edges
  BY <1>0
<1>1. PICK f \in Findex : /\ OnlyAt(f, FileIds, FileUp, FileIds', FileUp')
                          /\ \A g \in Findex \ {f} : bhead'[g] = bhead[g]
  BY OneRecord
<1>2. up = "run" /\ UNCHANGED <<tree, bid, root>>
  BY DEF Flush, memory
<1>3. \A g \in Findex : /\ bhead'[g].id = bid[g]
                        /\ bhead'[g].parent_id = IF tree.parent[g] = NULL THEN 0 ELSE bid[tree.parent[g]]
  BY <1>2 DEF AllCurrent
<1>4. \A g \in Findex \ {f} : OldEdge(g)
  BY <1>1, <1>3 DEF OldEdge
<1>5. /\ bid \in [Findex -> Ids] /\ NULL \notin Findex /\ tree.parent \in [Findex -> Findex \cup {NULL}]
      /\ bhead \in [Findex -> Records] /\ root \in Findex /\ bid[root] # 0 /\ tree.parent[root] = NULL
      /\ \A g \in Findex : tree.parent[g] # NULL =>
           tree.parent[g] \in Findex /\ bid[g] # 0 /\ bid[tree.parent[g]] # 0
  <2>1. tree.parent \in [Findex -> Findex \cup {NULL}]
    BY DEF TypeOK, Trees
  <2> QED BY <1>2, <2>1, NullNotFindex DEF TypeOK, MemoryInv, BlankInv, StoreInv, LiveInv
<1>6. \A g \in Findex : FileIds[g] = bhead[g].id /\ FileUp[g] = bhead[g].parent_id
  BY DEF FileIds, FileUp
<1>7. \A g \in Findex : FileIds'[g] = bhead'[g].id /\ FileUp'[g] = bhead'[g].parent_id
  BY DEF FileIds, FileUp
<1>8. FileInv /\ FileInv' /\ FileRooted /\ Rooted
  BY DEF StoreInv, TreeInv
<1>9. Unique(FileIds)
  BY <1>6, <1>8 DEF Unique, FileInv
<1>10. Unique(FileIds')
  BY <1>7, <1>8 DEF Unique, FileInv
<1>11. Draws(Edges, FileIds, FileUp) /\ Draws(Edges', FileIds', FileUp')
  BY DEF EdgesDrawn
<1>12. \A g \in Findex : bid[g] # 0 /\ tree.parent[g] = NULL => g = root
  BY <1>2, <1>8, ParentlessRoot
<1>13. \A g \in Roots : g # f => g = root
  <2>1. \A g \in Roots : g \in Findex /\ bhead[g].id # 0 /\ bhead[g].parent_id = 0
    BY <1>8, UsedRecords DEF Roots
  <2> QED BY <1>4, <1>5, <1>12, <2>1 DEF OldEdge
<1>14. root # f => root \in Roots
  BY <1>4, <1>5, <1>8, UsedRecords DEF OldEdge, Roots
<1>15. \A g \in Findex : bhead[g].id # 0 => Roots # {} /\ (g \in Roots <=> bhead[g].parent_id = 0)
  <2>1. \A g \in Findex : bhead[g].id # 0 => g \in Used
    BY <1>8, UsedRecords
  <2> QED BY <1>8, <2>1 DEF FileRooted, Roots
<1>16. CASE bhead[f].id = 0 /\ bid[f] = 0
  <2>1. FileIds'[f] = FileIds[f] /\ FileIds[f] = 0
    BY <1>3, <1>6, <1>7, <1>16
  <2> QED BY <1>1, <1>11, <2>1, DrawSame
<1>17. CASE bhead[f].id = 0 /\ bid[f] # 0
  <2>1. FileIds'[f] = bid[f] /\ FileIds[f] = 0
    BY <1>3, <1>6, <1>7, <1>17
  <2>2. Edges' = With(Edges, bid[f], FileUp'[f])
    <3>1. Edges' = With(Edges, FileIds'[f], FileUp'[f])
      BY <1>1, <1>10, <1>11, <1>17, <2>1, DrawPut
    <3> QED BY <2>1, <3>1
  <2>3. CASE tree.parent[f] = NULL
    <3>1. FileUp'[f] = 0 /\ f = root
      BY <1>3, <1>7, <1>12, <1>17, <2>3
    <3>2. \A g \in Findex : bhead[g].id = 0
      <4> SUFFICES ASSUME NEW g \in Findex, bhead[g].id # 0 PROVE FALSE
        OBVIOUS
      <4>1. PICK r : r \in Roots
        BY <1>15
      <4>2. r # f
        BY <1>8, <1>17, <4>1, UsedRecords DEF Roots
      <4> QED BY <1>13, <3>1, <4>1, <4>2
    <3>3. DOMAIN Edges = {}
      <4>1. \A g \in Findex : FileIds[g] = 0
        BY <1>6, <3>2
      <4>2. \A i : i \notin DOMAIN Edges
        BY <1>11, <4>1 DEF Draws
      <4> QED BY <4>2
    <3>4. Durable!CreateRoot(bid[f])
      BY <2>2, <3>1, <3>3 DEF Durable!CreateRoot, Durable!Put, With
    <3>5. bid[f] \in Ids \ {0}
      BY <1>5, <1>17
    <3> QED BY <3>4, <3>5 DEF Durable!Next
  <2>4. CASE tree.parent[f] # NULL
    <3> DEFINE p == tree.parent[f]
    <3>1. p \in Findex /\ p # f /\ bid[p] # 0 /\ FileUp'[f] = bid[p]
      <4>1. f \notin Ancestors(tree.parent, f) /\ p \in Ancestors(tree.parent, f)
        BY <1>2, <1>5, <1>8, <2>4, LiveAcyclic, AncestorsProperties
      <4> QED BY <1>3, <1>5, <1>7, <2>4, <4>1
    <3>2. bid[p] \in DOMAIN Edges
      BY <1>4, <1>6, <1>11, <3>1 DEF Draws, OldEdge
    <3>3. bid[f] \notin DOMAIN Edges
      <4> SUFFICES ASSUME NEW g \in Findex, bhead[g].id = bid[f] PROVE FALSE
        BY <1>6, <1>11 DEF Draws
      <4>1. g # f
        BY <1>17
      <4>2. bhead'[g].id = bhead'[f].id /\ bhead'[f].id # 0
        BY <1>1, <1>3, <1>17, <4>1
      <4> QED BY <1>8, <4>1, <4>2 DEF FileInv
    <3>4. Durable!AddLeaf(bid[f], bid[p])
      BY <2>2, <3>1, <3>2, <3>3 DEF Durable!AddLeaf, Durable!Put, With
    <3>5. bid[f] \in Ids \ {0} /\ bid[p] \in Ids \ {0}
      BY <1>5, <1>17, <3>1
    <3> QED BY <3>4, <3>5 DEF Durable!Next
  <2> QED BY <2>3, <2>4
<1>18. CASE bhead[f].id # 0 /\ bid[f] = 0
  <2> DEFINE id == bhead[f].id
  <2>1. FileIds'[f] = 0 /\ FileIds[f] = id
    BY <1>3, <1>6, <1>7, <1>18
  <2>2. Edges' = Without(Edges, id)
    <3>1. Edges' = Without(Edges, FileIds[f])
      BY <1>1, <1>9, <1>11, <1>18, <2>1, DrawDrop
    <3> QED BY <2>1, <3>1
  <2>3. bhead[f].parent_id # 0 /\ f \notin Roots
    BY <1>5, <1>8, <1>14, <1>15, <1>18 DEF FileRooted
  <2>4. id \in DOMAIN Edges /\ Edges[id] # 0
    BY <1>6, <1>11, <1>18, <2>1, <2>3 DEF Draws
  <2>5. ASSUME NEW g \in Findex, bhead[g].id # 0
        PROVE  bhead[g].parent_id # id
    <3> SUFFICES ASSUME bhead[g].parent_id = id PROVE FALSE
      OBVIOUS
    <3>1. CASE g = f
      <4>1. FileParents[f] = f
        BY <1>8, <1>18, <3>1, FileParentFound
      <4>2. PICK r \in Roots : r \in Ancestors(FileParents, f)
        BY <1>8, <1>18, <2>3, UsedRecords DEF FileRooted
      <4>3. FileParents \in [Findex -> Findex \cup {NULL}]
        BY <1>8, FileParentsType
      <4>4. r \in Findex /\ bhead[r].parent_id = 0
        BY <1>8, UsedRecords DEF Roots
      <4>5. FileParents[r] = NULL
        BY <1>8, <4>4, FileParentsType
      <4>6. f \notin Ancestors(FileParents, f)
        BY <4>2, <4>3, <4>5, NoCycle
      <4> QED BY <1>5, <4>1, <4>3, <4>6, AncestorsProperties
    <3>2. CASE g # f
      <4>1. tree.parent[g] # NULL /\ bid[tree.parent[g]] = id
        BY <1>4, <1>18, <3>2 DEF OldEdge
      <4>2. tree.parent[g] \in Findex /\ tree.parent[g] # f
        BY <1>5, <1>18, <4>1
      <4>3. bhead[tree.parent[g]].id = id
        BY <1>4, <4>1, <4>2 DEF OldEdge
      <4> QED BY <1>8, <1>18, <4>2, <4>3 DEF FileInv
    <3> QED BY <3>1, <3>2
  <2>6. \A i \in DOMAIN Edges : Edges[i] # id
    BY <1>6, <1>11, <2>5 DEF Draws
  <2>7. id \in Ids \ {0}
    BY <1>5, <1>18 DEF Records
  <2>8. Durable!RemoveLeaf(id)
    BY <2>2, <2>4, <2>6 DEF Durable!RemoveLeaf, Durable!Drop, Without
  <2> QED BY <2>7, <2>8 DEF Durable!Next
<1>19. CASE bhead[f].id # 0 /\ bid[f] # 0 /\ bhead'[f].parent_id = bhead[f].parent_id
  <2>1. bhead[f].id = bid[f]
    BY <1>2, <1>8, <1>19 DEF IdsKept, FileInv
  <2>2. FileIds'[f] = FileIds[f] /\ FileUp'[f] = FileUp[f]
    BY <1>3, <1>6, <1>7, <1>19, <2>1
  <2> QED BY <1>1, <1>11, <2>2, DrawSame
<1>20. CASE bhead[f].id # 0 /\ bid[f] # 0 /\ bhead'[f].parent_id # bhead[f].parent_id
  <2> DEFINE p == tree.parent[f]
  <2>1. bhead[f].id = bid[f]
    BY <1>2, <1>8, <1>20 DEF IdsKept, FileInv
  <2>2. p # NULL /\ f # root
    <3>1. ASSUME p = NULL PROVE FALSE
      <4>1. f = root /\ bhead[f].parent_id # 0
        BY <1>3, <1>12, <1>20, <3>1
      <4>2. PICK r : r \in Roots
        BY <1>15, <1>20
      <4>3. r # f
        BY <4>1, <4>2 DEF Roots
      <4> QED BY <1>13, <4>1, <4>2, <4>3
    <3> QED BY <1>5, <3>1
  <2>3. bhead[f].parent_id # 0
    BY <1>8, <1>14, <1>15, <1>20, <2>2 DEF FileRooted
  <2>4. p \in Findex /\ bid[p] # 0 /\ bhead'[f].parent_id = bid[p]
    BY <1>3, <1>5, <2>2
  <2>5. f \notin {p} \cup Ancestors(tree.parent, p)
    <3>1. f \notin Ancestors(tree.parent, f)
      BY <1>2, <1>8, <2>2, LiveAcyclic
    <3>2. Ancestors(tree.parent, f) = {p} \cup Ancestors(tree.parent, p)
      BY <1>5, <2>2, AncestorsStep
    <3> QED BY <3>1, <3>2
  <2>6. FileIds'[f] = bid[f] /\ FileIds[f] = bid[f] /\ FileUp'[f] = bid[p]
    BY <1>3, <1>6, <1>7, <2>1, <2>4
  <2>7. Edges' = With(Edges, bid[f], bid[p])
    <3>1. Edges' = With(Edges, FileIds'[f], FileUp'[f])
      BY <1>1, <1>10, <1>11, <1>20, <2>6, DrawPut
    <3> QED BY <2>6, <3>1
  <2>8. bid[f] \in DOMAIN Edges /\ Edges[bid[f]] # 0
    BY <1>6, <1>11, <1>20, <2>3, <2>6 DEF Draws
  <2>9. bid[f] \notin Least(Edges, bid[p])
    <3> DEFINE X == {p} \cup Ancestors(tree.parent, p)
               U == {bid[x] : x \in X}
    <3>1. \A x \in X : x \in Findex /\ bid[x] # 0 /\ x # f
      BY <2>4, <2>5, LiveAncestors
    <3>2. \A x \in X : bid[x] \in DOMAIN Edges /\ Edges[bid[x]] = bhead[x].parent_id
      BY <1>4, <1>6, <1>11, <3>1 DEF Draws, OldEdge
    <3>3. \A x \in X : tree.parent[x] # NULL => tree.parent[x] \in X
      <4>1. tree.parent[p] # NULL => tree.parent[p] \in Ancestors(tree.parent, p)
        BY <1>5, <2>4, AncestorsProperties
      <4>2. Closed(tree.parent, Ancestors(tree.parent, p))
        BY <1>5, <2>4, AncestorsProperties
      <4> QED BY <4>1, <4>2 DEF Closed
    <3>4. \A x \in X : bhead[x].parent_id = 0 \/ \E y \in X : bhead[x].parent_id = bid[y]
      BY <1>4, <3>1, <3>3 DEF OldEdge
    <3> HIDE DEF X
    <3>5. U \in SUBSET DOMAIN Edges /\ ClosedUp(Edges, U)
      BY <3>2, <3>4 DEF ClosedUp
    <3>6. bid[p] \in U
      BY DEF X
    <3>7. bid[f] \notin U
      BY <1>5, <1>20, <2>4, <3>1, <1>8 DEF StoreInv, IndexExact
    <3> HIDE DEF U
    <3>8. Least(Edges, bid[p]) \subseteq U
      BY <3>5, <3>6, LeastBelow
    <3> QED BY <3>7, <3>8
  <2>10. bid[p] \in DOMAIN Edges
    BY <1>4, <1>6, <1>11, <2>4, <2>5 DEF Draws, OldEdge
  <2>11. Durable!Above(bid[p]) = Least(Edges, bid[p])
    BY DEF Durable!Above, Least
  <2>12. Durable!Reparent(bid[f], bid[p])
    BY <2>7, <2>8, <2>9, <2>10, <2>11 DEF Durable!Reparent, Durable!Put, With
  <2>13. bid[f] \in Ids \ {0} /\ bid[p] \in Ids \ {0}
    BY <1>5, <1>20, <2>4
  <2> QED BY <2>12, <2>13 DEF Durable!Next
<1> QED BY <1>16, <1>17, <1>18, <1>19, <1>20

-----------------------------------------------------------------------------
(* The refinement. *)

LEMMA EmptyFile == Init => Durable!Init
<1> SUFFICES ASSUME Init PROVE Edges = <<>>
  BY DEF Durable!Init
<1>1. Used = {}
  BY DEF Init, Used
<1>2. {bhead[f].id : f \in Used} = {}
  BY <1>1
<1> DEFINE v(id) == bhead[CHOOSE f \in Used : bhead[f].id = id].parent_id
<1>3. Edges = [id \in {} |-> v(id)]
  BY <1>2 DEF Edges
<1> HIDE DEF v
<1>4. Edges \in [1 .. 0 -> {}]
  BY <1>3
<1>5. Edges \in Seq({})
  BY <1>4
<1> QED BY <1>5, EmptySeq

\* Whatever the step: it changes no edge in the file, or it is one of DurableTree's.
LEMMA StepRefines ==
  ASSUME ClientsBehave
  PROVE  TypeOK /\ MemoryInv /\ StoreInv /\ TreeInv /\ RecordInv /\ EdgesDrawn
           /\ [Next]_vars /\ intact' /\ StoreInv' /\ EdgesDrawn'
           => [Durable!Next]_Edges
<1> SUFFICES ASSUME TypeOK, MemoryInv, StoreInv, TreeInv, RecordInv, EdgesDrawn,
                    [Next]_vars, intact', StoreInv', EdgesDrawn'
             PROVE  Durable!Next \/ Edges' = Edges
  OBVIOUS
<1>1. Shapes
  BY StepShapes
<1>2. CASE Flush
  <2>1. AllCurrent'
    BY <1>2, FlushEdges
  <2>2. IdsKept
    BY DEF RecordInv
  <2> QED BY <1>2, <2>1, <2>2, FlushRefines
<1>3. ASSUME UNCHANGED files PROVE Edges' = Edges
  <2>1. Used' = Used /\ bhead' = bhead
    BY <1>3, FilesRead DEF files
  <2> QED BY <2>1 DEF Edges
<1>4. CASE ~Flush
  <2>1. UNCHANGED files
    BY <1>1, <1>4 DEF Shapes, Inserts, insert, Moves, move, Deletes, Updates, Rests, Sleeps,
                      Crash, Loads, Load
  <2> QED BY <1>3, <2>1
<1> QED BY <1>2, <1>4

\* While clients send no id 0 and delete no branch with several children, the head
\* file implements DurableTree: it starts empty, and each write, whichever operation
\* it belongs to and whatever crash follows, leaves its edges alone, creates the root,
\* adds or removes one leaf, or moves one branch to a parent outside its subtree.  After
\* a load that found two records for one slot nothing is said.
THEOREM FileIsDurableTree ==
  ASSUME ClientsBehave
  PROVE  Spec => DurableTreeImplemented
<1>1. Init => Durable!Init
  BY EmptyFile
<1>2. TypeOK /\ MemoryInv /\ StoreInv /\ TreeInv /\ RecordInv /\ EdgesDrawn
        /\ [Next]_vars /\ intact' /\ StoreInv' /\ EdgesDrawn'
        => [intact' => Durable!Next]_Edges
  BY StepRefines
<1>3. TypeOK /\ StoreInv => EdgesDrawn
  BY FileDrawn
<1>4. ~intact' => [intact' => Durable!Next]_Edges
  OBVIOUS
<1> QED
  BY <1>1, <1>2, <1>3, <1>4, SoundInvariant, StoreInvariant, TreeInvariant, RecordInvariant,
     IntactKept, PTL
  DEF Spec, DurableTreeImplemented

=============================================================================
