---------------------------- MODULE BranchProofs ----------------------------
(* What the operators of Branch do to a tree: the lemmas that the proofs   *)
(* about Store rest on.                                                     *)
EXTENDS Branch, SequenceTheorems, WellFoundedInduction, FiniteSetTheorems, TLAPS

\* All that proofs need of the bounds; the number itself is of no importance.
LEMMA UintNat == UINT16_MAX \in Nat
BY DEF UINT16_MAX

LEMMA MaxBranchNat == MaxBranch \in Nat /\ MaxBranch >= 1
BY MaxBranchAssumption, UintNat

\* No branch is NULL.
LEMMA NullNotFindex == NULL \notin Findex
BY MaxBranchNat DEF NULL, Findex

\* InsertAt, as branch_add uses it: later entries move up by one.
LEMMA InsertAtProperties ==
  ASSUME NEW S, NEW s \in Seq(S), NEW k \in 1 .. Len(s) + 1, NEW e \in S
  PROVE  /\ InsertAt(s, k, e) \in Seq(S)
         /\ Len(InsertAt(s, k, e)) = Len(s) + 1
         /\ \A i \in 1 .. Len(s) + 1 :
              InsertAt(s, k, e)[i] = IF i < k THEN s[i] ELSE IF i = k THEN e ELSE s[i - 1]
<1> DEFINE u == SubSeq(s, 1, k - 1)
           v == SubSeq(s, k, Len(s))
<1>0. Len(s) \in Nat /\ k \in Int /\ \A i \in 1 .. Len(s) : s[i] \in S
  BY LenProperties, ElementOfSeq
<1>1. /\ u \in Seq(S) /\ Len(u) = k - 1
      /\ \A i \in 1 .. k - 1 : u[i] = s[i]
  <2>1. \A i \in 1 .. k - 1 : s[i] \in S
    BY <1>0
  <2>2. /\ u \in Seq(S) /\ Len(u) = IF 1 <= k - 1 THEN k - 1 - 1 + 1 ELSE 0
        /\ \A i \in 1 .. k - 1 - 1 + 1 : u[i] = s[1 + i - 1]
    BY <1>0, <2>1, SubSeqProperties
  <2> QED BY <1>0, <2>2
<1>2. /\ v \in Seq(S) /\ Len(v) = Len(s) - k + 1
      /\ \A i \in 1 .. Len(s) - k + 1 : v[i] = s[k + i - 1]
  <2>1. \A i \in k .. Len(s) : s[i] \in S
    BY <1>0
  <2>2. /\ v \in Seq(S) /\ Len(v) = IF k <= Len(s) THEN Len(s) - k + 1 ELSE 0
        /\ \A i \in 1 .. Len(s) - k + 1 : v[i] = s[k + i - 1]
    BY <1>0, <2>1, SubSeqProperties
  <2> QED BY <1>0, <2>2
<1>3. <<e>> \in Seq(S) /\ Len(<<e>>) = 1 /\ <<e>>[1] = e
  OBVIOUS
<1> DEFINE w == u \o <<e>>
<1> HIDE DEF u, v
<1>4. /\ w \in Seq(S) /\ Len(w) = k
      /\ \A i \in 1 .. k : w[i] = IF i <= k - 1 THEN u[i] ELSE <<e>>[i - (k - 1)]
  <2>1. /\ w \in Seq(S) /\ Len(w) = Len(u) + 1
        /\ \A i \in 1 .. Len(u) + 1 : w[i] = IF i <= Len(u) THEN u[i] ELSE <<e>>[i - Len(u)]
    BY <1>1, <1>3, ConcatProperties
  <2> QED BY <2>1, <1>1, <1>0
<1> HIDE DEF w
<1>5. /\ w \o v \in Seq(S) /\ Len(w \o v) = Len(s) + 1
      /\ \A i \in 1 .. Len(s) + 1 : (w \o v)[i] = IF i <= k THEN w[i] ELSE v[i - k]
  <2>1. /\ w \o v \in Seq(S) /\ Len(w \o v) = Len(w) + Len(v)
        /\ \A i \in 1 .. Len(w) + Len(v) : (w \o v)[i] = IF i <= Len(w) THEN w[i] ELSE v[i - Len(w)]
    BY <1>2, <1>4, ConcatProperties
  <2> QED BY <2>1, <1>2, <1>4, <1>0
<1>6. InsertAt(s, k, e) = w \o v
  BY DEF InsertAt, u, v, w
<1>7. \A i \in 1 .. Len(s) + 1 :
        (w \o v)[i] = IF i < k THEN s[i] ELSE IF i = k THEN e ELSE s[i - 1]
  <2> TAKE i \in 1 .. Len(s) + 1
  <2>1. CASE i < k  BY <2>1, <1>0, <1>1, <1>4, <1>5
  <2>2. CASE i = k  BY <2>2, <1>0, <1>3, <1>4, <1>5
  <2>3. CASE i > k
    <3>1. (w \o v)[i] = v[i - k]  BY <2>3, <1>0, <1>5
    <3>2. v[i - k] = s[k + (i - k) - 1]  BY <2>3, <1>0, <1>2
    <3> QED BY <2>3, <3>1, <3>2, <1>0
  <2>4. i < k \/ i = k \/ i > k
    BY <1>0
  <2> QED BY ONLY <2>1, <2>2, <2>3, <2>4
<1> QED BY <1>5, <1>6, <1>7

\* RemoveAt, as branch_detach uses it: later entries move down by one.
LEMMA RemoveAtProperties ==
  ASSUME NEW S, NEW s \in Seq(S), NEW k \in 1 .. Len(s)
  PROVE  /\ RemoveAt(s, k) \in Seq(S)
         /\ Len(RemoveAt(s, k)) = Len(s) - 1
         /\ \A i \in 1 .. Len(s) - 1 :
              RemoveAt(s, k)[i] = IF i < k THEN s[i] ELSE s[i + 1]
<1> DEFINE u == SubSeq(s, 1, k - 1)
           v == SubSeq(s, k + 1, Len(s))
<1>0. Len(s) \in Nat /\ k \in Int /\ \A i \in 1 .. Len(s) : s[i] \in S
  BY LenProperties, ElementOfSeq
<1>1. /\ u \in Seq(S) /\ Len(u) = k - 1
      /\ \A i \in 1 .. k - 1 : u[i] = s[i]
  <2>1. \A i \in 1 .. k - 1 : s[i] \in S
    BY <1>0
  <2>2. /\ u \in Seq(S) /\ Len(u) = IF 1 <= k - 1 THEN k - 1 - 1 + 1 ELSE 0
        /\ \A i \in 1 .. k - 1 - 1 + 1 : u[i] = s[1 + i - 1]
    BY <1>0, <2>1, SubSeqProperties
  <2> QED BY <1>0, <2>2
<1>2. /\ v \in Seq(S) /\ Len(v) = Len(s) - k
      /\ \A i \in 1 .. Len(s) - k : v[i] = s[k + i]
  <2>1. \A i \in k + 1 .. Len(s) : s[i] \in S
    BY <1>0
  <2>2. /\ v \in Seq(S) /\ Len(v) = IF k + 1 <= Len(s) THEN Len(s) - (k + 1) + 1 ELSE 0
        /\ \A i \in 1 .. Len(s) - (k + 1) + 1 : v[i] = s[(k + 1) + i - 1]
    BY <1>0, <2>1, SubSeqProperties
  <2> QED BY <1>0, <2>2
<1> HIDE DEF u, v
<1>3. /\ u \o v \in Seq(S) /\ Len(u \o v) = Len(s) - 1
      /\ \A i \in 1 .. Len(s) - 1 : (u \o v)[i] = IF i <= k - 1 THEN u[i] ELSE v[i - (k - 1)]
  <2>1. /\ u \o v \in Seq(S) /\ Len(u \o v) = Len(u) + Len(v)
        /\ \A i \in 1 .. Len(u) + Len(v) : (u \o v)[i] = IF i <= Len(u) THEN u[i] ELSE v[i - Len(u)]
    BY <1>1, <1>2, ConcatProperties
  <2>2. Len(u) = k - 1 /\ Len(u) + Len(v) = Len(s) - 1
    <3>1. Len(u) = k - 1 /\ Len(v) = Len(s) - k
      BY <1>1, <1>2
    <3> QED BY ONLY <3>1, <1>0
  <2> QED BY ONLY <2>1, <2>2
<1>4. RemoveAt(s, k) = u \o v
  BY DEF RemoveAt, u, v
<1>5. \A i \in 1 .. Len(s) - 1 : (u \o v)[i] = IF i < k THEN s[i] ELSE s[i + 1]
  <2> TAKE i \in 1 .. Len(s) - 1
  <2>1. CASE i < k
    BY <2>1, <1>0, <1>1, <1>3
  <2>2. CASE i >= k
    <3>1. (u \o v)[i] = v[i - (k - 1)]  BY <2>2, <1>0, <1>3
    <3>2. v[i - (k - 1)] = s[k + (i - (k - 1))]  BY <2>2, <1>0, <1>2
    <3> QED BY <2>2, <3>1, <3>2, <1>0
  <2>3. i < k \/ i >= k
    BY <1>0
  <2> QED BY ONLY <2>1, <2>2, <2>3
<1> QED BY <1>3, <1>4, <1>5

\* In a linked tree branch_get_pos finds the one place of a branch in the list
\* of its parent; its -1 is never returned.
LEMMA PosProperties ==
  ASSUME NEW t \in Trees, Linked(t), NEW f \in Findex, t.parent[f] \in Findex
  PROVE  /\ branch_get_pos(t, f) \in 0 .. Len(t.child_list[t.parent[f]]) - 1
         /\ t.child_list[t.parent[f]][branch_get_pos(t, f) + 1] = f
         /\ \A i \in 1 .. Len(t.child_list[t.parent[f]]) :
              t.child_list[t.parent[f]][i] = f => i = branch_get_pos(t, f) + 1
<1> DEFINE l == t.child_list[t.parent[f]]
           I == {i \in 1 .. Len(l) : l[i] = f}
<1>1. l \in Seq(Findex) /\ Len(l) \in Nat
  BY LenProperties DEF Trees
<1>2. PICK k \in 1 .. Len(l) : l[k] = f
  BY DEF Linked
<1>3. \A i, j \in 1 .. Len(l) : l[i] = l[j] => i = j
  BY DEF Linked
<1>4. I = {k}
  BY <1>2, <1>3
<1>5. branch_get_pos(t, f) = Min(I) - 1
  <2>1. I # {}
    BY <1>4
  <2> QED BY <2>1 DEF branch_get_pos, SelectInSeq
<1>6. Min(I) = k
  BY <1>1, <1>2, <1>4 DEF Min
<1>7. branch_get_pos(t, f) = k - 1 /\ branch_get_pos(t, f) + 1 = k
  BY <1>1, <1>2, <1>5, <1>6
<1>8. k - 1 \in 0 .. Len(l) - 1
  BY <1>1, <1>2
<1> HIDE DEF I
<1> QED BY <1>2, <1>3, <1>7, <1>8

LEMMA PosType ==
  ASSUME NEW t \in Trees, Linked(t), NEW f \in Findex, t.parent[f] \in Findex
  PROVE  branch_get_pos(t, f) \in Nat
<1> DEFINE n == Len(t.child_list[t.parent[f]])
<1>1. n \in Nat
  BY LenProperties DEF Trees
<1>2. branch_get_pos(t, f) \in 0 .. n - 1
  BY PosProperties
<1> HIDE DEF n
<1> QED BY <1>1, <1>2

\* The converse: the entry that holds a branch is the one that is found.
LEMMA PosUnique ==
  ASSUME NEW t \in Trees, Linked(t), NEW p \in Findex,
         NEW i \in 1 .. Len(t.child_list[p])
  PROVE  /\ t.child_list[p][i] \in Findex
         /\ t.parent[t.child_list[p][i]] = p
         /\ branch_get_pos(t, t.child_list[p][i]) = i - 1
<1> DEFINE c == t.child_list[p][i]
<1>1. t.child_list[p] \in Seq(Findex) /\ Len(t.child_list[p]) \in Nat
  BY LenProperties DEF Trees
<1>2. c \in Findex
  BY <1>1, ElementOfSeq
<1>3. t.parent[c] = p
  BY <1>2 DEF Linked
<1>4. i = branch_get_pos(t, c) + 1
  BY <1>2, <1>3, PosProperties
<1>5. branch_get_pos(t, c) \in Int
  BY <1>1, <1>2, <1>3, PosProperties
<1> QED BY <1>2, <1>3, <1>4, <1>5

\* branch_increase only changes counts.
LEMMA IncreaseType ==
  ASSUME NEW parent, NEW total \in [Findex -> Int], NEW f, NEW n \in Int
  PROVE  branch_increase(parent, total, f, n) \in [Findex -> Int]
BY DEF branch_increase

\* branch_add keeps a tree linked and changes one list, by one entry.
LEMMA AddProperties ==
  ASSUME NEW t \in Trees, Linked(t), NEW f \in Findex, NEW p \in Findex, NEW pos \in Int,
         t.parent[f] = NULL
  PROVE  LET a == branch_add(t, f, p, pos)
         IN  /\ a \in Trees
             /\ Linked(a)
             /\ a.parent = [t.parent EXCEPT ![f] = p]
             /\ \A g \in Findex \ {p} : a.child_list[g] = t.child_list[g]
             /\ Len(a.child_list[p]) = Len(t.child_list[p]) + 1
             /\ \A i \in 1 .. branch_get_pos(a, f) : a.child_list[p][i] = t.child_list[p][i]
<1> DEFINE a == branch_add(t, f, p, pos)
           l == t.child_list[p]
           k == IF pos < 0 \/ pos > Len(l) THEN Len(l) + 1 ELSE pos + 1
           m == InsertAt(l, k, f)
<1>1. /\ t.parent \in [Findex -> Findex \cup {NULL}]
      /\ t.child_list \in [Findex -> Seq(Findex)]
      /\ t.total \in [Findex -> Int]
  BY DEF Trees
<1>2. l \in Seq(Findex) /\ Len(l) \in Nat /\ k \in 1 .. Len(l) + 1
  BY <1>1, LenProperties
<1> HIDE DEF k
<1>3. /\ m \in Seq(Findex) /\ Len(m) = Len(l) + 1
      /\ \A i \in 1 .. Len(l) + 1 : m[i] = IF i < k THEN l[i] ELSE IF i = k THEN f ELSE l[i - 1]
  <2> HIDE DEF l
  <2> QED BY <1>2, InsertAtProperties
<1>4. /\ a.parent = [t.parent EXCEPT ![f] = p]
      /\ a.child_list = [t.child_list EXCEPT ![p] = m]
      /\ a.total = branch_increase(a.parent, t.total, f, t.total[f] + 1)
  <2>1. k = (IF pos < 0 \/ pos > Len(l) THEN Len(l) ELSE pos) + 1
    BY <1>2 DEF k
  <2> QED BY <2>1 DEF branch_add
<1>5. a \in Trees
  <2>1. a.total \in [Findex -> Int]
    <3>1. t.total[f] + 1 \in Int
      BY <1>1
    <3>2. \A q : branch_increase(q, t.total, f, t.total[f] + 1) \in [Findex -> Int]
      BY <3>1, <1>1, IncreaseType
    <3> QED BY <3>2, <1>4
  <2>2. a = [parent |-> a.parent, child_list |-> a.child_list, total |-> a.total]
    BY DEF branch_add
  <2>3. a.parent \in [Findex -> Findex \cup {NULL}] /\ a.child_list \in [Findex -> Seq(Findex)]
    BY <1>1, <1>3, <1>4
  <2> HIDE DEF a
  <2> QED BY <2>1, <2>2, <2>3 DEF Trees
<1> HIDE DEF a, m
<1>6. \A i \in 1 .. Len(l) : l[i] # f
  BY DEF Linked, NULL, Findex
<1>7. \A c \in Findex : (\E i \in 1 .. Len(l) : l[i] = c) <=> t.parent[c] = p
  BY DEF Linked
<1>8. \A i, j \in 1 .. Len(l) : l[i] = l[j] => i = j
  BY DEF Linked
<1>9. Linked(a)
  <2>1. ASSUME NEW c \in Findex, NEW q \in Findex
        PROVE  a.parent[c] = q <=>
                 \E i \in 1 .. Len(a.child_list[q]) : a.child_list[q][i] = c
    <3>1. CASE q # p
      <4>1. a.child_list[q] = t.child_list[q]
        BY <3>1, <1>1, <1>4
      <4>2. a.parent[c] = q <=> t.parent[c] = q
        BY <3>1, <1>1, <1>4 DEF NULL, Findex
      <4> QED BY <4>1, <4>2, SMTT(40) DEF Linked
    <3>2. CASE q = p
      <4>1. a.child_list[q] = m
        BY <3>2, <1>1, <1>4
      <4>2. (\E i \in 1 .. Len(m) : m[i] = c) <=> c = f \/ \E i \in 1 .. Len(l) : l[i] = c
        <5>1. ASSUME NEW i \in 1 .. Len(m), m[i] = c
              PROVE  c = f \/ \E j \in 1 .. Len(l) : l[j] = c
          <6>1. CASE i < k
            <7>1. i \in 1 .. Len(l) /\ l[i] = c
              BY <6>1, <5>1, <1>2, <1>3
            <7> QED BY <7>1
          <6>2. CASE i = k  BY <6>2, <5>1, <1>2, <1>3
          <6>3. CASE i > k
            <7>1. i - 1 \in 1 .. Len(l) /\ l[i - 1] = c
              BY <6>3, <5>1, <1>2, <1>3
            <7> QED BY <7>1
          <6>4. i < k \/ i = k \/ i > k
            BY <1>2, <1>3
          <6> QED BY ONLY <6>1, <6>2, <6>3, <6>4
        <5>2. ASSUME c = f PROVE \E i \in 1 .. Len(m) : m[i] = c
          <6>1. k \in 1 .. Len(m) /\ m[k] = c
            BY <5>2, <1>2, <1>3
          <6> QED BY <6>1
        <5>3. ASSUME NEW i \in 1 .. Len(l), l[i] = c PROVE \E j \in 1 .. Len(m) : m[j] = c
          <6>1. CASE i < k
            <7>1. i \in 1 .. Len(m) /\ m[i] = c  BY <6>1, <5>3, <1>2, <1>3
            <7> QED BY <7>1
          <6>2. CASE i >= k
            <7>1. i + 1 \in 1 .. Len(m) /\ m[i + 1] = l[i + 1 - 1]  BY <6>2, <5>3, <1>2, <1>3
            <7>2. i + 1 - 1 = i  BY <5>3, <1>2
            <7> QED BY <7>1, <7>2, <5>3
          <6>3. i < k \/ i >= k
            BY <1>2
          <6> QED BY ONLY <6>1, <6>2, <6>3
        <5> QED BY <5>1, <5>2, <5>3
      <4>3. a.parent[c] = p <=> c = f \/ t.parent[c] = p
        BY <1>1, <1>4
      <4> QED BY <3>2, <4>1, <4>2, <4>3, <1>7
    <3> QED BY <3>1, <3>2
  <2>2. ASSUME NEW q \in Findex,
               NEW i \in 1 .. Len(a.child_list[q]), NEW j \in 1 .. Len(a.child_list[q]),
               a.child_list[q][i] = a.child_list[q][j]
        PROVE  i = j
    <3>1. CASE q # p
      <4>1. a.child_list[q] = t.child_list[q]
        BY <3>1, <1>1, <1>4
      <4> QED BY <4>1, <2>2 DEF Linked
    <3>2. CASE q = p
      <4>1. a.child_list[q] = m
        BY <3>2, <1>1, <1>4
      <4>2. /\ i \in 1 .. Len(l) + 1 /\ j \in 1 .. Len(l) + 1 /\ m[i] = m[j]
        BY <4>1, <2>2, <1>3
      <4> DEFINE back(x) == IF x < k THEN x ELSE x - 1
      <4>3. \A x \in 1 .. Len(l) + 1 : x # k => back(x) \in 1 .. Len(l) /\ m[x] = l[back(x)]
        BY <1>2, <1>3
      <4>4. m[k] = f
        BY <1>2, <1>3
      <4>5. CASE i = k \/ j = k
        BY <4>5, <4>2, <4>3, <4>4, <1>6, <1>2, SMTT(40)
      <4>6. CASE i # k /\ j # k
        <5>1. back(i) = back(j)
          BY <4>6, <4>2, <4>3, <1>8
        <5> QED BY <5>1, <4>2, <4>6, <1>2
      <4> QED BY <4>5, <4>6
    <3> QED BY <3>1, <3>2
  <2> QED BY <2>1, <2>2 DEF Linked
<1>10. branch_get_pos(a, f) = k - 1
  <2>1. a.child_list[p] = m /\ k \in 1 .. Len(m) /\ m[k] = f
    BY <1>1, <1>2, <1>3, <1>4
  <2>2. branch_get_pos(a, a.child_list[p][k]) = k - 1
    BY <2>1, <1>5, <1>9, PosUnique
  <2> QED BY <2>1, <2>2
<1>11. \A g \in Findex \ {p} : a.child_list[g] = t.child_list[g]
  BY <1>1, <1>4
<1>12. Len(a.child_list[p]) = Len(l) + 1
  BY <1>1, <1>3, <1>4
<1>13. \A i \in 1 .. k - 1 : a.child_list[p][i] = l[i]
  <2>1. a.child_list[p] = m
    BY <1>1, <1>4
  <2>2. \A i \in 1 .. k - 1 : i \in 1 .. Len(l) + 1 /\ i < k
    BY <1>2
  <2> QED BY <2>1, <2>2, <1>3
<1> QED BY <1>4, <1>5, <1>9, <1>10, <1>11, <1>12, <1>13 DEF a

\* branch_detach keeps a tree linked and takes one entry from one list.
LEMMA DetachProperties ==
  ASSUME NEW t \in Trees, Linked(t), NEW f \in Findex, t.parent[f] \in Findex
  PROVE  LET d == branch_detach(t, f)
             p == t.parent[f]
         IN  /\ d \in Trees
             /\ Linked(d)
             /\ d.parent = [t.parent EXCEPT ![f] = NULL]
             /\ \A g \in Findex \ {p} : d.child_list[g] = t.child_list[g]
             /\ Len(d.child_list[p]) = Len(t.child_list[p]) - 1
             /\ \A i \in 1 .. branch_get_pos(t, f) : d.child_list[p][i] = t.child_list[p][i]
<1> DEFINE d == branch_detach(t, f)
           p == t.parent[f]
           l == t.child_list[p]
           k == branch_get_pos(t, f) + 1
           m == RemoveAt(l, k)
<1>1. /\ t.parent \in [Findex -> Findex \cup {NULL}]
      /\ t.child_list \in [Findex -> Seq(Findex)]
      /\ t.total \in [Findex -> Int]
      /\ p \in Findex
  BY DEF Trees
<1>2. l \in Seq(Findex) /\ Len(l) \in Nat
  BY <1>1, LenProperties
<1>3. /\ k \in 1 .. Len(l) /\ l[k] = f
      /\ \A i \in 1 .. Len(l) : l[i] = f => i = k
      /\ branch_get_pos(t, f) = k - 1
  <2>1. branch_get_pos(t, f) \in 0 .. Len(l) - 1
    BY PosProperties
  <2>2. l[k] = f /\ \A i \in 1 .. Len(l) : l[i] = f => i = k
    BY PosProperties
  <2> HIDE DEF l
  <2> QED BY <1>2, <2>1, <2>2
<1> HIDE DEF k
<1>4. /\ m \in Seq(Findex) /\ Len(m) = Len(l) - 1
      /\ \A i \in 1 .. Len(l) - 1 : m[i] = IF i < k THEN l[i] ELSE l[i + 1]
  <2> HIDE DEF l
  <2> QED BY <1>2, <1>3, RemoveAtProperties
<1>5. /\ d.parent = [t.parent EXCEPT ![f] = NULL]
      /\ d.child_list = [t.child_list EXCEPT ![p] = m]
      /\ d.total = branch_increase(t.parent, t.total, f, -(t.total[f]) - 1)
  BY DEF branch_detach, k
<1>6. d \in Trees
  <2>1. d.total \in [Findex -> Int]
    <3>1. -(t.total[f]) - 1 \in Int
      BY <1>1
    <3>2. \A q : branch_increase(q, t.total, f, -(t.total[f]) - 1) \in [Findex -> Int]
      BY <3>1, <1>1, IncreaseType
    <3> QED BY <3>2, <1>5
  <2>2. d = [parent |-> d.parent, child_list |-> d.child_list, total |-> d.total]
    BY DEF branch_detach
  <2>3. d.parent \in [Findex -> Findex \cup {NULL}] /\ d.child_list \in [Findex -> Seq(Findex)]
    BY <1>1, <1>4, <1>5
  <2> HIDE DEF d
  <2> QED BY <2>1, <2>2, <2>3 DEF Trees
<1> HIDE DEF d, m
<1>7. \A c \in Findex : (\E i \in 1 .. Len(l) : l[i] = c) <=> t.parent[c] = p
  BY <1>1 DEF Linked
<1>8. \A i, j \in 1 .. Len(l) : l[i] = l[j] => i = j
  BY <1>1 DEF Linked
<1>9. Linked(d)
  <2> DEFINE fwd(x) == IF x < k THEN x ELSE x + 1
  <2>0. \A x \in 1 .. Len(m) : fwd(x) \in 1 .. Len(l) /\ fwd(x) # k /\ m[x] = l[fwd(x)]
    BY <1>2, <1>3, <1>4
  <2>1. ASSUME NEW c \in Findex, NEW q \in Findex
        PROVE  d.parent[c] = q <=>
                 \E i \in 1 .. Len(d.child_list[q]) : d.child_list[q][i] = c
    <3>1. CASE q # p
      <4>1. d.child_list[q] = t.child_list[q]
        BY <3>1, <1>1, <1>5
      <4>2. d.parent[c] = q <=> t.parent[c] = q
        BY <3>1, <1>1, <1>5 DEF NULL, Findex
      <4> QED BY <4>1, <4>2 DEF Linked
    <3>2. CASE q = p
      <4>1. d.child_list[q] = m
        BY <3>2, <1>1, <1>5
      <4>2. (\E i \in 1 .. Len(m) : m[i] = c) <=> c # f /\ \E i \in 1 .. Len(l) : l[i] = c
        <5>1. ASSUME NEW i \in 1 .. Len(m), m[i] = c
              PROVE  c # f /\ \E j \in 1 .. Len(l) : l[j] = c
          BY <5>1, <2>0, <1>3
        <5>2. ASSUME c # f, NEW i \in 1 .. Len(l), l[i] = c
              PROVE  \E j \in 1 .. Len(m) : m[j] = c
          <6>1. i # k
            BY <5>2, <1>3
          <6>2. CASE i < k
            <7>1. i \in 1 .. Len(m) /\ m[i] = c  BY <6>2, <5>2, <1>2, <1>3, <1>4
            <7> QED BY <7>1
          <6>3. CASE i > k
            <7>1. i - 1 \in 1 .. Len(m) /\ m[i - 1] = l[i - 1 + 1]
              BY <6>3, <1>2, <1>3, <1>4
            <7>2. i - 1 + 1 = i  BY <1>2
            <7> QED BY <7>1, <7>2, <5>2
          <6>4. i < k \/ i > k
            BY <6>1, <1>2, <1>3
          <6> QED BY ONLY <6>2, <6>3, <6>4
        <5> QED BY <5>1, <5>2
      <4>3. d.parent[c] = p <=> c # f /\ t.parent[c] = p
        <5>1. d.parent[c] = IF c = f THEN NULL ELSE t.parent[c]
          BY <1>1, <1>5
        <5>2. NULL # p
          BY <1>1, NullNotFindex
        <5> QED BY <5>1, <5>2
      <4> QED BY <3>2, <4>1, <4>2, <4>3, <1>7
    <3> QED BY <3>1, <3>2
  <2>2. ASSUME NEW q \in Findex,
               NEW i \in 1 .. Len(d.child_list[q]), NEW j \in 1 .. Len(d.child_list[q]),
               d.child_list[q][i] = d.child_list[q][j]
        PROVE  i = j
    <3>1. CASE q # p
      <4>1. d.child_list[q] = t.child_list[q]
        BY <3>1, <1>1, <1>5
      <4> QED BY <4>1, <2>2 DEF Linked
    <3>2. CASE q = p
      <4>1. d.child_list[q] = m
        BY <3>2, <1>1, <1>5
      <4>2. fwd(i) = fwd(j)
        <5>1. i \in 1 .. Len(m) /\ j \in 1 .. Len(m) /\ m[i] = m[j]
          BY <4>1, <2>2
        <5> HIDE DEF fwd, l
        <5> QED BY <5>1, <2>0, <1>8
      <4>3. i \in Int /\ j \in Int /\ k \in Int
        BY <4>1, <1>2, <1>3, <1>4
      <4> QED BY <4>2, <4>3
    <3> QED BY <3>1, <3>2
  <2> QED BY <2>1, <2>2 DEF Linked
<1>10. \A g \in Findex \ {p} : d.child_list[g] = t.child_list[g]
  BY <1>1, <1>5
<1>11. d.child_list[p] = m
  BY <1>1, <1>5
<1>12. \A i \in 1 .. k - 1 : d.child_list[p][i] = l[i]
  <2>1. \A i \in 1 .. k - 1 : i \in 1 .. Len(l) - 1 /\ i < k
    BY <1>2, <1>3
  <2> QED BY <2>1, <1>4, <1>11
<1> QED BY <1>3, <1>4, <1>5, <1>6, <1>9, <1>10, <1>11, <1>12 DEF d

\* A bounded, non-empty set of numbers has a largest member: io_load_map's "last
\* record wins" is well defined.
LEMMA MaxExists ==
  ASSUME NEW N \in Nat, NEW S \in SUBSET (0 .. N), S # {}
  PROVE  \E m \in S : \A n \in S : n <= m
<1> DEFINE T == {N - s : s \in S}
           R == OpToRel(<, Nat)
<1>0. \A s \in S : s \in Int /\ N - s \in Nat
  OBVIOUS
<1>1. T \subseteq Nat /\ T # {}
  BY <1>0
<1>2. IsWellFoundedOn(R, Nat)
  BY NatLessThanWellFounded
<1>3. \E x \in T : \A y \in T : ~(<<y, x>> \in R)
  <2> HIDE DEF T, R
  <2> QED BY <1>1, <1>2, WFMin
<1>4. PICK x \in T : \A y \in T : ~(<<y, x>> \in R)
  BY <1>3
<1>5. \A y \in T : ~(y < x)
  BY <1>1, <1>4 DEF OpToRel
<1>6. PICK m \in S : x = N - m
  OBVIOUS
<1>7. \A n \in S : N - n \in T
  OBVIOUS
<1>8. \A n \in S : ~(N - n < N - m)
  BY <1>5, <1>6, <1>7
<1>9. \A n \in S : n <= m
  BY <1>0, <1>8
<1> QED BY <1>9

\* Induction up to a bound, over a set instead of a predicate.
LEMMA BoundedInduction ==
  ASSUME NEW N \in Nat, NEW S, 0 \in S, \A n \in 0 .. N - 1 : n \in S => n + 1 \in S
  PROVE  0 .. N \subseteq S
<1> DEFINE G == {n \in 0 .. N : 0 .. n \subseteq S}
<1>1. 0 \in G
  OBVIOUS
<1>2. PICK m \in G : \A n \in G : n <= m
  <2> G \in SUBSET (0 .. N) /\ G # {}
    BY <1>1
  <2> HIDE DEF G
  <2> QED BY MaxExists
<1>3. CASE m < N
  <2>1. m \in S /\ m + 1 \in S
    BY <1>3
  <2>2. 0 .. m + 1 \subseteq S
    BY <2>1
  <2>3. m + 1 \in G
    BY <1>3, <2>2
  <2> QED BY <1>2, <2>3
<1> QED BY <1>2, <1>3

-----------------------------------------------------------------------------
(* Trees with branches that no list holds, as a load may leave them.  The   *)
(* child lists do not depend on the parent fields of such branches, so the  *)
(* lemmas above apply to the tree in which those fields are cleared.        *)

\* t without the parents of the branches that are in no list.
Pruned(t) ==
  [parent     |-> [c \in Findex |->
                     IF \E p \in Findex : \E i \in 1 .. Len(t.child_list[p]) : t.child_list[p][i] = c
                     THEN t.parent[c] ELSE NULL],
   child_list |-> t.child_list,
   total      |-> t.total]

\* A branch is listed iff it is in the list of its parent.
LEMMA ListedIn ==
  ASSUME NEW t \in Trees, ListsSound(t), NEW f \in Findex, t.parent[f] \in Findex
  PROVE  /\ branch_get_pos(t, f) \in Int
         /\ listed(t, f) <=> \E i \in 1 .. Len(t.child_list[t.parent[f]]) : t.child_list[t.parent[f]][i] = f
<1> DEFINE l == t.child_list[t.parent[f]]
           I == {i \in 1 .. Len(l) : l[i] = f}
<1>1. Len(l) \in Nat
  BY LenProperties DEF Trees
<1>2. branch_get_pos(t, f) = (IF I # {} THEN Min(I) ELSE 0) - 1
  BY DEF branch_get_pos, SelectInSeq
<1>3. CASE I = {}
  <2>1. branch_get_pos(t, f) = 0 - 1
    BY <1>2, <1>3
  <2>2. branch_get_pos(t, f) = -1
    BY <2>1
  <2> QED BY <1>3, <2>2 DEF listed
<1>4. CASE I # {}
  <2>1. PICK k \in 1 .. Len(l) : l[k] = f
    BY <1>4
  <2>2. I = {k}
    BY <2>1 DEF ListsSound
  <2>3. Min(I) = k
    BY <1>1, <2>1, <2>2 DEF Min
  <2>4. Min(I) \in 1 .. Len(l)
    BY <2>1, <2>3
  <2>5. branch_get_pos(t, f) = Min(I) - 1
    BY <1>2, <1>4
  <2> HIDE DEF I
  <2>6. branch_get_pos(t, f) \in Int /\ branch_get_pos(t, f) # -1
    BY <1>1, <2>4, <2>5
  <2> QED BY <1>4, <2>6 DEF listed, I
<1> QED BY <1>3, <1>4

LEMMA PrunedLinked ==
  ASSUME NEW t \in Trees, ListsSound(t)
  PROVE  /\ Pruned(t) \in Trees /\ Linked(Pruned(t))
         /\ Pruned(t).child_list = t.child_list
         /\ \A c \in Findex : Pruned(t).parent[c] \in {t.parent[c], NULL}
         /\ \A c \in Findex : t.parent[c] \in Findex /\ listed(t, c) =>
              /\ Pruned(t).parent[c] = t.parent[c]
              /\ branch_get_pos(Pruned(t), c) = branch_get_pos(t, c)
<1> DEFINE s == Pruned(t)
           In(c, p) == \E i \in 1 .. Len(t.child_list[p]) : t.child_list[p][i] = c
<1>1. /\ s.child_list = t.child_list
      /\ \A c \in Findex : s.parent[c] = IF \E p \in Findex : In(c, p) THEN t.parent[c] ELSE NULL
  BY DEF Pruned
<1>2. s \in Trees
  BY DEF Pruned, Trees
<1>3. \A c, p \in Findex : In(c, p) => t.parent[c] = p
  BY DEF ListsSound
<1>4. \A p \in Findex : \A i, j \in 1 .. Len(t.child_list[p]) :
        t.child_list[p][i] = t.child_list[p][j] => i = j
  BY DEF ListsSound
<1> HIDE DEF s
<1>5. \A c, p \in Findex : s.parent[c] = p <=> In(c, p)
  BY <1>1, <1>3, NullNotFindex
<1>6. Linked(s)
  BY <1>1, <1>4, <1>5 DEF Linked
<1>7. ASSUME NEW c \in Findex, t.parent[c] \in Findex, listed(t, c)
      PROVE  s.parent[c] = t.parent[c] /\ branch_get_pos(s, c) = branch_get_pos(t, c)
  <2>1. In(c, t.parent[c])
    BY <1>7, ListedIn
  <2>2. s.parent[c] = t.parent[c]
    BY <1>1, <1>7, <2>1
  <2> QED BY <1>1, <2>2 DEF branch_get_pos
<1> QED BY <1>1, <1>2, <1>6, <1>7 DEF s

LEMMA LinkedSound ==
  ASSUME NEW t \in Trees, Linked(t)
  PROVE  /\ ListsSound(t)
         /\ \A f \in Findex : t.parent[f] \in Findex => listed(t, f)
<1>1. ASSUME NEW f \in Findex, t.parent[f] \in Findex PROVE listed(t, f)
  <2>1. branch_get_pos(t, f) \in Nat
    BY <1>1, PosType
  <2> QED BY <2>1 DEF listed
<1>2. ASSUME NEW p \in Findex, NEW i \in 1 .. Len(t.child_list[p])
      PROVE  t.parent[t.child_list[p][i]] = p
  BY PosUnique
<1>3. ListsSound(t)
  BY <1>2 DEF ListsSound, Linked
<1> QED BY <1>1, <1>3

\* branch_get_pos of a listed branch.
LEMMA SoundPos ==
  ASSUME NEW t \in Trees, ListsSound(t), NEW f \in Findex, t.parent[f] \in Findex, listed(t, f)
  PROVE  branch_get_pos(t, f) \in Nat
<1>1. Pruned(t) \in Trees /\ Linked(Pruned(t)) /\ Pruned(t).parent[f] \in Findex
  BY PrunedLinked
<1>2. branch_get_pos(Pruned(t), f) \in Nat
  BY <1>1, PosType
<1> QED BY <1>2, PrunedLinked

\* branch_add puts the branch into the list, and no other list changes.
LEMMA SoundAdd ==
  ASSUME NEW t \in Trees, ListsSound(t), NEW f \in Findex, NEW p \in Findex, NEW pos \in Int,
         t.parent[f] = NULL
  PROVE  LET a == branch_add(t, f, p, pos)
         IN  /\ a \in Trees
             /\ ListsSound(a)
             /\ a.parent = [t.parent EXCEPT ![f] = p]
             /\ branch_get_pos(a, f) \in Nat
<1> DEFINE s == Pruned(t)
           a == branch_add(t, f, p, pos)
           b == branch_add(s, f, p, pos)
<1>1. /\ s \in Trees /\ Linked(s) /\ s.child_list = t.child_list
      /\ \A c \in Findex : s.parent[c] \in {t.parent[c], NULL}
  BY PrunedLinked
<1> HIDE DEF s
<1>2. s.parent[f] = NULL
  BY <1>1
<1>3. b \in Trees /\ Linked(b) /\ b.parent = [s.parent EXCEPT ![f] = p]
  <2>1. s \in Trees /\ Linked(s)
    BY <1>1
  <2> QED BY <1>2, <2>1, AddProperties
<1>4. /\ a.child_list = b.child_list
      /\ a.parent = [t.parent EXCEPT ![f] = p]
      /\ a.total = branch_increase(a.parent, t.total, f, t.total[f] + 1)
      /\ a = [parent |-> a.parent, child_list |-> a.child_list, total |-> a.total]
  BY <1>1 DEF branch_add
<1>5. a \in Trees
  <2>1. t.total[f] + 1 \in Int /\ t.total \in [Findex -> Int]
        /\ t.parent \in [Findex -> Findex \cup {NULL}]
    BY DEF Trees
  <2>2. \A q : branch_increase(q, t.total, f, t.total[f] + 1) \in [Findex -> Int]
    BY <2>1, IncreaseType
  <2>3. a.parent \in [Findex -> Findex \cup {NULL}]
    BY <1>4, <2>1
  <2>4. b.child_list \in [Findex -> Seq(Findex)]
    BY <1>3 DEF Trees
  <2> HIDE DEF a, b
  <2>5. a.total \in [Findex -> Int] /\ a.child_list \in [Findex -> Seq(Findex)]
    BY <1>4, <2>2, <2>4
  <2>6. a = [parent |-> a.parent, child_list |-> a.child_list, total |-> a.total]
    BY <1>4
  <2> QED BY ONLY <2>3, <2>5, <2>6 DEF Trees
<1> HIDE DEF a, b
<1>6. \A c \in Findex : b.parent[c] # NULL => a.parent[c] = b.parent[c]
  BY <1>1, <1>3, <1>4, ZenonT(60) DEF Trees
<1>7. ListsSound(b)
  BY <1>3, LinkedSound
<1>8. ListsSound(a)
  <2>1. ASSUME NEW q \in Findex, NEW i \in 1 .. Len(a.child_list[q])
        PROVE  a.parent[a.child_list[q][i]] = q
    <3>0. b \in Trees /\ Linked(b) /\ i \in 1 .. Len(b.child_list[q])
      BY <1>3, <1>4, <2>1
    <3>1. b.parent[b.child_list[q][i]] = q /\ b.child_list[q][i] \in Findex
      BY ONLY <2>1, <3>0, PosUnique
    <3> QED BY <1>4, <1>6, <3>1, NullNotFindex
  <2> QED BY <1>4, <1>7, <2>1 DEF ListsSound
<1>9. branch_get_pos(a, f) \in Nat
  <2>1. b.parent[f] = p /\ a.parent[f] = p
    BY <1>1, <1>3, <1>4 DEF Trees
  <2>2. branch_get_pos(b, f) \in Nat
    BY <1>3, <2>1, PosType
  <2> QED BY <1>4, <2>1, <2>2 DEF branch_get_pos
<1> QED BY <1>4, <1>5, <1>8, <1>9 DEF a

\* branch_detach of a listed branch takes it out of the list.
LEMMA SoundDetach ==
  ASSUME NEW t \in Trees, ListsSound(t), NEW f \in Findex, t.parent[f] \in Findex, listed(t, f)
  PROVE  LET d == branch_detach(t, f)
         IN  /\ d \in Trees
             /\ ListsSound(d)
             /\ d.parent = [t.parent EXCEPT ![f] = NULL]
<1> DEFINE s == Pruned(t)
           d == branch_detach(t, f)
           e == branch_detach(s, f)
<1>1. /\ s \in Trees /\ Linked(s) /\ s.child_list = t.child_list
      /\ \A c \in Findex : s.parent[c] \in {t.parent[c], NULL}
      /\ s.parent[f] = t.parent[f] /\ branch_get_pos(s, f) = branch_get_pos(t, f)
  BY PrunedLinked
<1> HIDE DEF s
<1>2. e \in Trees /\ Linked(e) /\ e.parent = [s.parent EXCEPT ![f] = NULL]
  <2>1. s \in Trees /\ Linked(s) /\ s.parent[f] \in Findex
    BY <1>1
  <2> QED BY <2>1, DetachProperties
<1>3. /\ d.child_list = e.child_list
      /\ d.parent = [t.parent EXCEPT ![f] = NULL]
      /\ d.total = branch_increase(t.parent, t.total, f, -(t.total[f]) - 1)
      /\ d = [parent |-> d.parent, child_list |-> d.child_list, total |-> d.total]
  BY <1>1 DEF branch_detach
<1>4. d \in Trees
  <2>1. -(t.total[f]) - 1 \in Int /\ t.total \in [Findex -> Int]
        /\ t.parent \in [Findex -> Findex \cup {NULL}]
    BY DEF Trees
  <2>2. \A q : branch_increase(q, t.total, f, -(t.total[f]) - 1) \in [Findex -> Int]
    BY <2>1, IncreaseType
  <2>3. d.parent \in [Findex -> Findex \cup {NULL}]
    BY <1>3, <2>1
  <2>4. e.child_list \in [Findex -> Seq(Findex)]
    BY <1>2 DEF Trees
  <2> HIDE DEF d, e
  <2>5. d.total \in [Findex -> Int] /\ d.child_list \in [Findex -> Seq(Findex)]
    BY <1>3, <2>2, <2>4
  <2>6. d = [parent |-> d.parent, child_list |-> d.child_list, total |-> d.total]
    BY <1>3
  <2> QED BY ONLY <2>3, <2>5, <2>6 DEF Trees
<1> HIDE DEF d, e
<1>5. \A c \in Findex : e.parent[c] # NULL => d.parent[c] = e.parent[c]
  BY <1>1, <1>2, <1>3 DEF Trees
<1>6. ListsSound(e)
  BY <1>2, LinkedSound
<1>7. ListsSound(d)
  <2>1. ASSUME NEW q \in Findex, NEW i \in 1 .. Len(d.child_list[q])
        PROVE  d.parent[d.child_list[q][i]] = q
    <3>0. e \in Trees /\ Linked(e) /\ i \in 1 .. Len(e.child_list[q])
      BY <1>2, <1>3, <2>1
    <3>1. e.parent[e.child_list[q][i]] = q /\ e.child_list[q][i] \in Findex
      BY ONLY <2>1, <3>0, PosUnique
    <3> QED BY <1>3, <1>5, <3>1, NullNotFindex
  <2> QED BY <1>3, <1>6, <2>1 DEF ListsSound
<1> QED BY <1>3, <1>4, <1>7 DEF d

-----------------------------------------------------------------------------
(* The branches above a branch. *)

\* One step of while((b=b->parent)).
ParentOf(parent, g) == IF g = NULL THEN NULL ELSE parent[g]

\* The steps of the loop from f on.
Climbs(parent, f, n, u) == u[0] = f /\ \A k \in 1 .. n : u[k] = ParentOf(parent, u[k - 1])

\* Every branch can be climbed from.
LEMMA ClimbExists ==
  ASSUME NEW parent \in [Findex -> Findex \cup {NULL}], NEW f \in Findex
  PROVE  \E u \in [0 .. MaxBranch -> Findex \cup {NULL}] : Climbs(parent, f, MaxBranch, u)
<1> DEFINE V == Findex \cup {NULL}
           G == {n \in 0 .. MaxBranch : \E u \in [0 .. n -> V] : Climbs(parent, f, n, u)}
<1>0. MaxBranch \in Nat /\ \A g \in V : ParentOf(parent, g) \in V
  BY MaxBranchNat, NullNotFindex DEF ParentOf
<1>1. 0 \in G
  <2>1. [k \in 0 .. 0 |-> f] \in [0 .. 0 -> V]
    OBVIOUS
  <2>2. Climbs(parent, f, 0, [k \in 0 .. 0 |-> f])
    BY DEF Climbs
  <2> QED BY <1>0, <2>1, <2>2
<1>2. ASSUME NEW n \in 0 .. MaxBranch - 1, n \in G
      PROVE  n + 1 \in G
  <2>1. PICK u \in [0 .. n -> V] : Climbs(parent, f, n, u)
    BY <1>2
  <2> DEFINE v == [k \in 0 .. n + 1 |-> IF k = n + 1 THEN ParentOf(parent, u[n]) ELSE u[k]]
  <2>2. n \in Nat /\ u[n] \in V
    BY <1>2, <1>0, <2>1
  <2>3. v \in [0 .. n + 1 -> V]
    BY <1>0, <2>1, <2>2
  <2>4. v[0] = f /\ \A k \in 1 .. n + 1 : v[k] = ParentOf(parent, v[k - 1])
    <3>1. v[0] = f
      BY <2>1, <2>2 DEF Climbs
    <3>2. ASSUME NEW k \in 1 .. n + 1 PROVE v[k] = ParentOf(parent, v[k - 1])
      <4>1. CASE k = n + 1
        <5>1. v[n + 1] = ParentOf(parent, u[n]) /\ v[n] = u[n]
          BY <2>2
        <5> QED BY <4>1, <5>1, <2>2
      <4>2. CASE k # n + 1
        <5>1. k \in 1 .. n /\ v[k] = u[k] /\ v[k - 1] = u[k - 1]
          BY <4>2, <2>2
        <5>2. u[k] = ParentOf(parent, u[k - 1])
          BY <5>1, <2>1 DEF Climbs
        <5> QED BY <5>1, <5>2
      <4> QED BY <4>1, <4>2
    <3> QED BY <3>1, <3>2
  <2>5. Climbs(parent, f, n + 1, v)
    BY <2>4 DEF Climbs
  <2>6. n + 1 \in 0 .. MaxBranch
    BY <1>0
  <2> HIDE DEF v
  <2> QED BY <2>3, <2>5, <2>6
<1>3. MaxBranch \in G
  <2> HIDE DEF G
  <2>1. 0 .. MaxBranch \subseteq G
    BY <1>0, <1>1, <1>2, BoundedInduction
  <2> QED BY <1>0, <2>1
<1> QED BY <1>3

\* Ancestors collects what the loop visits.
LEMMA AncestorsClimb ==
  ASSUME NEW parent \in [Findex -> Findex \cup {NULL}], NEW f \in Findex
  PROVE  \E u \in [0 .. MaxBranch -> Findex \cup {NULL}] :
           /\ Climbs(parent, f, MaxBranch, u)
           /\ Ancestors(parent, f) = {u[n] : n \in 1 .. MaxBranch} \ {NULL}
<1> DEFINE Rec(u) == [n \in 0 .. MaxBranch |->
                        IF n = 0 THEN f
                        ELSE LET g == u[n - 1] IN IF g = NULL THEN NULL ELSE parent[g]]
           c == CHOOSE u : u = Rec(u)
<1>0. MaxBranch \in Nat
  BY MaxBranchNat
<1>1. PICK u \in [0 .. MaxBranch -> Findex \cup {NULL}] : Climbs(parent, f, MaxBranch, u)
  BY ClimbExists
<1>2. u = Rec(u)
  BY <1>0, <1>1 DEF Climbs, ParentOf
<1>3. c = Rec(c)
  BY <1>2
<1>4. Ancestors(parent, f) = {c[n] : n \in 1 .. MaxBranch} \ {NULL}
  BY DEF Ancestors
<1> HIDE DEF c
<1>5. Climbs(parent, f, MaxBranch, c)
  BY <1>0, <1>3 DEF Climbs, ParentOf
<1>6. c \in [0 .. MaxBranch -> Findex \cup {NULL}]
  <2>1. ASSUME NEW n \in 0 .. MaxBranch PROVE c[n] \in Findex \cup {NULL}
    <3> DEFINE T == {k \in 0 .. MaxBranch : c[k] \in Findex \cup {NULL}}
    <3>1. 0 \in T
      BY <1>0, <1>5 DEF Climbs
    <3>2. \A k \in 0 .. MaxBranch - 1 : k \in T => k + 1 \in T
      <4> TAKE k \in 0 .. MaxBranch - 1
      <4> HAVE k \in T
      <4>1. k + 1 \in 1 .. MaxBranch /\ (k + 1) - 1 = k
        BY <1>0
      <4>2. c[k + 1] = ParentOf(parent, c[k])
        BY <4>1, <1>5 DEF Climbs
      <4> QED BY <1>0, <4>1, <4>2, NullNotFindex DEF ParentOf
    <3> HIDE DEF T
    <3>3. 0 .. MaxBranch \subseteq T
      BY <1>0, <3>1, <3>2, BoundedInduction
    <3> QED BY <3>3 DEF T
  <2>2. c = [n \in 0 .. MaxBranch |-> c[n]]
    BY <1>3
  <2> QED BY <2>1, <2>2
<1> QED BY <1>4, <1>5, <1>6

\* A set of branches that holds with every branch its parent.
Closed(parent, S) == \A x \in S : parent[x] # NULL => parent[x] \in S

\* A climb that is not over after MaxBranch steps has met a branch twice.
LEMMA ClimbRepeats ==
  ASSUME NEW parent \in [Findex -> Findex \cup {NULL}], NEW f \in Findex,
         NEW u \in [0 .. MaxBranch -> Findex \cup {NULL}], Climbs(parent, f, MaxBranch, u),
         u[MaxBranch] # NULL
  PROVE  \E n \in 1 .. MaxBranch : u[n] = parent[u[MaxBranch]]
<1>0. MaxBranch \in Nat /\ MaxBranch >= 1
  BY MaxBranchNat
<1>a. ASSUME NEW k \in 0 .. MaxBranch - 1
      PROVE  u[k + 1] = ParentOf(parent, u[k])
  <2>1. k + 1 \in 1 .. MaxBranch /\ (k + 1) - 1 = k
    BY <1>0
  <2> QED BY <2>1 DEF Climbs
<1>1. ASSUME NEW n \in 0 .. MaxBranch PROVE u[n] # NULL
  <2> DEFINE T == {k \in 0 .. MaxBranch : u[MaxBranch - k] # NULL}
  <2>1. 0 \in T
    BY <1>0
  <2>2. ASSUME NEW k \in 0 .. MaxBranch - 1, k \in T PROVE k + 1 \in T
    <3>1. MaxBranch - (k + 1) \in 0 .. MaxBranch - 1
          /\ (MaxBranch - (k + 1)) + 1 = MaxBranch - k /\ k + 1 \in 0 .. MaxBranch
      BY <1>0
    <3>2. u[MaxBranch - k] = ParentOf(parent, u[MaxBranch - (k + 1)])
      BY <1>a, <3>1
    <3>3. u[MaxBranch - k] # NULL
      BY <2>2
    <3>4. u[MaxBranch - (k + 1)] # NULL
      BY <3>2, <3>3 DEF ParentOf
    <3> QED BY <3>1, <3>4
  <2> HIDE DEF T
  <2>3. 0 .. MaxBranch \subseteq T
    BY <1>0, <2>1, <2>2, BoundedInduction
  <2>4. MaxBranch - n \in T
    BY <1>0, <2>3
  <2>5. MaxBranch - (MaxBranch - n) = n
    BY <1>0
  <2> QED BY <2>4, <2>5 DEF T
<1>2. u \in [0 .. MaxBranch -> Findex]
  BY <1>1
<1>3. \E i, j \in 0 .. MaxBranch : i # j /\ u[i] = u[j]
  <2> DEFINE D == 0 .. MaxBranch
  <2>1. IsFiniteSet(0 .. MaxBranch) /\ Cardinality(0 .. MaxBranch) = MaxBranch + 1
    BY <1>0, FS_Interval
  <2>2. IsFiniteSet(Findex) /\ Cardinality(Findex) = MaxBranch
    BY <1>0, FS_Interval DEF Findex
  <2>3. IsFiniteSet(D) /\ Cardinality(Findex) < Cardinality(D) /\ u \in [D -> Findex]
    BY <1>0, <1>2, <2>1, <2>2
  <2> HIDE DEF D
  <2>4. IsFiniteSet(Findex)
    BY <2>2
  <2> HIDE DEF D
  <2>5. \E i, j \in D : i # j /\ u[i] = u[j]
    BY <2>3, <2>4, FS_PigeonHole
  <2> QED BY <2>5 DEF D
<1>4. PICK i \in 0 .. MaxBranch, j \in 0 .. MaxBranch : i < j /\ u[i] = u[j]
  <2>1. PICK i \in 0 .. MaxBranch, j \in 0 .. MaxBranch : i # j /\ u[i] = u[j]
    BY <1>3
  <2> QED BY <1>0, <2>1
<1>5. ASSUME NEW k \in 0 .. MaxBranch - j PROVE u[i + k] = u[j + k]
  <2> DEFINE T == {n \in 0 .. MaxBranch - j : u[i + n] = u[j + n]}
  <2>1. 0 \in T /\ MaxBranch - j \in Nat
    BY <1>0, <1>4
  <2>2. ASSUME NEW n \in 0 .. (MaxBranch - j) - 1, n \in T PROVE n + 1 \in T
    <3>1. i + n \in 0 .. MaxBranch - 1 /\ j + n \in 0 .. MaxBranch - 1
          /\ n + 1 \in 0 .. MaxBranch - j /\ (i + n) + 1 = i + (n + 1) /\ (j + n) + 1 = j + (n + 1)
      BY <1>0, <1>4
    <3>2. u[i + (n + 1)] = ParentOf(parent, u[i + n]) /\ u[j + (n + 1)] = ParentOf(parent, u[j + n])
      BY <1>a, <3>1
    <3>3. u[i + n] = u[j + n]
      BY <2>2
    <3> QED BY <3>1, <3>2, <3>3
  <2> HIDE DEF T
  <2>3. 0 .. MaxBranch - j \subseteq T
    BY <2>1, <2>2, BoundedInduction
  <2> QED BY <2>3 DEF T
<1> DEFINE k == i + (MaxBranch - j)
<1>6. k \in 0 .. MaxBranch - 1 /\ k + 1 \in 1 .. MaxBranch
  BY <1>0, <1>4
<1>7. u[k] = u[MaxBranch]
  <2>1. MaxBranch - j \in 0 .. MaxBranch - j /\ j + (MaxBranch - j) = MaxBranch
    BY <1>0, <1>4
  <2> QED BY <1>5, <2>1
<1> HIDE DEF k
<1>8. u[k + 1] = parent[u[MaxBranch]]
  BY <1>a, <1>6, <1>7 DEF ParentOf
<1> QED BY <1>6, <1>8

\* The branches above f are the least set that holds its parent and is closed.
LEMMA AncestorsProperties ==
  ASSUME NEW parent \in [Findex -> Findex \cup {NULL}], NEW f \in Findex
  PROVE  /\ Ancestors(parent, f) \subseteq Findex
         /\ parent[f] # NULL => parent[f] \in Ancestors(parent, f)
         /\ parent[f] = NULL => Ancestors(parent, f) = {}
         /\ Closed(parent, Ancestors(parent, f))
         /\ \A S \in SUBSET Findex :
              (parent[f] # NULL => parent[f] \in S) /\ Closed(parent, S)
                => Ancestors(parent, f) \subseteq S
<1> DEFINE A == Ancestors(parent, f)
<1>0. MaxBranch \in Nat /\ MaxBranch >= 1 /\ NULL \notin Findex
  BY MaxBranchNat, NullNotFindex
<1>1. PICK u \in [0 .. MaxBranch -> Findex \cup {NULL}] :
             /\ Climbs(parent, f, MaxBranch, u)
             /\ A = {u[n] : n \in 1 .. MaxBranch} \ {NULL}
  BY AncestorsClimb
<1> HIDE DEF A
<1>a. u[0] = f /\ \A n \in 0 .. MaxBranch - 1 : u[n + 1] = ParentOf(parent, u[n])
  <2>1. ASSUME NEW n \in 0 .. MaxBranch - 1 PROVE u[n + 1] = ParentOf(parent, u[n])
    <3>1. n + 1 \in 1 .. MaxBranch /\ (n + 1) - 1 = n
      BY <1>0
    <3> QED BY <1>1, <3>1 DEF Climbs
  <2> QED BY <1>1, <2>1 DEF Climbs
<1>2. A \subseteq Findex
  BY <1>0, <1>1
<1>3. u[1] = parent[f]
  <2>1. 0 \in 0 .. MaxBranch - 1 /\ 0 + 1 = 1
    BY <1>0
  <2> QED BY <1>0, <1>a, <2>1 DEF ParentOf
<1>4. parent[f] # NULL => parent[f] \in A
  BY <1>0, <1>1, <1>3
<1>5. Closed(parent, A)
  <2> SUFFICES ASSUME NEW x \in A, parent[x] # NULL PROVE parent[x] \in A
    BY DEF Closed
  <2>1. PICK n \in 1 .. MaxBranch : u[n] = x /\ x # NULL
    BY <1>1
  <2>2. CASE n < MaxBranch
    <3>1. n \in 0 .. MaxBranch - 1 /\ n + 1 \in 1 .. MaxBranch
      BY <1>0, <2>1, <2>2
    <3>2. u[n + 1] = parent[x]
      BY <1>a, <2>1, <3>1 DEF ParentOf
    <3> QED BY <1>1, <3>1, <3>2
  <2>3. CASE n = MaxBranch
    <3>1. \E m \in 1 .. MaxBranch : u[m] = parent[x]
      BY <1>1, <2>1, <2>3, ClimbRepeats
    <3> QED BY <1>1, <3>1
  <2> QED BY <1>0, <2>2, <2>3
<1>6. ASSUME NEW S \in SUBSET Findex, parent[f] # NULL => parent[f] \in S, Closed(parent, S)
      PROVE  A \subseteq S
  <2> DEFINE T == {n \in 0 .. MaxBranch : n = 0 \/ u[n] \in S \cup {NULL}}
  <2>1. 0 \in T
    BY <1>0
  <2>2. ASSUME NEW n \in 0 .. MaxBranch - 1, n \in T PROVE n + 1 \in T
    <3>1. n + 1 \in 0 .. MaxBranch /\ u[n + 1] = ParentOf(parent, u[n])
      BY <1>0, <1>a
    <3>2. CASE n = 0
      BY <3>1, <3>2, <1>3, <1>6
    <3>3. CASE u[n] = NULL
      BY <3>1, <3>3 DEF ParentOf
    <3>4. CASE u[n] \in S
      BY <3>1, <3>4, <1>0, <1>6 DEF ParentOf, Closed
    <3> QED BY <2>2, <3>2, <3>3, <3>4
  <2> HIDE DEF T
  <2>3. 0 .. MaxBranch \subseteq T
    BY <1>0, <2>1, <2>2, BoundedInduction
  <2>4. \A n \in 1 .. MaxBranch : u[n] \in S \cup {NULL}
    BY <1>0, <2>3 DEF T
  <2> QED BY <1>1, <2>4
<1>7. parent[f] = NULL => A = {}
  <2>1. {} \in SUBSET Findex /\ Closed(parent, {})
    BY DEF Closed
  <2> QED BY <1>6, <2>1
<1> QED BY <1>2, <1>4, <1>5, <1>6, <1>7 DEF A

\* The branches above f: its parent, and those above its parent.
LEMMA AncestorsStep ==
  ASSUME NEW parent \in [Findex -> Findex \cup {NULL}], NEW f \in Findex, parent[f] # NULL
  PROVE  Ancestors(parent, f) = {parent[f]} \cup Ancestors(parent, parent[f])
<1> DEFINE p == parent[f]
           S == {p} \cup Ancestors(parent, p)
<1>0. p \in Findex
  OBVIOUS
<1>1. /\ Ancestors(parent, p) \subseteq Findex
      /\ Closed(parent, Ancestors(parent, p))
      /\ parent[p] # NULL => parent[p] \in Ancestors(parent, p)
  BY <1>0, AncestorsProperties
<1>2. S \in SUBSET Findex /\ Closed(parent, S)
  BY <1>0, <1>1 DEF Closed
<1>3. /\ p \in Ancestors(parent, f) /\ Closed(parent, Ancestors(parent, f))
      /\ Ancestors(parent, f) \in SUBSET Findex
  BY AncestorsProperties
<1> HIDE DEF p
<1>4. Ancestors(parent, f) \subseteq S
  BY <1>2, AncestorsProperties DEF p
<1>5. Ancestors(parent, p) \subseteq Ancestors(parent, f)
  <2>1. parent[p] # NULL => parent[p] \in Ancestors(parent, f)
    BY <1>3 DEF Closed
  <2> QED BY <1>0, <1>3, <2>1, AncestorsProperties
<1> QED BY <1>3, <1>4, <1>5 DEF p

\* Who is above a branch above f is above f.
LEMMA AncestorsTransitive ==
  ASSUME NEW parent \in [Findex -> Findex \cup {NULL}], NEW f \in Findex,
         NEW g \in Ancestors(parent, f)
  PROVE  g \in Findex /\ Ancestors(parent, g) \subseteq Ancestors(parent, f)
<1>1. /\ Ancestors(parent, f) \in SUBSET Findex
      /\ Closed(parent, Ancestors(parent, f))
  BY AncestorsProperties
<1>2. parent[g] # NULL => parent[g] \in Ancestors(parent, f)
  BY <1>1 DEF Closed
<1> QED BY <1>1, <1>2, AncestorsProperties

\* Of two branches above g one is above the other.
LEMMA AncestorsChain ==
  ASSUME NEW parent \in [Findex -> Findex \cup {NULL}], NEW g \in Findex,
         NEW f \in Ancestors(parent, g), NEW x \in Ancestors(parent, g)
  PROVE  x = f \/ f \in Ancestors(parent, x) \/ x \in Ancestors(parent, f)
<1> DEFINE A(y) == Ancestors(parent, y)
           S == {y \in Findex : y = f \/ f \in A(y) \/ y \in A(f)}
<1>0. f \in Findex /\ parent[g] # NULL /\ parent[g] \in Findex
  BY AncestorsProperties
<1>1. parent[g] \in S
  BY <1>0, AncestorsStep
<1>2. ASSUME NEW y \in S, parent[y] # NULL PROVE parent[y] \in S
  <2>1. y \in Findex /\ parent[y] \in Findex
    BY <1>2
  <2>2. CASE y = f \/ y \in A(f)
    <3>1. parent[y] \in A(f)
      BY <1>0, <1>2, <2>2, AncestorsProperties DEF Closed
    <3> QED BY <2>1, <3>1
  <2>3. CASE f \in A(y)
    <3>1. A(y) = {parent[y]} \cup A(parent[y])
      BY <1>2, <2>1, AncestorsStep
    <3> QED BY <2>1, <2>3, <3>1
  <2> QED BY <1>2, <2>2, <2>3
<1>3. S \in SUBSET Findex /\ Closed(parent, S)
  BY <1>2 DEF Closed
<1> HIDE DEF S
<1>4. A(g) \subseteq S
  BY <1>1, <1>3, AncestorsProperties
<1> QED BY <1>4 DEF S

\* A branch from which the root is reached is not above itself.
LEMMA NoCycle ==
  ASSUME NEW parent \in [Findex -> Findex \cup {NULL}], NEW f \in Findex,
         NEW r \in Ancestors(parent, f), parent[r] = NULL
  PROVE  f \notin Ancestors(parent, f)
<1> SUFFICES ASSUME f \in Ancestors(parent, f) PROVE FALSE
  OBVIOUS
<1>1. r \in Findex /\ Ancestors(parent, r) = {}
  BY AncestorsProperties
<1> DEFINE S == {y \in Findex : f \in Ancestors(parent, y)}
<1>2. parent[f] # NULL /\ parent[f] \in Findex
  BY AncestorsProperties
<1>3. ASSUME NEW y \in Findex, f \in Ancestors(parent, y), parent[y] # NULL
      PROVE  parent[y] \in S
  <2>1. Ancestors(parent, y) = {parent[y]} \cup Ancestors(parent, parent[y])
    BY <1>3, AncestorsStep
  <2>2. parent[y] \in Findex
    BY <1>3
  <2> QED BY <1>3, <2>1, <2>2
<1>4. parent[f] \in S
  BY <1>2, <1>3
<1>5. S \in SUBSET Findex /\ Closed(parent, S)
  BY <1>3 DEF Closed
<1> HIDE DEF S
<1>6. Ancestors(parent, f) \subseteq S
  BY <1>4, <1>5, AncestorsProperties
<1>7. r \in S
  BY <1>6
<1> QED BY <1>1, <1>7 DEF S

\* What is above g once f has been linked under p, and once f has been unlinked.
AboveAdded(parent, f, p, g) ==
  IF g = f \/ f \in Ancestors(parent, g)
  THEN Ancestors(parent, g) \cup {p} \cup Ancestors(parent, p)
  ELSE Ancestors(parent, g)
AboveDetached(parent, f, g) ==
  IF g = f THEN {}
  ELSE IF f \in Ancestors(parent, g) THEN Ancestors(parent, g) \ Ancestors(parent, f)
  ELSE Ancestors(parent, g)

\* Linking a branch adds its new parent and what is above that.
LEMMA AncestorsAdd ==
  ASSUME NEW parent \in [Findex -> Findex \cup {NULL}], NEW f \in Findex, parent[f] = NULL,
         NEW p \in Findex, NEW g \in Findex, NEW a \in [Findex -> Findex \cup {NULL}],
         a[f] = p, \A x \in Findex \ {f} : a[x] = parent[x]
  PROVE  Ancestors(a, g) = AboveAdded(parent, f, p, g)
<1> USE DEF AboveAdded
<1> DEFINE A == Ancestors(parent, g)
           P == Ancestors(parent, p)
           B == Ancestors(a, g)
<1>0. a \in [Findex -> Findex \cup {NULL}] /\ a[f] = p /\ NULL \notin Findex
      /\ \A x \in Findex : x # f => a[x] = parent[x]
  BY NullNotFindex
<1>1. A \in SUBSET Findex /\ Closed(parent, A) /\ (parent[g] # NULL => parent[g] \in A)
  BY AncestorsProperties
<1>2. P \in SUBSET Findex /\ Closed(parent, P) /\ (parent[p] # NULL => parent[p] \in P)
  BY AncestorsProperties
<1>3. B \in SUBSET Findex /\ Closed(a, B) /\ (a[g] # NULL => a[g] \in B)
  BY <1>0, AncestorsProperties
<1>4. ASSUME NEW S \in SUBSET Findex, a[g] # NULL => a[g] \in S, Closed(a, S)
      PROVE  B \subseteq S
  BY <1>0, <1>4, AncestorsProperties
<1>5. Closed(parent, B)
  BY <1>0, <1>3 DEF Closed
<1>6. A \subseteq B
  <2>1. parent[g] # NULL => parent[g] \in B
    BY <1>0, <1>3
  <2> QED BY <1>3, <1>5, <2>1, AncestorsProperties
<1>7. CASE g = f \/ f \in A
  <2>1. p \in B
    BY <1>0, <1>3, <1>6, <1>7 DEF Closed
  <2>2. P \subseteq B
    <3>1. parent[p] # NULL => parent[p] \in B
      BY <1>5, <2>1 DEF Closed
    <3> QED BY <1>3, <1>5, <3>1, AncestorsProperties
  <2>3. B \subseteq A \cup {p} \cup P
    <3>1. Closed(a, A \cup {p} \cup P)
      BY <1>0, <1>1, <1>2 DEF Closed
    <3>2. a[g] # NULL => a[g] \in A \cup {p} \cup P
      BY <1>0, <1>1
    <3>3. A \cup {p} \cup P \in SUBSET Findex
      BY <1>1, <1>2
    <3> QED BY <1>4, <3>1, <3>2, <3>3
  <2> QED BY <1>6, <1>7, <2>1, <2>2, <2>3
<1>8. CASE ~(g = f \/ f \in A)
  <2>1. Closed(a, A) /\ (a[g] # NULL => a[g] \in A)
    BY <1>0, <1>1, <1>8 DEF Closed
  <2> QED BY <1>1, <1>4, <1>6, <1>8, <2>1
<1> QED BY <1>7, <1>8

\* Unlinking a branch takes away what was above it.
LEMMA AncestorsDetach ==
  ASSUME NEW parent \in [Findex -> Findex \cup {NULL}], NEW f \in Findex,
         f \notin Ancestors(parent, f), NEW g \in Findex, NEW d \in [Findex -> Findex \cup {NULL}],
         d[f] = NULL, \A x \in Findex \ {f} : d[x] = parent[x]
  PROVE  Ancestors(d, g) = AboveDetached(parent, f, g)
<1> USE DEF AboveDetached
<1> DEFINE A == Ancestors(parent, g)
           F == Ancestors(parent, f)
           B == Ancestors(d, g)
<1>0. d \in [Findex -> Findex \cup {NULL}] /\ d[f] = NULL /\ NULL \notin Findex
      /\ \A x \in Findex : x # f => d[x] = parent[x]
  BY NullNotFindex
<1>1. A \in SUBSET Findex /\ Closed(parent, A) /\ (parent[g] # NULL => parent[g] \in A)
  BY AncestorsProperties
<1>2. F \in SUBSET Findex /\ Closed(parent, F) /\ (parent[f] # NULL => parent[f] \in F)
  BY AncestorsProperties
<1>3. B \in SUBSET Findex /\ Closed(d, B) /\ (d[g] # NULL => d[g] \in B)
      /\ (d[g] = NULL => B = {})
  BY <1>0, AncestorsProperties
<1>4. ASSUME NEW S \in SUBSET Findex, d[g] # NULL => d[g] \in S, Closed(d, S)
      PROVE  B \subseteq S
  BY <1>0, <1>4, AncestorsProperties
<1>5. CASE g = f
  BY <1>0, <1>3, <1>5
<1>6. CASE g # f /\ f \notin A
  <2>1. Closed(d, A) /\ (d[g] # NULL => d[g] \in A)
    BY <1>0, <1>1, <1>6 DEF Closed
  <2>2. B \subseteq A
    BY <1>1, <1>4, <2>1
  <2>3. Closed(parent, B) /\ (parent[g] # NULL => parent[g] \in B)
    BY <1>0, <1>3, <1>6, <2>2 DEF Closed
  <2>4. A \subseteq B
    BY <1>3, <2>3, AncestorsProperties
  <2> QED BY <1>6, <2>2, <2>4
<1>7. CASE g # f /\ f \in A
  <2>0. parent[g] # NULL /\ parent[g] \in Findex
    BY <1>7, AncestorsProperties
  <2>1. ASSUME NEW x \in Findex, f \in Ancestors(parent, x), parent[x] # NULL
        PROVE  parent[x] \notin F
    <3>1. f = parent[x] \/ f \in Ancestors(parent, parent[x])
      BY <2>1, AncestorsStep
    <3>2. parent[x] \in F => Ancestors(parent, parent[x]) \subseteq F
      BY AncestorsTransitive
    <3> QED BY <3>1, <3>2
  <2>2. Closed(d, A \ F)
    <3> SUFFICES ASSUME NEW x \in A \ F, d[x] # NULL PROVE d[x] \in A \ F
      BY DEF Closed
    <3>1. x \in Findex /\ x # f /\ d[x] = parent[x] /\ parent[x] # NULL
      BY <1>0, <1>1
    <3>2. f \in Ancestors(parent, x)
      BY <1>7, <3>1, AncestorsChain
    <3> QED BY <1>1, <2>1, <3>1, <3>2 DEF Closed
  <2>3. d[g] \in A \ F
    BY <1>0, <1>1, <1>7, <2>0, <2>1
  <2>4. B \subseteq A \ F
    BY <1>1, <1>4, <2>2, <2>3
  <2>5. Closed(parent, B \cup F)
    BY <1>0, <1>2, <1>3 DEF Closed
  <2>6. parent[g] \in B \cup F /\ B \cup F \in SUBSET Findex
    BY <1>0, <1>2, <1>3, <1>7, <2>0
  <2>7. A \subseteq B \cup F
    BY <2>5, <2>6, AncestorsProperties
  <2> QED BY <1>7, <2>4, <2>7
<1> QED BY <1>5, <1>6, <1>7

-----------------------------------------------------------------------------
(* total_branch_n, which is kept up to date by differences. *)

TotalsExact(t) == \A h \in Findex : t.total[h] = Cardinality(Descendants(t, h))

\* What is below a branch can be counted.
LEMMA DescendantsFinite ==
  ASSUME NEW t, NEW h
  PROVE  /\ Descendants(t, h) \in SUBSET Findex
         /\ IsFiniteSet(Descendants(t, h))
         /\ Cardinality(Descendants(t, h)) \in Nat
<1>1. MaxBranch \in Nat /\ IsFiniteSet(Findex)
  BY MaxBranchNat, FS_Interval DEF Findex
<1>2. Descendants(t, h) \in SUBSET Findex
  BY DEF Descendants
<1> QED BY <1>1, <1>2, FS_Subset, FS_CardinalityType

\* Two sets without common members, and one more branch that is in neither.
LEMMA DisjointCount ==
  ASSUME NEW S, NEW T, NEW f, IsFiniteSet(S), IsFiniteSet(T), S \cap T = {}, f \notin S, f \notin T
  PROVE  Cardinality(S \cup T \cup {f}) = Cardinality(S) + Cardinality(T) + 1
<1>1. IsFiniteSet(S \cup T) /\ Cardinality(S \cup T) = Cardinality(S) + Cardinality(T)
  <2>1. /\ IsFiniteSet(S \cup T)
        /\ Cardinality(S \cup T) = Cardinality(S) + Cardinality(T) - Cardinality({})
    BY FS_Union
  <2>2. Cardinality({}) = 0 /\ Cardinality(S) \in Nat /\ Cardinality(T) \in Nat
    BY FS_EmptySet, FS_CardinalityType
  <2> QED BY <2>1, <2>2
<1>2. f \notin S \cup T
  OBVIOUS
<1> QED BY <1>1, <1>2, FS_AddElement

\* branch_add counts the branch and those below it at every branch above.
LEMMA AddTotals ==
  ASSUME NEW t \in Trees, NEW f \in Findex, NEW p \in Findex, NEW pos \in Int,
         t.parent[f] = NULL, f # p, f \notin Ancestors(t.parent, p), TotalsExact(t)
  PROVE  TotalsExact(branch_add(t, f, p, pos))
<1> DEFINE a == branch_add(t, f, p, pos)
           A(g) == Ancestors(t.parent, g)
           D(h) == Descendants(t, h)
           up == {p} \cup A(p)
<1>0. t.parent \in [Findex -> Findex \cup {NULL}] /\ t.total \in [Findex -> Int]
  BY DEF Trees
<1>1. a.parent = [t.parent EXCEPT ![f] = p]
  BY DEF branch_add
<1>2. A(f) = {}
  BY <1>0, AncestorsProperties
<1>3. \A g \in Findex :
        Ancestors(a.parent, g) = IF g = f \/ f \in A(g) THEN A(g) \cup up ELSE A(g)
  <2> HIDE DEF a
  <2>1. /\ a.parent \in [Findex -> Findex \cup {NULL}]
        /\ a.parent[f] = p /\ \A x \in Findex \ {f} : a.parent[x] = t.parent[x]
    BY <1>0, <1>1
  <2>2. ASSUME NEW g \in Findex
        PROVE  Ancestors(a.parent, g) = AboveAdded(t.parent, f, p, g)
    BY <1>0, <2>1, AncestorsAdd
  <2> QED BY <2>2 DEF AboveAdded
<1>4. \A h \in Findex : a.total[h] = IF h \in up THEN t.total[h] + (t.total[f] + 1) ELSE t.total[h]
  <2>1. Ancestors(a.parent, f) = up
    BY <1>2, <1>3
  <2>2. a.total = branch_increase(a.parent, t.total, f, t.total[f] + 1)
    BY <1>1 DEF branch_add
  <2> HIDE DEF a, up
  <2> QED BY <2>1, <2>2 DEF branch_increase
<1> HIDE DEF a
<1> SUFFICES ASSUME NEW h \in Findex
             PROVE  a.total[h] = Cardinality(Descendants(a, h))
  BY DEF TotalsExact, a
<1>5. \A g \in Findex : g \in D(h) <=> h \in A(g)
  BY DEF Descendants
<1>6. \A g \in Findex : g \in D(f) <=> f \in A(g)
  BY DEF Descendants
<1>7. \A g \in Findex : g \in Descendants(a, h) <=> h \in Ancestors(a.parent, g)
  BY DEF Descendants
<1>8. /\ D(h) \in SUBSET Findex /\ D(f) \in SUBSET Findex /\ Descendants(a, h) \in SUBSET Findex
      /\ IsFiniteSet(D(h)) /\ IsFiniteSet(D(f))
      /\ Cardinality(D(h)) \in Nat /\ Cardinality(D(f)) \in Nat
  BY DescendantsFinite
<1>9. t.total[h] = Cardinality(D(h)) /\ t.total[f] = Cardinality(D(f))
  BY DEF TotalsExact
<1> HIDE DEF D
<1>10. CASE h \in up
  <2>1. Descendants(a, h) = D(h) \cup D(f) \cup {f}
    BY <1>3, <1>5, <1>6, <1>7, <1>8, <1>10
  <2>2. f # h /\ f \notin A(h)
    <3>1. h \in A(p) => A(h) \subseteq A(p)
      BY <1>0, AncestorsTransitive
    <3> QED BY <1>10, <3>1
  <2>3. D(h) \cap D(f) = {}
    <3> SUFFICES ASSUME NEW g \in Findex, h \in A(g), f \in A(g) PROVE FALSE
      BY <1>5, <1>6, <1>8
    <3>1. h = f \/ f \in A(h) \/ h \in A(f)
      BY <1>0, AncestorsChain
    <3> QED BY <1>2, <2>2, <3>1
  <2>4. f \notin D(h) /\ f \notin D(f)
    BY <1>2, <1>5, <1>6
  <2>5. Cardinality(Descendants(a, h)) = Cardinality(D(h)) + Cardinality(D(f)) + 1
    BY <1>8, <2>1, <2>3, <2>4, DisjointCount
  <2>6. a.total[h] = t.total[h] + (t.total[f] + 1)
    BY <1>4, <1>10
  <2> QED BY <1>8, <1>9, <2>5, <2>6
<1>11. CASE h \notin up
  <2>1. Descendants(a, h) = D(h)
    BY <1>3, <1>5, <1>7, <1>8, <1>11
  <2> QED BY <1>4, <1>9, <1>11, <2>1
<1> QED BY <1>10, <1>11

\* branch_detach takes the branch and those below it off at every branch above.
LEMMA DetachTotals ==
  ASSUME NEW t \in Trees, NEW f \in Findex, t.parent[f] # NULL,
         f \notin Ancestors(t.parent, f), TotalsExact(t)
  PROVE  TotalsExact(branch_detach(t, f))
<1> DEFINE d == branch_detach(t, f)
           A(g) == Ancestors(t.parent, g)
           D(h) == Descendants(t, h)
<1>0. t.parent \in [Findex -> Findex \cup {NULL}] /\ t.total \in [Findex -> Int]
  BY DEF Trees
<1>1. d.parent = [t.parent EXCEPT ![f] = NULL]
  BY DEF branch_detach
<1>2. \A g \in Findex :
        Ancestors(d.parent, g) = IF g = f THEN {} ELSE IF f \in A(g) THEN A(g) \ A(f) ELSE A(g)
  <2> HIDE DEF d
  <2>1. /\ d.parent \in [Findex -> Findex \cup {NULL}]
        /\ d.parent[f] = NULL /\ \A x \in Findex \ {f} : d.parent[x] = t.parent[x]
    BY <1>0, <1>1
  <2>2. ASSUME NEW g \in Findex
        PROVE  Ancestors(d.parent, g) = AboveDetached(t.parent, f, g)
    BY <1>0, <2>1, AncestorsDetach
  <2> QED BY <2>2 DEF AboveDetached
<1>3. \A h \in Findex :
        d.total[h] = IF h \in A(f) THEN t.total[h] + (-(t.total[f]) - 1) ELSE t.total[h]
  <2>1. d.total = branch_increase(t.parent, t.total, f, -(t.total[f]) - 1)
    BY DEF branch_detach
  <2> HIDE DEF d
  <2> QED BY <2>1 DEF branch_increase
<1> HIDE DEF d
<1> SUFFICES ASSUME NEW h \in Findex
             PROVE  d.total[h] = Cardinality(Descendants(d, h))
  BY DEF TotalsExact, d
<1>5. \A g \in Findex : g \in D(h) <=> h \in A(g)
  BY DEF Descendants
<1>6. \A g \in Findex : g \in D(f) <=> f \in A(g)
  BY DEF Descendants
<1>7. \A g \in Findex : g \in Descendants(d, h) <=> h \in Ancestors(d.parent, g)
  BY DEF Descendants
<1>8. /\ D(h) \in SUBSET Findex /\ D(f) \in SUBSET Findex /\ Descendants(d, h) \in SUBSET Findex
      /\ IsFiniteSet(Descendants(d, h)) /\ IsFiniteSet(D(f))
      /\ Cardinality(Descendants(d, h)) \in Nat /\ Cardinality(D(f)) \in Nat
  BY DescendantsFinite
<1>9. t.total[h] = Cardinality(D(h)) /\ t.total[f] = Cardinality(D(f))
  BY DEF TotalsExact
<1> HIDE DEF D
<1>10. CASE h \in A(f)
  <2>1. \A g \in Findex : f \in A(g) => h \in A(g)
    BY <1>0, <1>10, AncestorsTransitive
  <2>2. D(h) = Descendants(d, h) \cup D(f) \cup {f}
    BY <1>2, <1>5, <1>6, <1>7, <1>8, <1>10, <2>1
  <2>3. Descendants(d, h) \cap D(f) = {}
    BY <1>2, <1>6, <1>7, <1>8, <1>10
  <2>4. f \notin D(f) /\ f \notin Descendants(d, h)
    BY <1>2, <1>6, <1>7
  <2>5. Cardinality(D(h)) = Cardinality(Descendants(d, h)) + Cardinality(D(f)) + 1
    BY <1>8, <2>2, <2>3, <2>4, DisjointCount
  <2>6. d.total[h] = t.total[h] + (-(t.total[f]) - 1)
    BY <1>3, <1>10
  <2> QED BY <1>8, <1>9, <2>5, <2>6
<1>11. CASE h \notin A(f)
  <2>1. Descendants(d, h) = D(h)
    BY <1>2, <1>5, <1>7, <1>8, <1>11
  <2> QED BY <1>3, <1>9, <1>11, <2>1
<1> QED BY <1>10, <1>11

=============================================================================
