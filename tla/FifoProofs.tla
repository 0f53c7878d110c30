----------------------------- MODULE FifoProofs ------------------------------
(***************************************************************************)
(* The lock-free queue implements Fifo, for any number of pushes and pops.  *)
(***************************************************************************)
EXTENDS QueueProofs, FiniteSetTheorems, WellFoundedInduction

-----------------------------------------------------------------------------
(* Numbers of instructions. *)

One(a, S) == IF a \in S THEN 1 ELSE 0

LEMMA OccursFinite ==
  ASSUME NEW S, NEW X, NEW s \in Seq(X)
  PROVE  /\ IsFiniteSet({i \in 1 .. Len(s) : s[i] \in S})
         /\ Occurs(S, s) \in Nat
<1> DEFINE D == 1 .. Len(s)
           I == {i \in D : s[i] \in S}
<1>1. IsFiniteSet(D)
  BY FS_Interval
<1>2. I \subseteq D
  OBVIOUS
<1>3. IsFiniteSet(I)
  BY <1>1, <1>2, FS_Subset
<1>4. Cardinality(I) \in Nat
  BY <1>3, FS_CardinalityType
<1> QED BY <1>3, <1>4 DEF Occurs

LEMMA OccursNone ==
  ASSUME NEW S
  PROVE  Occurs(S, <<>>) = 0
<1>1. {i \in 1 .. Len(<<>>) : <<>>[i] \in S} = {}
  OBVIOUS
<1> QED BY <1>1, FS_EmptySet DEF Occurs

\* The instructions of u \o v are those of u and, moved by Len(u), those of v.
LEMMA OccursConcat ==
  ASSUME NEW S, NEW X, NEW u \in Seq(X), NEW Y, NEW v \in Seq(Y)
  PROVE  Occurs(S, u \o v) = Occurs(S, u) + Occurs(S, v)
<1> DEFINE k == Len(u)
           w == u \o v
           A == {i \in 1 .. Len(u) : u[i] \in S}
           B == {i \in 1 .. Len(v) : v[i] \in S}
           C == {i \in 1 .. Len(w) : w[i] \in S}
           D == {i + k : i \in B}
           f == [i \in B |-> i + k]
<1>1. u \in Seq(X \cup Y) /\ v \in Seq(X \cup Y) /\ Len(u) \in Nat /\ Len(v) \in Nat
  OBVIOUS
<1>2. /\ Len(w) = Len(u) + Len(v)
      /\ \A i \in 1 .. Len(u) : w[i] = u[i]
      /\ \A i \in 1 .. Len(v) : w[i + k] = v[i]
  <2>1. w \in Seq(X \cup Y) /\ Len(w) = Len(u) + Len(v)
    BY <1>1, ConcatProperties
  <2>2. \A i \in 1 .. Len(u) + Len(v) : w[i] = IF i <= Len(u) THEN u[i] ELSE v[i - Len(u)]
    BY <1>1, ConcatProperties
  <2>3. ASSUME NEW i \in 1 .. Len(u) PROVE w[i] = u[i]
    BY <1>1, <2>2
  <2>4. ASSUME NEW i \in 1 .. Len(v) PROVE w[i + k] = v[i]
    <3>1. i + k \in 1 .. Len(u) + Len(v) /\ ~(i + k <= Len(u)) /\ (i + k) - Len(u) = i
      BY <1>1
    <3> QED BY <2>2, <3>1
  <2> QED BY <2>1, <2>3, <2>4
<1>3. C = A \cup D /\ A \cap D = {}
  <2> HIDE DEF w
  <2>1. ASSUME NEW i \in C PROVE i \in A \cup D
    <3>1. CASE i <= k
      BY <1>1, <1>2, <3>1
    <3>2. CASE i > k
      <4>1. i - k \in 1 .. Len(v) /\ (i - k) + k = i
        BY <1>1, <1>2, <3>2
      <4>2. i - k \in B
        BY <1>2, <4>1
      <4> QED BY <4>1, <4>2
    <3> QED BY <1>1, <1>2, <3>1, <3>2
  <2>2. ASSUME NEW i \in A PROVE i \in C /\ i \notin D
    BY <1>1, <1>2
  <2>3. ASSUME NEW i \in B PROVE i + k \in C
    BY <1>1, <1>2
  <2> QED BY <2>1, <2>2, <2>3
<1>4. /\ IsFiniteSet(A) /\ Cardinality(A) \in Nat /\ Occurs(S, u) = Cardinality(A)
      /\ IsFiniteSet(B) /\ Cardinality(B) \in Nat /\ Occurs(S, v) = Cardinality(B)
      /\ Occurs(S, w) = Cardinality(C)
  BY OccursFinite, FS_CardinalityType DEF Occurs
<1>5. IsFiniteSet(D) /\ Cardinality(D) = Cardinality(B)
  <2>1. f \in [B -> D] /\ \A i \in B : f[i] = i + k /\ i \in Int
    OBVIOUS
  <2>2. \A a, b \in B : a # b => f[a] # f[b]
    BY <2>1, <1>1
  <2>3. \A d \in D : \E i \in B : f[i] = d
    BY <2>1
  <2> HIDE DEF f, B, D
  <2>4. f \in Injection(B, D)
    BY <2>1, <2>2 DEF Injection, IsInjective
  <2>5. f \in Surjection(B, D)
    BY <2>1, <2>3 DEF Surjection
  <2>6. ExistsBijection(B, D)
    BY <2>4, <2>5 DEF ExistsBijection, Bijection
  <2> QED BY <1>4, <2>6, FS_Bijection
<1>6. Cardinality(A \cup D) = Cardinality(A) + Cardinality(D) - Cardinality(A \cap D)
  <2> HIDE DEF A, D
  <2> QED BY <1>4, <1>5, FS_Union
<1>7. Cardinality(A \cap D) = 0
  BY <1>3, FS_EmptySet
<1> HIDE DEF A, B, C, D, w
<1>8. Cardinality(C) = Cardinality(A) + Cardinality(B)
  BY <1>3, <1>4, <1>5, <1>6, <1>7
<1> QED BY <1>4, <1>8 DEF w

LEMMA OccursOne ==
  ASSUME NEW S, NEW a
  PROVE  Occurs(S, <<a>>) = One(a, S)
<1> DEFINE I == {i \in 1 .. Len(<<a>>) : <<a>>[i] \in S}
<1>1. CASE a \in S
  <2>1. I = {1}
    BY <1>1
  <2> QED BY <1>1, <2>1, FS_Singleton DEF Occurs, One
<1>2. CASE a \notin S
  <2>1. I = {}
    BY <1>2
  <2> QED BY <1>2, <2>1, FS_EmptySet DEF Occurs, One
<1> QED BY <1>1, <1>2

LEMMA OccursRest ==
  ASSUME NEW S, NEW X, NEW s \in Seq(X), s # <<>>
  PROVE  Occurs(S, Tail(s)) = Occurs(S, s) - One(Head(s), S)
<1>1. Head(s) \in X /\ Tail(s) \in Seq(X) /\ s = <<Head(s)>> \o Tail(s)
  BY HeadTailProperties
<1>2. <<Head(s)>> \in Seq(X)
  BY <1>1
<1>3. Occurs(S, <<Head(s)>> \o Tail(s)) = Occurs(S, <<Head(s)>>) + Occurs(S, Tail(s))
  BY <1>1, <1>2, OccursConcat
<1>4. Occurs(S, <<Head(s)>>) = One(Head(s), S)
  BY OccursOne
<1>5. Occurs(S, Tail(s)) \in Nat /\ One(Head(s), S) \in Nat
  BY <1>1, OccursFinite DEF One
<1>6. Occurs(S, s) = One(Head(s), S) + Occurs(S, Tail(s))
  BY <1>1, <1>3, <1>4
<1> QED BY <1>5, <1>6

LEMMA OccursMore ==
  ASSUME NEW S, NEW X, NEW s \in Seq(X), NEW a
  PROVE  Occurs(S, <<a>> \o s) = One(a, S) + Occurs(S, s)
<1>1. <<a>> \in Seq({a})
  OBVIOUS
<1> QED BY <1>1, OccursConcat, OccursOne, ZenonT(60)

LEMMA OccursTuples ==
  ASSUME NEW S
  PROVE  /\ \A a, b : Occurs(S, <<a, b>>) = One(a, S) + One(b, S)
         /\ \A a, b, c : Occurs(S, <<a, b, c>>) = One(a, S) + One(b, S) + One(c, S)
         /\ \A a, b, c, d : Occurs(S, <<a, b, c, d>>) = One(a, S) + One(b, S) + One(c, S) + One(d, S)
<1>1. ASSUME NEW a, NEW b PROVE Occurs(S, <<a, b>>) = One(a, S) + One(b, S)
  <2>1. <<b>> \in Seq({b})
    OBVIOUS
  <2>2. <<a, b>> = <<a>> \o <<b>>
    <3>1. <<a>> \in Seq({a, b}) /\ b \in {a, b} /\ <<a, b>> = Append(<<a>>, b)
      OBVIOUS
    <3> QED BY <3>1, AppendIsConcat
  <2> QED BY <2>2, <2>1, OccursMore, OccursOne, ZenonT(60)
<1>2. ASSUME NEW a, NEW b, NEW c PROVE Occurs(S, <<a, b, c>>) = One(a, S) + One(b, S) + One(c, S)
  <2>1. <<a, b, c>> = <<a>> \o <<b, c>> /\ <<b, c>> \in Seq({b, c})
    OBVIOUS
  <2>2. Occurs(S, <<a, b, c>>) = One(a, S) + Occurs(S, <<b, c>>)
    BY <2>1, OccursMore
  <2> QED BY <2>2, <1>1 DEF One
<1>3. ASSUME NEW a, NEW b, NEW c, NEW d
      PROVE  Occurs(S, <<a, b, c, d>>) = One(a, S) + One(b, S) + One(c, S) + One(d, S)
  <2>1. <<a, b, c, d>> = <<a>> \o <<b, c, d>> /\ <<b, c, d>> \in Seq({b, c, d})
    OBVIOUS
  <2>2. Occurs(S, <<a, b, c, d>>) = One(a, S) + Occurs(S, <<b, c, d>>)
    BY <2>1, OccursMore
  <2> QED BY <2>2, <1>2 DEF One
<1> QED BY <1>1, <1>2, <1>3

\* More instructions are in a larger set.
LEMMA OccursLarger ==
  ASSUME NEW S, NEW T, NEW X, NEW s \in Seq(X), \A i \in 1 .. Len(s) : s[i] \in S => s[i] \in T
  PROVE  Occurs(S, s) <= Occurs(T, s)
<1> DEFINE A == {i \in 1 .. Len(s) : s[i] \in S}
           B == {i \in 1 .. Len(s) : s[i] \in T}
<1>1. A \subseteq B
  OBVIOUS
<1>2. IsFiniteSet(B) /\ Occurs(S, s) = Cardinality(A) /\ Occurs(T, s) = Cardinality(B)
  BY OccursFinite DEF Occurs
<1> HIDE DEF A, B
<1> QED BY <1>1, <1>2, FS_Subset

LEMMA OccursNever ==
  ASSUME NEW S, NEW X, NEW s \in Seq(X)
  PROVE  Occurs(S, s) = 0 <=> \A i \in 1 .. Len(s) : s[i] \notin S
<1> DEFINE A == {i \in 1 .. Len(s) : s[i] \in S}
<1>1. IsFiniteSet(A) /\ Occurs(S, s) = Cardinality(A)
  BY OccursFinite DEF Occurs
<1>2. Cardinality(A) = 0 <=> A = {}
  BY <1>1, FS_EmptySet
<1> QED BY <1>1, <1>2

\* Every reference still to count is followed by one that is given back.
LEMMA PairedOccurs ==
  ASSUME NEW X, NEW s \in Seq(X), Paired(s), NEW e \in Entries
  PROVE  Occurs(Takes(e), s) <= Occurs(Owes(e), s)
<1> DEFINE A == {i \in 1 .. Len(s) : s[i] \in Takes(e)}
           B == {i \in 1 .. Len(s) : s[i] \in Owes(e)}
           f == [i \in A |-> i + 1]
<1>1. IsFiniteSet(B) /\ Occurs(Takes(e), s) = Cardinality(A) /\ Occurs(Owes(e), s) = Cardinality(B)
  BY OccursFinite DEF Occurs
<1>2. Release(e) \in Owes(e)
  BY DEF Release, Op, Owes, Node
<1>3. ASSUME NEW i \in A PROVE i + 1 \in B
  <2>1. i < Len(s) /\ s[i + 1] = Release(e) /\ i \in Nat /\ Len(s) \in Nat
    BY DEF Paired
  <2> QED BY <2>1, <1>2
<1>4. f \in [A -> B] /\ \A i \in A : f[i] = i + 1 /\ i \in Int
  BY <1>3
<1>5. \A a, b \in A : f[a] = f[b] => a = b
  BY <1>4
<1> HIDE DEF A, B, f
<1>6. f \in Injection(A, B)
  BY <1>4, <1>5 DEF Injection, IsInjective
<1> QED BY <1>1, <1>6, FS_Injection

\* The same for a list of which the first instruction is replaced.
LEMMA PairedRest ==
  ASSUME NEW X, NEW s \in Seq(X), s # <<>>, Paired(s), NEW Y, NEW new \in Seq(Y),
         \/ Paired(new)
         \/ Len(new) = 1 /\ \A e \in Entries : new[1] \in Takes(e) => Head(s) \in Takes(e)
  PROVE  Paired(new \o Tail(s))
<1> DEFINE r == new \o Tail(s)
           k == Len(new)
<1>1. Head(s) = s[1] /\ Tail(s) \in Seq(X) /\ Len(Tail(s)) = Len(s) - 1 /\ Len(s) \in Nat
  BY HeadTailProperties
<1>2. \A i \in 1 .. Len(s) - 1 : Tail(s)[i] = s[i + 1]
  BY HeadTailProperties
<1>3. new \in Seq(X \cup Y) /\ Tail(s) \in Seq(X \cup Y) /\ k \in Nat
  BY <1>1
<1>4. Len(r) = k + Len(s) - 1
  BY <1>1, <1>3, ConcatProperties
<1>5. \A i \in 1 .. k + Len(Tail(s)) : r[i] = IF i <= k THEN new[i] ELSE Tail(s)[i - k]
  BY <1>3, ConcatProperties
<1>6. \A i \in 1 .. k : r[i] = new[i]
  BY <1>1, <1>3, <1>5
<1>7. ASSUME NEW i \in 1 .. Len(s) - 1 PROVE r[i + k] = s[i + 1]
  <2>1. i + k \in 1 .. k + Len(Tail(s)) /\ ~(i + k <= k) /\ (i + k) - k = i
    BY <1>1, <1>3
  <2> QED BY <2>1, <1>2, <1>5
<1> HIDE DEF r, k
<1> SUFFICES ASSUME NEW i \in 1 .. Len(r), NEW e \in Entries, r[i] \in Takes(e)
             PROVE  i < Len(r) /\ r[i + 1] = Release(e)
  BY DEF Paired, r
<1>8. CASE i <= k
  <2>0. i \in 1 .. k
    BY <1>8, <1>3
  <2>1. i \in 1 .. k /\ new[i] \in Takes(e)
    BY <2>0, <1>6
  <2>2. CASE Paired(new)
    <3>1. i < k /\ new[i + 1] = Release(e) /\ i + 1 \in 1 .. k
      BY <2>1, <2>2, <1>3 DEF Paired, k
    <3> QED BY <3>1, <1>1, <1>4, <1>6, <1>3
  <2>3. CASE Len(new) = 1 /\ \A x \in Entries : new[1] \in Takes(x) => Head(s) \in Takes(x)
    <3>1. i = 1 /\ k = 1 /\ s[1] \in Takes(e) /\ 1 \in 1 .. Len(s)
      <4>1. s # <<>> => Len(s) >= 1
        BY <1>1
      <4> QED BY <2>1, <2>3, <1>1, <4>1 DEF k
    <3>2. 1 < Len(s) /\ s[1 + 1] = Release(e)
      BY <3>1 DEF Paired
    <3>3. r[1 + k] = s[1 + 1]
      BY <3>2, <1>1, <1>7
    <3> QED BY <3>1, <3>2, <3>3, <1>1, <1>4
  <2> QED BY <2>2, <2>3
<1>9. CASE i > k
  <2> DEFINE j == i - k
  <2>1. j \in 1 .. Len(s) - 1 /\ j + k = i /\ j + 1 \in 1 .. Len(s)
    BY <1>1, <1>3, <1>4, <1>9
  <2>2. s[j + 1] \in Takes(e)
    BY <2>1, <1>7
  <2>3. j + 1 < Len(s) /\ s[(j + 1) + 1] = Release(e)
    BY <2>1, <2>2 DEF Paired
  <2> HIDE DEF j
  <2>4. r[(j + 1) + k] = s[(j + 1) + 1] /\ (j + 1) + k = i + 1
    <3>1. j + 1 \in 1 .. Len(s) - 1 /\ j \in Int
      BY <2>1, <2>3, <1>1
    <3>2. r[(j + 1) + k] = s[(j + 1) + 1]
      BY <3>1, <1>7
    <3> QED BY <3>1, <3>2, <2>1, <1>3
  <2> QED BY <2>1, <2>3, <2>4, <1>1, <1>3, <1>4
<1> QED BY <1>1, <1>3, <1>4, <1>8, <1>9

LEMMA NodeFinite == IsFiniteSet(Node)
<1>1. MaxPush \in Nat /\ Earlier \in Nat
  BY MaxPushAssumption, EarlierAssumption, ThresholdAssumption
<1>2. IsFiniteSet(0 .. MaxPush + 1 + Earlier)
  BY <1>1, FS_Interval
<1>3. Node \subseteq 0 .. MaxPush + 1 + Earlier
  BY <1>1 DEF Node, Entries, head, tail, Old
<1> QED BY <1>2, <1>3, FS_Subset

\* A link that changes counts for one entry less and for one more.
Changed(f, n, p) ==
  /\ link'[f][n] = p
  /\ \A x \in Node : x # n => link'[f][x] = link[f][x]
  /\ \A g \in {"next", "prev"} : g # f => link'[g] = link[g]

Shifted(e, from, to) ==
  /\ Links(e) \in Nat
  /\ (Links(e))' = Links(e) - One(from, {e}) + One(to, {e})

LEMMA LinksChange ==
  ASSUME NEW f \in {"next", "prev"}, NEW n \in Node, NEW p, Changed(f, n, p), NEW e
  PROVE  Shifted(e, link[f][n].to, p.to)
<1> DEFINE P == {"next", "prev"} \X Node
           c == <<f, n>>
           L == {l \in P : link[l[1]][l[2]].to = e}
           M == {l \in P : link'[l[1]][l[2]].to = e}
           R == {l \in P : l # c /\ link[l[1]][l[2]].to = e}
<1> USE DEF Changed
<1>1. IsFiniteSet(P)
  <2>1. IsFiniteSet({"next", "prev"})
    <3>1. IsFiniteSet({"prev"})
      BY FS_Singleton
    <3>2. IsFiniteSet({"prev"} \cup {"next"})
      BY <3>1, FS_AddElement
    <3>3. {"prev"} \cup {"next"} = {"next", "prev"}
      OBVIOUS
    <3> QED BY <3>2, <3>3
  <2> QED BY <2>1, NodeFinite, FS_Product
<1>2. c \in P /\ c[1] = f /\ c[2] = n
  OBVIOUS
<1>3. R \subseteq P /\ c \notin R
  OBVIOUS
<1>4. IsFiniteSet(R) /\ Cardinality(R) \in Nat
  <2> HIDE DEF P, R
  <2> QED BY <1>1, <1>3, FS_Subset, FS_CardinalityType
<1>5. L = IF link[f][n].to = e THEN R \cup {c} ELSE R
  BY <1>2
<1>6. M = IF p.to = e THEN R \cup {c} ELSE R
  <2>1. \A l \in P : l # c => link'[l[1]][l[2]] = link[l[1]][l[2]]
    OBVIOUS
  <2> QED BY <1>2, <2>1
<1>7. Cardinality(R \cup {c}) = Cardinality(R) + 1
  <2> HIDE DEF R, c
  <2> QED BY <1>3, <1>4, FS_AddElement
<1>8. Links(e) = Cardinality(L) /\ (Links(e))' = Cardinality(M)
  BY DEF Links
<1> HIDE DEF L, M, R, c
<1> QED BY <1>4, <1>5, <1>6, <1>7, <1>8 DEF One, Shifted

-----------------------------------------------------------------------------
(* What a list of instructions owes. *)

Net(s, e) == Occurs(Owes(e), s) - Occurs(Takes(e), s)
Weight(o, e) == One(o, Owes(e)) - One(o, Takes(e))

LEMMA TodoSeq ==
  ASSUME LinkInv, NEW t \in Threads
  PROVE  \E X : todo[t] \in Seq(X)
<1>1. CASE todo[t] = <<>>
  <2>1. <<>> \in Seq({})
    OBVIOUS
  <2> QED BY <1>1, <2>1
<1>2. CASE todo[t] # <<>>
  <2>1. PICK u \in Seq(Before(t)) : todo[t] = Append(u, Aim(t))
    BY <1>2 DEF LinkInv, InCall, Toward
  <2> DEFINE X == Before(t) \cup {Aim(t)}
  <2>2. u \in Seq(X) /\ Aim(t) \in X
    OBVIOUS
  <2> HIDE DEF X
  <2>3. todo[t] \in Seq(X)
    BY <2>1, <2>2, AppendProperties
  <2> QED BY <2>3
<1> QED BY <1>1, <1>2

\* What happens to the lists when a thread replaces its first instruction.
LEMMA OccursThen ==
  ASSUME LinkInv, NEW t \in Threads, todo[t] # <<>>, NEW Y, NEW new \in Seq(Y), Then(t, new)
  PROVE  /\ todo'[t] = new \o Tail(todo[t])
         /\ \A u \in Threads \ {t} : todo'[u] = todo[u]
         /\ \A S : /\ Occurs(S, todo[t]) \in Nat /\ Occurs(S, new) \in Nat
                   /\ Occurs(S, todo'[t]) = Occurs(S, todo[t]) - One(It(t), S) + Occurs(S, new)
<1>1. DOMAIN todo = Threads
  BY DEF LinkInv
<1>2. todo'[t] = new \o Tail(todo[t]) /\ \A u \in Threads \ {t} : todo'[u] = todo[u]
  BY <1>1 DEF Then
<1>3. PICK X : todo[t] \in Seq(X)
  BY TodoSeq
<1> DEFINE s == todo[t]
<1>4. s \in Seq(X) /\ s # <<>> /\ Tail(s) \in Seq(X) /\ It(t) = Head(s)
  BY <1>3, HeadTailProperties DEF It
<1> HIDE DEF s
<1>5. ASSUME NEW S
      PROVE  /\ Occurs(S, s) \in Nat /\ Occurs(S, new) \in Nat
             /\ Occurs(S, new \o Tail(s)) = Occurs(S, s) - One(It(t), S) + Occurs(S, new)
  <2>1. Occurs(S, s) \in Nat /\ Occurs(S, new) \in Nat /\ Occurs(S, Tail(s)) \in Nat
    BY <1>4, OccursFinite
  <2>2. Occurs(S, new \o Tail(s)) = Occurs(S, new) + Occurs(S, Tail(s))
    BY <1>4, OccursConcat
  <2>3. Occurs(S, Tail(s)) = Occurs(S, s) - One(Head(s), S)
    BY <1>4, OccursRest
  <2>4. One(It(t), S) \in Nat /\ One(Head(s), S) = One(It(t), S)
    BY <1>4 DEF One
  <2> QED BY <2>1, <2>2, <2>3, <2>4
<1> QED BY <1>2, <1>5 DEF s

LEMMA DebtInt ==
  ASSUME LinkInv, NEW t \in Threads, NEW e
  PROVE  Debt(t, e) \in Int
<1>1. PICK X : todo[t] \in Seq(X)
  BY TodoSeq
<1>2. Occurs(Owes(e), todo[t]) \in Nat /\ Occurs(Takes(e), todo[t]) \in Nat
  BY <1>1, OccursFinite
<1> QED BY <1>2 DEF Debt

LEMMA DebtThen ==
  ASSUME LinkInv, NEW t \in Threads, todo[t] # <<>>, NEW Y, NEW new \in Seq(Y), Then(t, new), NEW e
  PROVE  /\ (Debt(t, e))' = Debt(t, e) - Weight(It(t), e) + Net(new, e)
         /\ Debt(t, e) \in Int /\ Net(new, e) \in Int /\ Weight(It(t), e) \in Int
         /\ \A u \in Threads \ {t} : (Debt(u, e))' = Debt(u, e)
<1>1. /\ Occurs(Owes(e), todo[t]) \in Nat /\ Occurs(Owes(e), new) \in Nat
      /\ Occurs(Owes(e), todo'[t]) = Occurs(Owes(e), todo[t]) - One(It(t), Owes(e)) + Occurs(Owes(e), new)
  BY OccursThen
<1>2. /\ Occurs(Takes(e), todo[t]) \in Nat /\ Occurs(Takes(e), new) \in Nat
      /\ Occurs(Takes(e), todo'[t]) = Occurs(Takes(e), todo[t]) - One(It(t), Takes(e)) + Occurs(Takes(e), new)
  BY OccursThen
<1>3. One(It(t), Owes(e)) \in Nat /\ One(It(t), Takes(e)) \in Nat
  BY DEF One
<1>4. \A u \in Threads \ {t} : todo'[u] = todo[u]
  BY OccursThen
<1>5. \A u \in Threads : (Debt(u, e))' = Occurs(Owes(e), todo'[u]) - Occurs(Takes(e), todo'[u])
  BY DEF Debt, Owes, Takes, Looks, Node
<1>6. (Debt(t, e))' = Debt(t, e) - Weight(It(t), e) + Net(new, e)
  BY <1>1, <1>2, <1>3, <1>5 DEF Debt, Weight, Net
<1>7. Debt(t, e) \in Int /\ Net(new, e) \in Int /\ Weight(It(t), e) \in Int
  BY <1>1, <1>2, <1>3 DEF Debt, Weight, Net
<1>8. \A u \in Threads \ {t} : (Debt(u, e))' = Debt(u, e)
  BY <1>4, <1>5 DEF Debt
<1> QED BY <1>6, <1>7, <1>8

LEMMA Nets ==
  ASSUME NEW e
  PROVE  /\ Net(<<>>, e) = 0
         /\ \A a : Net(<<a>>, e) = Weight(a, e)
         /\ \A a, b : Net(<<a, b>>, e) = Weight(a, e) + Weight(b, e)
         /\ \A a, b, c : Net(<<a, b, c>>, e) = Weight(a, e) + Weight(b, e) + Weight(c, e)
         /\ \A a, b, c, d :
              Net(<<a, b, c, d>>, e) = Weight(a, e) + Weight(b, e) + Weight(c, e) + Weight(d, e)
<1>0. \A a, S : One(a, S) \in Nat
  BY DEF One
<1>1. Net(<<>>, e) = 0
  BY OccursNone DEF Net
<1>2. \A a : Net(<<a>>, e) = Weight(a, e)
  BY OccursOne DEF Net, Weight
<1>3. ASSUME NEW a, NEW b PROVE Net(<<a, b>>, e) = Weight(a, e) + Weight(b, e)
  BY <1>0, OccursTuples DEF Net, Weight
<1>4. ASSUME NEW a, NEW b, NEW c
      PROVE  Net(<<a, b, c>>, e) = Weight(a, e) + Weight(b, e) + Weight(c, e)
  BY <1>0, OccursTuples DEF Net, Weight
<1>5. ASSUME NEW a, NEW b, NEW c, NEW d
      PROVE  Net(<<a, b, c, d>>, e) = Weight(a, e) + Weight(b, e) + Weight(c, e) + Weight(d, e)
  BY <1>0, OccursTuples DEF Net, Weight
<1> QED BY <1>1, <1>2, <1>3, <1>4, <1>5

LEMMA NetConcat ==
  ASSUME NEW e, NEW X, NEW u \in Seq(X), NEW Y, NEW v \in Seq(Y)
  PROVE  Net(u \o v, e) = Net(u, e) + Net(v, e) /\ Net(u, e) \in Int
<1>1. \A S : Occurs(S, u \o v) = Occurs(S, u) + Occurs(S, v) /\ Occurs(S, u) \in Nat /\ Occurs(S, v) \in Nat
  BY OccursConcat, OccursFinite
<1> QED BY <1>1 DEF Net

\* What single instructions owe.
LEMMA Weights ==
  ASSUME NEW e \in Node, NEW n \in Node, NEW m \in Node
  PROVE  /\ \A o \in {"release", "decrement"} : Weight(Op(o, n, n), e) = One(n, {e})
         /\ Weight(Release(n), e) = One(n, {e})
         /\ \A o \in {"mark", "test", "terminate", "unmark", "gc?", "gc", "collect"} :
              Weight(Op(o, n, n), e) = 0
         /\ \A o \in Looks : Weight([op |-> o, n |-> n, as |-> "retain", m |-> m], e) = - One(n, {e})
         /\ Weight(Retain(n), e) = - One(n, {e})
         /\ \A o \in {"first", "peek"} : Weight(Op(o, n, n), e) = One(n, {e})
         /\ Weight(Op("marknext", n, m), e) = One(n, {e})
         /\ \A o \in {"link", "back", "unprev", "unlink"} : Weight(Op(o, n, m), e) = One(m, {e})
<1>1. \A o, S : One(o, S) = IF o \in S THEN 1 ELSE 0
  BY DEF One
<1>2. \A o : o \notin Owes(e) \/ o \notin Takes(e)
  BY DEF Owes, Takes, Looks
<1>3. ASSUME NEW o \in {"release", "decrement", "first", "peek"}
      PROVE  Weight(Op(o, n, n), e) = One(n, {e})
  BY <1>1 DEF Weight, Owes, Takes, Looks, Op
<1>4. Weight(Op("marknext", n, m), e) = One(n, {e})
  BY <1>1 DEF Weight, Owes, Takes, Looks, Op
<1>5. ASSUME NEW o \in {"link", "back", "unprev", "unlink"}
      PROVE  Weight(Op(o, n, m), e) = One(m, {e})
  BY <1>1 DEF Weight, Owes, Takes, Looks, Op
<1>6. ASSUME NEW o \in Looks, NEW x \in Node
      PROVE  Weight([op |-> o, n |-> n, as |-> "retain", m |-> x], e) = - One(n, {e})
  <2> DEFINE r == [op |-> o, n |-> n, as |-> "retain", m |-> x]
  <2>1. r \notin Owes(e)
    BY DEF Owes, Looks
  <2>2. r \in Takes(e) <=> n = e
    BY DEF Takes
  <2> HIDE DEF r
  <2>3. Weight(r, e) = IF n = e THEN -1 ELSE 0
    BY <2>1, <2>2, <1>1 DEF Weight
  <2> QED BY <2>3, <1>1 DEF r
<1>7. ASSUME NEW o \in {"mark", "test", "terminate", "unmark", "gc?", "gc", "collect"}
      PROVE  Weight(Op(o, n, n), e) = 0
  BY <1>1 DEF Weight, Owes, Takes, Looks, Op
<1>8. Weight(Release(n), e) = One(n, {e}) /\ Weight(Retain(n), e) = - One(n, {e})
  <2>1. Retain(n) = [op |-> "look", n |-> n, as |-> "retain", m |-> n] /\ "look" \in Looks
    BY DEF Retain, Look, Looks
  <2> QED BY <1>3, <1>6, <2>1 DEF Release
<1> QED BY <1>3, <1>4, <1>5, <1>6, <1>7, <1>8

\* Instructions that neither keep nor give back nor count.
LEMMA NoWeight ==
  ASSUME NEW e, NEW o,
         \/ o.op \in {"deref", "store", "swap", "grow", "shrink", "return", "prev", "markprev",
                      "mark", "test", "terminate", "unmark", "gc?", "gc", "collect"}
         \/ o.op \in Looks /\ o.as # "retain"
  PROVE  Weight(o, e) = 0
<1>1. o \notin Owes(e)
  BY DEF Owes, Looks
<1>2. o \notin Takes(e)
  BY DEF Takes, Looks
<1> QED BY <1>1, <1>2 DEF Weight, One

-----------------------------------------------------------------------------
(* The order of the list. *)

LEMMA FirstBounds ==
  ASSUME LinkInv
  PROVE  /\ linked \in Nat /\ linked <= made /\ made <= MaxPush /\ made \in Nat
         /\ First \in 1 .. linked + 1
         /\ First <= linked => link["next"][head] = Ptr(First)
         /\ First = linked + 1 => link["next"][head] = Ptr(tail)
         /\ \A e \in 1 .. linked : link["next"][head] = Ptr(e) => First = e
         /\ link["next"][head] = Ptr(tail) => First = linked + 1
         /\ \A e \in 1 .. made : e \in Entries /\ e \in Node /\ e # tail /\ e # head /\ e # NULL
         /\ MaxPush \in Nat /\ tail = MaxPush + 1 /\ head = 0 /\ NULL = -1
<1>1. /\ made \in Nat /\ tail = MaxPush + 1 /\ head = 0 /\ MaxPush \in Nat /\ made <= MaxPush
      /\ 1 .. made \subseteq Entries /\ Entries \subseteq Node
      /\ linked \in Int /\ linked <= made
      /\ Unlinked => linked = made - 1
      /\ ~Unlinked => linked = made
  BY Bounds
<1>2. Unlinked => made >= 1
  <2>1. Unlinked => todo[Producer] # <<>>
    BY DEF Unlinked, Aim, Op, Looks
  <2> QED BY <2>1 DEF LinkInv, PushInv
<1>3. linked \in Nat
  BY <1>1, <1>2
<1>4. PICK n \in 1 .. linked \cup {tail} : link["next"][head] = Ptr(n)
  BY DEF LinkInv, ChainInv
<1>5. Ptr(n).to = n /\ \A m : Ptr(m) = Ptr(n) => m = n
  BY DEF Ptr
<1>6. First = IF n = tail THEN linked + 1 ELSE n
  BY <1>4, <1>5 DEF First
<1>7. \A e \in 1 .. made : e \in Entries /\ e \in Node /\ e # tail /\ e # head /\ e # NULL
  BY <1>1 DEF NULL
<1> QED BY <1>1, <1>3, <1>4, <1>5, <1>6, <1>7 DEF NULL

Stutters ==
  /\ linked' = linked /\ made' = made /\ Oldest' = Oldest /\ Unlinked' = Unlinked
  /\ (todo'[Producer] = <<>>) = (todo[Producer] = <<>>)
  /\ UNCHANGED <<popping, last>>

\* A step that leaves the links of the list alone.
LEMMA ListSettled ==
  ASSUME FifoInv, LinkInv', linked' = linked, made <= made',
         link'["next"][head] = link["next"][head],
         \A n \in First .. linked : link'["next"][n] = link["next"][n],
         \A n \in 1 .. First - 1 : link'["next"][n] \in {link["next"][n], Ptr(NULL)},
         NEW g, Aim(Consumer)' = g, Decides(g) = popping',
         \A e \in Entries : Marked(Aim(Consumer), e) => Marked(g, e),
         g.op = "return" => g.n < First
  PROVE  /\ OrderInv' /\ DecidedInv' /\ Oldest' = Oldest /\ First' = First
         /\ InUse' \subseteq InUse \cup (made + 1 .. made') /\ (made' = made => InUse' = InUse)
<1>1. linked' = linked
  OBVIOUS
<1>2. First' = First
  BY <1>1 DEF First, head, tail
<1>3. /\ linked \in Nat /\ linked <= made /\ First \in 1 .. linked + 1 /\ made \in Nat
      /\ \A e \in 1 .. made : e \in Entries
      /\ MaxPush \in Nat /\ tail = MaxPush + 1
  BY FirstBounds DEF FifoInv
<1>4. \A n \in First .. linked : n \in 1 .. made /\ n \in Entries
  BY <1>3
<1>5. OrderInv
  BY DEF FifoInv
<1>6. Oldest' = Oldest
  <2>1. CASE First <= linked
    <3>1. link'["next"][First] = link["next"][First]
      BY <2>1, <1>3
    <3>2. Oldest = IF link["next"][First].mark THEN First + 1 ELSE First
      BY <2>1 DEF Oldest
    <3>3. Oldest' = IF link'["next"][First].mark THEN First + 1 ELSE First
      BY <2>1, <1>1, <1>2 DEF Oldest
    <3> QED BY <3>1, <3>2, <3>3
  <2>2. CASE ~(First <= linked)
    BY <2>2, <1>1, <1>2 DEF Oldest
  <2> QED BY <2>1, <2>2
<1>7. InUse' \subseteq InUse \cup (made + 1 .. made') /\ (made' = made => InUse' = InUse)
  <2>1. InUse' = {e \in First .. made' : e <= linked => ~link'["next"][e].mark}
    BY <1>1, <1>2 DEF InUse
  <2>2. \A e \in First .. made' : e <= linked => link'["next"][e] = link["next"][e]
    BY <1>3
  <2>3. made' \in Nat
    BY DEF LinkInv
  <2> QED BY <2>1, <2>2, <2>3, <1>3 DEF InUse
<1>8. OrderInv'
  <2>1. \A n \in First .. linked : link'["next"][n].to = IF n < linked THEN n + 1 ELSE tail
    BY <1>5 DEF OrderInv
  <2>2. \A n \in First .. linked : link'["next"][n].mark => n = First /\ Marked(g, n)
    BY <1>4, <1>5 DEF OrderInv
  <2>3. \A n \in 1 .. First - 1 : link'["next"][n] # Ptr(tail)
    <3>1. Ptr(NULL) # Ptr(tail)
      BY <1>3 DEF Ptr, NULL
    <3> QED BY <3>1, <1>5 DEF OrderInv
  <2>4. \A e : (Marked(Aim(Consumer), e))' = Marked(g, e)
    BY DEF Marked, Looks
  <2>5. \A n \in First .. linked : link'["next"][n].mark => n = First /\ (Marked(Aim(Consumer), n))'
    BY <2>2, <2>4
  <2> QED BY <2>1, <2>3, <2>5, <1>1, <1>2 DEF OrderInv, tail, Ptr
<1>9. DecidedInv'
  <2>1. (Decides(Aim(Consumer)))' = Decides(g)
    BY DEF Decides, Looks, NULL, tail
  <2> QED BY <2>1 DEF DecidedInv
<1> QED BY <1>2, <1>6, <1>7, <1>8, <1>9

\* One that does not decide anything either.
LEMMA Settled ==
  ASSUME FifoInv, LinkInv', UNCHANGED <<made, popping, last>>, Unlinked' = Unlinked,
         (todo'[Producer] = <<>>) = (todo[Producer] = <<>>),
         link'["next"][head] = link["next"][head],
         \A n \in First .. linked : link'["next"][n] = link["next"][n],
         \A n \in 1 .. First - 1 : link'["next"][n] \in {link["next"][n], Ptr(NULL)},
         NEW g, Aim(Consumer)' = g, Decides(g) = popping,
         \A e \in Entries : Marked(Aim(Consumer), e) => Marked(g, e),
         g.op = "return" => g.n < First
  PROVE  OrderInv' /\ DecidedInv' /\ Stutters /\ InUse' = InUse /\ First' = First
<1>1. linked' = linked
  BY DEF linked
<1>2. made <= made' /\ made' = made /\ Decides(g) = popping'
  BY DEF FifoInv, LinkInv
<1>3. OrderInv' /\ DecidedInv' /\ Oldest' = Oldest /\ First' = First /\ InUse' = InUse
  BY <1>1, <1>2, ListSettled
<1> QED BY <1>1, <1>3 DEF Stutters

-----------------------------------------------------------------------------
(* The counts. *)

LEMMA LinksTo ==
  ASSUME NEW e
  PROVE  /\ Links(e) \in Nat
         /\ \A f \in {"next", "prev"}, n \in Node : link[f][n].to = e => Links(e) >= 1
<1> DEFINE P == {"next", "prev"} \X Node
           L == {l \in P : link[l[1]][l[2]].to = e}
<1>1. IsFiniteSet(P)
  <2>1. IsFiniteSet({"next", "prev"})
    <3>1. IsFiniteSet({"prev"})
      BY FS_Singleton
    <3>2. IsFiniteSet({"prev"} \cup {"next"})
      BY <3>1, FS_AddElement
    <3>3. {"prev"} \cup {"next"} = {"next", "prev"}
      OBVIOUS
    <3> QED BY <3>2, <3>3
  <2> QED BY <2>1, NodeFinite, FS_Product
<1>2. L \subseteq P /\ Links(e) = Cardinality(L)
  BY DEF Links
<1>3. ASSUME NEW f \in {"next", "prev"}, NEW n \in Node, link[f][n].to = e
      PROVE  L # {}
  <2>1. <<f, n>> \in P /\ <<f, n>>[1] = f /\ <<f, n>>[2] = n
    OBVIOUS
  <2>2. <<f, n>> \in L
    BY <1>3, <2>1
  <2> QED BY <2>2
<1> HIDE DEF P, L
<1>4. IsFiniteSet(L) /\ Cardinality(L) \in Nat /\ (Cardinality(L) = 0 <=> L = {})
  BY <1>1, <1>2, FS_Subset, FS_CardinalityType, FS_EmptySet
<1> QED BY <1>2, <1>3, <1>4

\* Nobody finds the count of an entry of the list at 0.
LEMMA CountPositive ==
  ASSUME FifoInv, NEW e \in InUse, e <= linked
  PROVE  count[e] >= 1
<1>1. LinkInv /\ OrderInv /\ CountsExplained /\ BackedInv /\ count \in [Node -> Int]
  BY DEF FifoInv
<1>2. /\ linked \in Nat /\ linked <= made /\ First \in 1 .. linked + 1 /\ made \in Nat
      /\ First <= linked => link["next"][head] = Ptr(First)
      /\ \A n \in 1 .. made : n \in Entries /\ n \in Node
  BY <1>1, FirstBounds
<1>3. e \in First .. linked /\ e \in Entries /\ e \in Node
  BY <1>2 DEF InUse
<1>4. Links(e) >= 1 /\ Links(e) \in Nat
  <2>1. CASE e = First
    <3>1. link["next"][head].to = e /\ head \in Node
      BY <2>1, <1>2, <1>3 DEF Ptr, Node
    <3> QED BY <3>1, LinksTo
  <2>2. CASE e # First
    <3>1. e - 1 \in First .. linked /\ e - 1 < linked /\ (e - 1) + 1 = e /\ e - 1 \in Node
      BY <2>2, <1>2, <1>3
    <3>2. link["next"][e - 1].to = e
      BY <3>1, <1>1 DEF OrderInv
    <3> QED BY <3>1, <3>2, LinksTo
  <2> QED BY <2>1, <2>2
<1>5. Occurs(Takes(e), todo[Producer]) <= 1 /\ Debt(Producer, e) >= -1 /\ Debt(Producer, e) \in Int
  <2>1. PICK X : todo[Producer] \in Seq(X)
    BY <1>1, TodoSeq DEF Threads
  <2>2. Takes(e) \subseteq Sources
    BY <1>3 DEF Sources, Takes
  <2>3. Occurs(Takes(e), todo[Producer]) <= Occurs(Sources, todo[Producer])
    BY <2>1, <2>2, OccursLarger
  <2>4. /\ Occurs(Sources, todo[Producer]) \in Nat /\ Occurs(Takes(e), todo[Producer]) \in Nat
        /\ Occurs(Owes(e), todo[Producer]) \in Nat
    BY <2>1, OccursFinite
  <2> QED BY <1>1, <2>3, <2>4 DEF BackedInv, Debt
<1>6. Debt(Consumer, e) >= 0 /\ Debt(Consumer, e) \in Int
  <2>1. PICK X : todo[Consumer] \in Seq(X)
    BY <1>1, TodoSeq DEF Threads
  <2>2. Occurs(Takes(e), todo[Consumer]) <= Occurs(Owes(e), todo[Consumer])
    BY <2>1, <1>1, <1>3, PairedOccurs DEF BackedInv
  <2>3. Occurs(Takes(e), todo[Consumer]) \in Nat /\ Occurs(Owes(e), todo[Consumer]) \in Nat
    BY <2>1, OccursFinite
  <2> QED BY <2>2, <2>3 DEF Debt
<1>7. count[e] = 1 + Links(e) + Debt(Producer, e) + Debt(Consumer, e) /\ count[e] \in Int
  BY <1>1, <1>3 DEF CountsExplained
<1> QED BY <1>4, <1>5, <1>6, <1>7

LEMMA InUseNode == ASSUME LinkInv PROVE InUse \subseteq Node
BY FirstBounds DEF InUse

\* A step of t pays for what it puts in the place of its first instruction.
Pays(t, new) ==
  \A e \in InUse : e \in InUse' =>
    /\ (Links(e))' \in Int
    /\ count'[e] - (Links(e))' = count[e] - Links(e) + Net(new, e) - Weight(It(t), e)

LEMMA CountsKept ==
  ASSUME FifoInv, NEW t \in Threads, todo[t] # <<>>, NEW Y, NEW new \in Seq(Y), Then(t, new),
         count' \in [Node -> Int], InUse' \subseteq InUse, Pays(t, new)
  PROVE  CountsExplained'
<1>1. LinkInv /\ CountsExplained /\ count \in [Node -> Int]
  BY DEF FifoInv
<1> SUFFICES ASSUME NEW e \in InUse, e \in InUse'
             PROVE  count'[e] = 1 + (Links(e))' + (Debt(Producer, e))' + (Debt(Consumer, e))'
  BY DEF CountsExplained
<1>2. count[e] \in Int /\ count'[e] \in Int
  BY <1>1, InUseNode
<1>3. /\ (Debt(t, e))' = Debt(t, e) - Weight(It(t), e) + Net(new, e)
      /\ Debt(t, e) \in Int /\ Net(new, e) \in Int /\ Weight(It(t), e) \in Int
      /\ \A u \in Threads \ {t} : (Debt(u, e))' = Debt(u, e)
  BY <1>1, DebtThen
<1>4. Debt(Producer, e) \in Int /\ Debt(Consumer, e) \in Int /\ Links(e) \in Nat
  BY <1>1, DebtInt, LinksTo DEF Threads
<1>5. count[e] = 1 + Links(e) + Debt(Producer, e) + Debt(Consumer, e)
  BY <1>1 DEF CountsExplained
<1>6. /\ (Links(e))' \in Int
      /\ count'[e] - (Links(e))' = count[e] - Links(e) + Net(new, e) - Weight(It(t), e)
  BY DEF Pays
<1> DEFINE d == Net(new, e) - Weight(It(t), e)
<1>7. \A u \in Threads : (Debt(u, e))' = IF u = t THEN Debt(u, e) + d ELSE Debt(u, e)
  BY <1>3
<1>8. d \in Int /\ count'[e] - (Links(e))' = count[e] - Links(e) + d
  BY <1>2, <1>3, <1>4, <1>6
<1> HIDE DEF d
<1>9. (Debt(Producer, e))' + (Debt(Consumer, e))' = Debt(Producer, e) + Debt(Consumer, e) + d
  <2>1. CASE t = Producer
    <3>1. (Debt(Producer, e))' = Debt(Producer, e) + d /\ (Debt(Consumer, e))' = Debt(Consumer, e)
      BY <2>1, <1>7 DEF Threads, Producer, Consumer
    <3> QED BY <3>1, <1>4, <1>8
  <2>2. CASE t = Consumer
    <3>1. (Debt(Producer, e))' = Debt(Producer, e) /\ (Debt(Consumer, e))' = Debt(Consumer, e) + d
      BY <2>2, <1>7 DEF Threads, Producer, Consumer
    <3> QED BY <3>1, <1>4, <1>8
  <2> QED BY <2>1, <2>2 DEF Threads
<1>10. (Debt(Producer, e))' \in Int /\ (Debt(Consumer, e))' \in Int
  BY <1>4, <1>7, <1>8 DEF Threads
<1>11. (Links(e))' \in Int
  BY <1>6
<1> DEFINE DP == (Debt(Producer, e))'
           DC == (Debt(Consumer, e))'
           LL == (Links(e))'
           CC == count'[e]
<1>12. /\ DP \in Int /\ DC \in Int /\ LL \in Int /\ CC \in Int /\ count[e] \in Int
       /\ DP + DC = Debt(Producer, e) + Debt(Consumer, e) + d
       /\ CC - LL = count[e] - Links(e) + d
  BY <1>2, <1>8, <1>9, <1>10, <1>11
<1> HIDE DEF DP, DC, LL, CC
<1>13. CC = 1 + LL + DP + DC
  BY <1>4, <1>5, <1>8, <1>12, SMTT(40)
<1> QED BY <1>13 DEF DP, DC, LL, CC

\* A step keeps to the entries that were in the list.
LEMMA NamesKept ==
  ASSUME FifoInv, NEW t \in Threads, todo[t] # <<>>, NEW Y, NEW new \in Seq(Y), Then(t, new),
         Named \subseteq Named', \A o \in Y : o \notin Unnamed',
         \A f \in {"next", "prev"}, n \in Node : link'[f][n].to \in Named'
  PROVE  NamedInv'
<1>1. LinkInv /\ NamedInv
  BY DEF FifoInv
<1>2. Unnamed' \subseteq Unnamed
  <2>1. Counting' = Counting /\ Node' = Node /\ Entries' = Entries /\ Ptrs' = Ptrs
    BY DEF Counting, Node, Old, Entries, head, tail, Ptrs, NULL
  <2>2. Node \ Named' \subseteq Node \ Named
    OBVIOUS
  <2> QED BY <2>1, <2>2 DEF Unnamed
<1> DEFINE U == Unnamed'
<1>3. U \subseteq Unnamed /\ \A o \in Y : o \notin U
  BY <1>2
<1> HIDE DEF U
<1>4. ASSUME NEW u \in Threads PROVE Occurs(U, todo[u]) = 0
  <2>1. PICK X : todo[u] \in Seq(X)
    BY <1>1, TodoSeq
  <2>2. Occurs(U, todo[u]) <= Occurs(Unnamed, todo[u])
    BY <2>1, <1>3, OccursLarger
  <2>3. Occurs(U, todo[u]) \in Nat /\ Occurs(Unnamed, todo[u]) = 0
    BY <2>1, <1>1, OccursFinite DEF NamedInv
  <2> QED BY <2>2, <2>3
<1>5. Occurs(U, new) = 0
  <2>1. \A i \in 1 .. Len(new) : new[i] \in Y
    OBVIOUS
  <2> QED BY <2>1, <1>3, OccursNever
<1>6. /\ \A u \in Threads \ {t} : todo'[u] = todo[u]
      /\ Occurs(U, todo'[t]) = Occurs(U, todo[t]) - One(It(t), U) + Occurs(U, new)
      /\ Occurs(U, todo[t]) \in Nat
  BY <1>1, OccursThen
<1>7. Occurs(U, todo'[t]) = 0
  <2>1. It(t) \notin U
    <3>1. PICK X : todo[t] \in Seq(X)
      BY <1>1, TodoSeq
    <3>2. \A i \in 1 .. Len(todo[t]) : todo[t][i] \notin U
      BY <3>1, <1>4, OccursNever
    <3>3. It(t) = todo[t][1] /\ 1 \in 1 .. Len(todo[t])
      BY <3>1 DEF It
    <3> QED BY <3>2, <3>3
  <2> QED BY <2>1, <1>4, <1>5, <1>6 DEF One
<1>8. \A u \in Threads : Occurs(U, todo'[u]) = 0
  BY <1>4, <1>6, <1>7
<1>9. \A u \in Threads : (Occurs(Unnamed, todo[u]))' = Occurs(U, todo'[u])
  BY DEF U
<1> QED BY <1>8, <1>9 DEF NamedInv, Node, Old, Entries, head, tail

\* Links to be counted: push has one at most, pop keeps a reference for each.
LEMMA BackedKept ==
  ASSUME FifoInv, NEW t \in Threads, todo[t] # <<>>, NEW Y, NEW new \in Seq(Y), Then(t, new),
         made' = made,
         t = Producer => \/ Occurs(Sources, new) <= One(It(t), Sources)
                         \/ Occurs(Sources, new) <= 1 /\ Tail(todo[t]) = <<>>,
         t = Consumer => \/ Paired(new)
                         \/ Len(new) = 1 /\ \A e \in Entries : new[1] \in Takes(e) => It(t) \in Takes(e)
  PROVE  BackedInv'
<1>1. LinkInv /\ BackedInv
  BY DEF FifoInv
<1>2. Sources' = Sources
  BY DEF Sources, Storing, Node, Old, Entries, head, tail, Ptrs, NULL, Looks
<1>3. /\ todo'[t] = new \o Tail(todo[t])
      /\ \A u \in Threads \ {t} : todo'[u] = todo[u]
      /\ Occurs(Sources, todo[t]) \in Nat /\ Occurs(Sources, new) \in Nat
      /\ Occurs(Sources, todo'[t]) = Occurs(Sources, todo[t]) - One(It(t), Sources) + Occurs(Sources, new)
  BY <1>1, OccursThen
<1>4. Occurs(Sources, todo'[Producer]) <= 1
  <2>1. CASE t = Producer /\ Occurs(Sources, new) <= One(It(t), Sources)
    <3>1. One(It(t), Sources) \in Nat
      BY DEF One
    <3> QED BY <2>1, <3>1, <1>1, <1>3 DEF BackedInv
  <2>2. CASE t = Producer /\ Occurs(Sources, new) <= 1 /\ Tail(todo[t]) = <<>>
    <3>1. new \o <<>> = new
      BY ConcatEmptySeq
    <3> QED BY <2>2, <3>1, <1>3
  <2>3. CASE t = Consumer
    <3>1. todo'[Producer] = todo[Producer]
      BY <2>3, <1>3 DEF Threads, Producer, Consumer
    <3> QED BY <3>1, <1>1 DEF BackedInv
  <2> QED BY <2>1, <2>2, <2>3 DEF Threads
<1>5. Paired(todo'[Consumer])
  <2>1. CASE t = Producer
    <3>1. todo'[Consumer] = todo[Consumer]
      BY <2>1, <1>3 DEF Threads, Producer, Consumer
    <3> QED BY <3>1, <1>1 DEF BackedInv
  <2>2. CASE t = Consumer
    <3>1. PICK X : todo[t] \in Seq(X)
      BY <1>1, TodoSeq
    <3>2. Paired(todo[t])
      BY <1>1, <2>2 DEF BackedInv
    <3>3. Paired(new \o Tail(todo[t]))
      BY <3>1, <3>2, <2>2, PairedRest DEF It
    <3> QED BY <3>3, <1>3, <2>2
  <2> QED BY <2>1, <2>2 DEF Threads
<1>6. (Paired(todo[Consumer]))' = Paired(todo'[Consumer])
  BY DEF Paired, Entries, Takes, Looks, Node, Old, head, tail, Release, Op
<1> QED BY <1>2, <1>4, <1>5, <1>6 DEF BackedInv

\* An instruction of the list that names an entry in use names one that is linked.
LEMMA NamedInUse ==
  ASSUME FifoInv, NEW t \in Threads, todo[t] # <<>>, It(t) \in Counting
  PROVE  /\ It(t).n \in Named
         /\ It(t).n \in InUse => It(t).n <= linked
<1>1. LinkInv /\ NamedInv
  BY DEF FifoInv
<1>2. PICK X : todo[t] \in Seq(X)
  BY <1>1, TodoSeq
<1>3. Occurs(Unnamed, todo[t]) = 0
  BY <1>1 DEF NamedInv
<1>4. \A i \in 1 .. Len(todo[t]) : todo[t][i] \notin Unnamed
  BY <1>2, <1>3, OccursNever
<1>5. It(t) = todo[t][1] /\ 1 \in 1 .. Len(todo[t])
  BY <1>2 DEF It
<1>6. It(t) \notin Unnamed
  BY <1>4, <1>5
<1>7. It(t).n \in Named
  BY <1>6 DEF Unnamed
<1>8. /\ linked \in Nat /\ First \in 1 .. linked + 1 /\ made <= MaxPush /\ made \in Nat
      /\ MaxPush \in Nat /\ tail = MaxPush + 1 /\ NULL = -1
  BY <1>1, FirstBounds
<1> QED BY <1>7, <1>8 DEF Named, InUse

-----------------------------------------------------------------------------
(* Steps on the way to the aim of a call. *)

LEMMA InnerStep ==
  ASSUME FifoInv, LinkInv', NEW t \in Threads, todo[t] # <<>>, It(t) # Aim(t),
         NEW new \in Seq(Before(t)), Then(t, new), UNCHANGED <<made, popping, last>>,
         link'["next"][head] = link["next"][head],
         \A n \in First .. linked : link'["next"][n] = link["next"][n],
         \A n \in 1 .. First - 1 : link'["next"][n] \in {link["next"][n], Ptr(NULL)}
  PROVE  OrderInv' /\ DecidedInv' /\ Stutters /\ InUse' = InUse /\ linked' = linked
<1>1. LinkInv /\ OrderInv /\ DecidedInv
  BY DEF FifoInv
<1>2. \A u \in Threads : Aim(u)' = Aim(u) /\ (todo'[u] = <<>> <=> todo[u] = <<>>)
  BY <1>1, FirstDone
<1>3. Aim(Producer)' = Aim(Producer) /\ (todo'[Producer] = <<>>) = (todo[Producer] = <<>>)
  BY <1>2 DEF Threads
<1>4. Unlinked' = Unlinked
  BY <1>3 DEF Unlinked, Looks
<1> DEFINE g == Aim(Consumer)
<1>5. PICK a : a = Aim(Consumer)
  OBVIOUS
<1>6. Aim(Consumer)' = a /\ Decides(a) = popping /\ (a.op = "return" => a.n < First)
  BY <1>1, <1>2, <1>5 DEF Threads, DecidedInv, OrderInv
<1>7. OrderInv' /\ DecidedInv' /\ Stutters /\ InUse' = InUse
  BY <1>3, <1>4, <1>5, <1>6, Settled
<1> QED BY <1>7 DEF Stutters

LEMMA LinksSame ==
  ASSUME link' = link, NEW e
  PROVE  (Links(e))' = Links(e) /\ Links(e) \in Nat
BY LinksTo DEF Links, Node, Old, Entries, head, tail

\* The steps of release_ref, gc and retain_ref.
LEMMA CountingStep ==
  ASSUME FifoInv, NEW t \in Threads, todo[t] # <<>>, It(t) \in Counting,
         NEW Y \in SUBSET Counting, NEW new \in Seq(Y), Then(t, new),
         UNCHANGED <<link, made, popping, last>>, count' \in [Node -> Int],
         \A o \in Y : o.n \in {It(t).n, head},
         \A e \in InUse : count'[e] = count[e] + Net(new, e) - Weight(It(t), e),
         \/ \A o \in Y : o.op \notin Looks
         \/ Len(new) = 1 /\ new[1].op \in Looks /\ It(t).op \in Looks /\ new[1].n = It(t).n
  PROVE  FifoInv' /\ Stutters
<1>1. LinkInv
  BY DEF FifoInv
<1>2. new \in Seq(Counting)
  OBVIOUS
<1>3. LinkInv'
  BY <1>1, <1>2, CountStep
<1>4. It(t) # Aim(t)
  BY <1>1, AimOps, CountingOps DEF Threads, Looks
<1>5. new \in Seq(Before(t))
  BY <1>2, CountingBefore
<1>6. OrderInv' /\ DecidedInv' /\ Stutters /\ InUse' = InUse /\ linked' = linked
  BY <1>3, <1>4, <1>5, InnerStep
<1>7. CountsExplained'
  <2>1. Pays(t, new)
    <3>1. ASSUME NEW e \in InUse
          PROVE  /\ (Links(e))' \in Int
                 /\ count'[e] - (Links(e))' = count[e] - Links(e) + Net(new, e) - Weight(It(t), e)
      <4>1. (Links(e))' = Links(e) /\ Links(e) \in Nat
        BY LinksSame
      <4>2. count[e] \in Int
        BY <1>1, InUseNode DEF FifoInv
      <4>3. Net(new, e) \in Int /\ Weight(It(t), e) \in Int
        BY <1>1, DebtThen
      <4>4. count'[e] = count[e] + Net(new, e) - Weight(It(t), e)
        OBVIOUS
      <4> QED BY <4>1, <4>2, <4>3, <4>4
    <3> QED BY <3>1 DEF Pays
  <2> QED BY <2>1, <1>6, CountsKept
<1>8. NamedInv'
  <2>1. Named' = Named
    BY <1>6 DEF Named, tail, NULL
  <2>2. It(t).n \in Named /\ head \in Named
    <3>1. head \in Named
      BY <1>1, FirstBounds DEF Named
    <3> QED BY <3>1, NamedInUse
  <2>3. \A o \in Y : o \notin Unnamed'
    <3> SUFFICES ASSUME NEW o \in Y PROVE o \notin Unnamed'
      OBVIOUS
    <3>1. o.n \in Named /\ o \in Counting
      BY <2>2
    <3>2. o.op \notin {"store", "swap"}
      BY <3>1, CountingOps DEF Looks
    <3> QED BY <3>1, <3>2, <2>1 DEF Unnamed
  <2>4. \A f \in {"next", "prev"}, n \in Node : link'[f][n].to \in Named'
    BY <2>1 DEF FifoInv, NamedInv
  <2> QED BY <2>1, <2>3, <2>4, NamesKept
<1>9. BackedInv'
  <2>1. CASE \A o \in Y : o.op \notin Looks
    <3>1. \A o \in Y : o \notin Sources /\ \A e \in Entries : o \notin Takes(e)
      <4> SUFFICES ASSUME NEW o \in Y PROVE o \notin Sources /\ \A e \in Entries : o \notin Takes(e)
        OBVIOUS
      <4>1. o.op \notin Looks /\ o.op \notin {"store", "swap"}
        BY <2>1, CountingOps DEF Looks
      <4> QED BY <4>1 DEF Sources, Storing, Takes
    <3>2. \A i \in 1 .. Len(new) : new[i] \in Y
      OBVIOUS
    <3>3. Occurs(Sources, new) = 0
      BY <3>1, <3>2, OccursNever
    <3>4. Paired(new)
      BY <3>1, <3>2 DEF Paired
    <3>5. Occurs(Sources, new) <= One(It(t), Sources)
      BY <3>3 DEF One
    <3> QED BY <3>4, <3>5, BackedKept
  <2>2. CASE Len(new) = 1 /\ new[1].op \in Looks /\ It(t).op \in Looks /\ new[1].n = It(t).n
    <3>1. new = <<new[1]>>
      BY <2>2
    <3>2. new[1] \in Sources => It(t) \in Sources
      <4>1. It(t) \in [op : Looks, n : Node, as : {"retain"}, m : Node]
        BY <2>2 DEF Counting, Looks
      <4>2. new[1] \notin Storing("prev", made, Node)
        BY <2>2 DEF Storing, Looks
      <4> QED BY <2>2, <4>1, <4>2 DEF Sources
    <3>3. \A e \in Entries : new[1] \in Takes(e) => It(t) \in Takes(e)
      <4>1. It(t) \in [op : Looks, n : Node, as : {"retain"}, m : Node]
        BY <2>2 DEF Counting, Looks
      <4> QED BY <2>2, <4>1 DEF Takes
    <3>4. Occurs(Sources, new) = One(new[1], Sources)
      BY <3>1, OccursOne
    <3>5. Occurs(Sources, new) <= One(It(t), Sources)
      BY <3>2, <3>4 DEF One
    <3> QED BY <2>2, <3>3, <3>5, BackedKept
  <2> QED BY <2>1, <2>2
<1> QED BY <1>3, <1>6, <1>7, <1>8, <1>9 DEF FifoInv


\* A step of release_ref or gc that leaves the count alone.
LEMMA ReleaseGoesOn ==
  ASSUME FifoInv, NEW t \in Threads, todo[t] # <<>>,
         It(t).op \in {"mark", "test", "terminate", "unmark", "gc?", "gc", "collect"},
         UNCHANGED <<link, made, popping, last, count>>,
         \/ Then(t, <<>>)
         \/ \E o \in {"mark", "test", "terminate", "unmark", "gc?", "gc", "collect"},
               k \in {It(t).n, head} : Then(t, <<Op(o, k, k)>>)
  PROVE  FifoInv' /\ Stutters
<1>1. LinkInv /\ count \in [Node -> Int]
  BY DEF FifoInv
<1>2. It(t) \in Counting
  BY <1>1, CountingHead
<1>3. It(t).n \in Node /\ head \in Node
  BY <1>2, CountingOps, Sentinels
<1>4. \A e : Weight(It(t), e) = 0
  BY NoWeight
<1>5. CASE Then(t, <<>>)
  <2>1. <<>> \in Seq({}) /\ {} \in SUBSET Counting /\ \A e : Net(<<>>, e) = 0
    BY Nets
  <2>2. \A e \in InUse : count'[e] = count[e] + Net(<<>>, e) - Weight(It(t), e)
    BY <2>1, <1>1, <1>4, InUseNode
  <2> QED BY <1>1, <1>2, <1>5, <2>1, <2>2, CountingStep
<1>6. ASSUME NEW o \in {"mark", "test", "terminate", "unmark", "gc?", "gc", "collect"},
             NEW k \in {It(t).n, head}, Then(t, <<Op(o, k, k)>>)
      PROVE  FifoInv' /\ Stutters
  <2> DEFINE x == Op(o, k, k)
  <2>1. x \in Counting /\ x.n = k /\ x.op = o
    BY <1>3, CountingType DEF Op
  <2>2. o \notin Looks
    BY DEF Looks
  <2> HIDE DEF x
  <2>3. <<x>> \in Seq({x}) /\ {x} \in SUBSET Counting
    BY <2>1
  <2>4. ASSUME NEW e PROVE Weight(x, e) = 0 /\ Net(<<x>>, e) = 0
    <3>1. Weight(x, e) = 0
      BY <2>1, NoWeight
    <3> QED BY <3>1, Nets
  <2>5. \A e \in InUse : count'[e] = count[e] + Net(<<x>>, e) - Weight(It(t), e)
    BY <2>4, <1>1, <1>4, InUseNode
  <2>6. Then(t, <<x>>) /\ (\A y \in {x} : y.n \in {It(t).n, head} /\ y.op \notin Looks)
    BY <1>6, <2>1, <2>2 DEF x
  <2> QED BY <1>1, <1>2, <2>3, <2>5, <2>6, CountingStep
<1> QED BY <1>5, <1>6

LEMMA ReleaseReads ==
  ASSUME FifoInv, NEW t \in Threads, ReleaseRead(t)
  PROVE  FifoInv' /\ Stutters
<1> DEFINE n == It(t).n
           d == Op("decrement", n, n)
           x == Op("mark", n, n)
<1>1. LinkInv /\ count \in [Node -> Int]
  BY DEF FifoInv
<1>2. /\ todo[t] # <<>> /\ It(t).op = "release"
      /\ Then(t, (IF count[n] > 0 THEN <<d>> ELSE <<>>) \o <<x>>)
      /\ UNCHANGED <<link, made, popping, last, count>>
  BY DEF ReleaseRead, At, It, refs
<1>3. It(t) \in Counting
  BY <1>1, <1>2, CountingHead
<1>4. n \in Node /\ It(t).m \in Node
  BY <1>3, CountingOps
<1>5. d \in Counting /\ x \in Counting /\ d.n = n /\ x.n = n /\ d.op \notin Looks /\ x.op \notin Looks
  BY <1>4, CountingType DEF Op, Looks
<1>6. ASSUME NEW e \in InUse
      PROVE  /\ Weight(It(t), e) = One(n, {e}) /\ Weight(d, e) = One(n, {e}) /\ Weight(x, e) = 0
             /\ One(n, {e}) \in Nat /\ count[e] \in Int
  <2>1. e \in Node
    BY <1>1, InUseNode
  <2>2. Weight(d, e) = One(n, {e}) /\ Weight(x, e) = 0
    BY <2>1, <1>4, Weights
  <2>3. It(t) \in Owes(e) <=> n = e
    <3>1. It(t) \in [op : {"release"}, n : Node, m : Node]
      BY <1>2, <1>3 DEF Counting, Looks
    <3> QED BY <3>1, <2>1 DEF Owes
  <2>4. It(t) \notin Takes(e)
    BY <1>2 DEF Takes, Looks
  <2> QED BY <1>1, <2>1, <2>2, <2>3, <2>4 DEF Weight, One
<1>20. count' = count
  BY <1>2
<1> HIDE DEF d, x
<1>7. CASE count[n] > 0
  <2>1. <<d>> \o <<x>> = <<d, x>> /\ <<d, x>> \in Seq({d, x})
    <3>1. <<d>> \in Seq({d, x}) /\ x \in {d, x} /\ <<d, x>> = Append(<<d>>, x)
      OBVIOUS
    <3>2. <<d, x>> \in Seq({d, x})
      OBVIOUS
    <3>3. Append(<<d>>, x) = <<d>> \o <<x>>
      BY <3>1, AppendIsConcat
    <3> QED BY <3>1, <3>2, <3>3
  <2>2. Then(t, <<d, x>>)
    BY <1>2, <1>7, <2>1
  <2>3. \A e \in InUse : count'[e] = count[e] + Net(<<d, x>>, e) - Weight(It(t), e)
    <3> SUFFICES ASSUME NEW e \in InUse
                 PROVE  count'[e] = count[e] + Net(<<d, x>>, e) - Weight(It(t), e)
      OBVIOUS
    <3>1. Net(<<d, x>>, e) = Weight(d, e) + Weight(x, e)
      BY Nets
    <3>2. /\ Weight(It(t), e) = One(n, {e}) /\ Weight(d, e) = One(n, {e}) /\ Weight(x, e) = 0
          /\ One(n, {e}) \in Nat /\ count[e] \in Int
      BY <1>6
    <3>3. Net(<<d, x>>, e) = One(n, {e})
      BY <3>1, <3>2
    <3> QED BY <3>2, <3>3, <1>20
  <2>4. {d, x} \in SUBSET Counting /\ \A y \in {d, x} : y.n \in {n, head} /\ y.op \notin Looks
    BY <1>5
  <2> QED BY <1>1, <1>2, <1>3, <2>1, <2>2, <2>3, <2>4, CountingStep
<1>8. CASE ~(count[n] > 0)
  <2>1. <<>> \o <<x>> = <<x>> /\ <<x>> \in Seq({x})
    OBVIOUS
  <2>2. Then(t, <<x>>)
    BY <1>2, <1>8, <2>1
  <2>3. \A e \in InUse : count'[e] = count[e] + Net(<<x>>, e) - Weight(It(t), e)
    <3> SUFFICES ASSUME NEW e \in InUse
                 PROVE  count'[e] = count[e] + Net(<<x>>, e) - Weight(It(t), e)
      OBVIOUS
    <3>1. Net(<<x>>, e) = 0
      BY <1>6, Nets
    <3>2. n # e
      <4>1. n \in InUse => n <= linked
        BY <1>2, <1>3, NamedInUse
      <4>2. n \in InUse => count[n] >= 1
        BY <4>1, CountPositive
      <4> QED BY <4>2, <1>1, <1>4, <1>8
    <3>3. Weight(It(t), e) = 0
      BY <1>6, <3>2 DEF One
    <3>4. count[e] \in Int
      BY <1>6
    <3> QED BY <3>1, <3>3, <3>4, <1>20
  <2>4. {x} \in SUBSET Counting /\ \A y \in {x} : y.n \in {n, head} /\ y.op \notin Looks
    BY <1>5
  <2> QED BY <1>1, <1>2, <1>3, <2>1, <2>2, <2>3, <2>4, CountingStep
<1> QED BY <1>7, <1>8

LEMMA ReleaseDecrements ==
  ASSUME FifoInv, NEW t \in Threads, ReleaseDecrement(t)
  PROVE  FifoInv' /\ Stutters
<1> DEFINE n == It(t).n
<1>1. LinkInv /\ count \in [Node -> Int]
  BY DEF FifoInv
<1>2. /\ todo[t] # <<>> /\ It(t).op = "decrement" /\ Then(t, <<>>)
      /\ count' = [count EXCEPT ![n] = @ - 1]
      /\ UNCHANGED <<link, made, popping, last>>
  BY DEF ReleaseDecrement, At, It
<1>3. It(t) \in Counting
  BY <1>1, <1>2, CountingHead
<1>4. n \in Node /\ count' \in [Node -> Int]
  BY <1>1, <1>2, <1>3, CountingOps
<1>5. <<>> \in Seq({}) /\ {} \in SUBSET Counting /\ \A e : Net(<<>>, e) = 0
  BY Nets
<1>6. ASSUME NEW e \in InUse
      PROVE  count'[e] = count[e] + Net(<<>>, e) - Weight(It(t), e)
  <2>1. e \in Node /\ count[e] \in Int
    BY <1>1, InUseNode
  <2>2. It(t) \in Owes(e) <=> n = e
    <3>1. It(t) \in [op : {"decrement"}, n : Node, m : Node]
      BY <1>2, <1>3 DEF Counting, Looks
    <3> QED BY <3>1, <2>1 DEF Owes
  <2>3. It(t) \notin Takes(e)
    BY <1>2 DEF Takes, Looks
  <2>4. Weight(It(t), e) = IF n = e THEN 1 ELSE 0
    BY <2>2, <2>3 DEF Weight, One
  <2>5. count'[e] = IF n = e THEN count[e] - 1 ELSE count[e]
    BY <1>1, <1>2, <2>1
  <2> QED BY <2>1, <2>4, <2>5, <1>5
<1> QED BY <1>2, <1>3, <1>4, <1>5, <1>6, CountingStep, ZenonT(60)

LEMMA FifoReleases ==
  ASSUME FifoInv, NEW t \in Threads,
         \/ ReleaseRead(t) \/ ReleaseDecrement(t) \/ ReleaseMark(t) \/ ReleaseTest(t)
         \/ ReleaseTerminate(t) \/ ReleaseUnmark(t) \/ ReleaseThreshold(t)
         \/ GcTest(t) \/ GcCollect(t)
  PROVE  FifoInv' /\ Stutters
<1>1. CASE ReleaseMark(t)
  BY <1>1, ReleaseGoesOn DEF ReleaseMark, At, It, refs
<1>2. CASE ReleaseTest(t)
  BY <1>2, ReleaseGoesOn DEF ReleaseTest, At, It, refs
<1>3. CASE ReleaseTerminate(t)
  BY <1>3, ReleaseGoesOn DEF ReleaseTerminate, At, It, refs
<1>4. CASE ReleaseUnmark(t)
  BY <1>4, ReleaseGoesOn DEF ReleaseUnmark, At, It, refs
<1>5. CASE ReleaseThreshold(t)
  BY <1>5, ReleaseGoesOn DEF ReleaseThreshold, At, It, refs
<1>6. CASE GcTest(t)
  BY <1>6, ReleaseGoesOn DEF GcTest, At, It, refs
<1>7. CASE GcCollect(t)
  BY <1>7, ReleaseGoesOn DEF GcCollect, At, It, refs
<1> QED BY <1>1, <1>2, <1>3, <1>4, <1>5, <1>6, <1>7, ReleaseReads, ReleaseDecrements

\* retain_ref: it finds a count, for the entry is in the list.
LEMMA FifoRetains ==
  ASSUME FifoInv, NEW t \in Threads, DerefDelete(t) \/ DerefCount(t) \/ DerefClaim(t),
         It(t).as \notin {"push", "pop", "succ"}
  PROVE  FifoInv' /\ Stutters
<1> DEFINE n == It(t).n
<1>1. LinkInv /\ count \in [Node -> Int]
  BY DEF FifoInv
<1>2. /\ todo[t] # <<>> /\ It(t).op \in Looks
      /\ UNCHANGED <<link, made, popping, last>>
  BY DEF DerefDelete, DerefCount, DerefClaim, At, It, Looks
<1>3. It(t) \in Counting
  BY <1>1, <1>2, CountingHead
<1>4. It(t) \in [op : Looks, n : Node, as : {"retain"}, m : Node]
  BY <1>2, <1>3 DEF Counting, Looks
<1>5. n \in Node /\ It(t).m \in Node /\ It(t).as = "retain"
  BY <1>4
<1>6. ASSUME NEW e \in InUse
      PROVE  Weight(It(t), e) = (IF n = e THEN -1 ELSE 0) /\ count[e] \in Int /\ e \in Node
  <2>1. e \in Node
    BY <1>1, InUseNode
  <2>2. It(t) \in Takes(e) <=> n = e
    BY <1>4, <2>1 DEF Takes
  <2>3. It(t) \notin Owes(e)
    BY <1>2 DEF Owes, Looks
  <2> QED BY <1>1, <2>1, <2>2, <2>3 DEF Weight, One
<1>7. ASSUME NEW o \in Looks, Then(t, <<[It(t) EXCEPT !.op = o]>>), count' = count
      PROVE  FifoInv' /\ Stutters
  <2> DEFINE x == [It(t) EXCEPT !.op = o]
  <2>1. x \in [op : Looks, n : Node, as : {"retain"}, m : Node] /\ x.n = n /\ x.op = o
    BY <1>4
  <2>2. Then(t, <<x>>)
    BY <1>7
  <2> HIDE DEF x
  <2>3. x \in Counting
    BY <2>1 DEF Counting, Looks
  <2>4. <<x>> \in Seq({x}) /\ {x} \in SUBSET Counting /\ Len(<<x>>) = 1 /\ <<x>>[1] = x
    BY <2>3
  <2>5. ASSUME NEW e \in InUse
        PROVE  count'[e] = count[e] + Net(<<x>>, e) - Weight(It(t), e)
    <3>1. Weight(It(t), e) = (IF n = e THEN -1 ELSE 0) /\ count[e] \in Int /\ e \in Node
      BY <1>6
    <3>2. x \in Takes(e) <=> n = e
      BY <2>1, <3>1 DEF Takes
    <3>3. x \notin Owes(e)
      BY <2>1 DEF Owes, Looks
    <3>4. Net(<<x>>, e) = IF n = e THEN -1 ELSE 0
      BY <3>2, <3>3, Nets DEF Weight, One
    <3> QED BY <3>1, <3>4, <1>7
  <2>6. \A y \in {x} : y.n \in {It(t).n, head}
    BY <2>1
  <2>7. <<x>>[1].op \in Looks /\ <<x>>[1].n = It(t).n
    BY <2>1, <2>4
  <2> QED BY <1>1, <1>2, <1>3, <1>7, <2>2, <2>4, <2>5, <2>6, <2>7, CountingStep
<1>8. <<>> \in Seq({}) /\ {} \in SUBSET Counting /\ \A e : Net(<<>>, e) = 0
  BY Nets
<1>9. CASE DerefDelete(t)
  <2>1. (IF delete[It(t).n] THEN "recheck" ELSE "claim") \in Looks
    BY DEF Looks
  <2>2. count' = count /\ Then(t, <<[It(t) EXCEPT !.op = IF delete[It(t).n] THEN "recheck" ELSE "claim"]>>)
    BY <1>9 DEF DerefDelete, refs
  <2> QED BY <2>1, <2>2, <1>7
<1>10. CASE DerefCount(t)
  <2>1. Failed(It(t).as, It(t).m) = <<>> /\ "claim" \in Looks
    BY <1>5 DEF Failed, Looks
  <2>2. count' = count /\ Then(t, IF count[n] = 0 THEN <<>> ELSE <<[It(t) EXCEPT !.op = "claim"]>>)
    BY <1>10, <2>1 DEF DerefCount, refs
  <2>3. CASE count[n] # 0
    BY <2>1, <2>2, <2>3, <1>7
  <2>4. CASE count[n] = 0
    <3>1. Then(t, <<>>)
      BY <2>2, <2>4
    <3>2. n \notin InUse
      <4>1. n \in InUse => n <= linked
        BY <1>2, <1>3, NamedInUse
      <4>2. n \in InUse => count[n] >= 1
        BY <4>1, CountPositive
      <4> QED BY <4>2, <2>4
    <3>3. ASSUME NEW e \in InUse
          PROVE  count'[e] = count[e] + Net(<<>>, e) - Weight(It(t), e)
      <4>1. Weight(It(t), e) = 0 /\ count[e] \in Int /\ Net(<<>>, e) = 0
        BY <3>2, <1>6, <1>8
      <4> QED BY <4>1, <2>2
    <3> QED BY <1>1, <1>2, <1>3, <1>8, <2>2, <3>1, <3>3, CountingStep
  <2> QED BY <2>3, <2>4
<1>11. CASE DerefClaim(t)
  <2>1. Acquired(It(t).as, It(t).m, It(t).n) = <<>>
    BY <1>5 DEF Acquired
  <2>2. Then(t, <<>>) /\ count' = [count EXCEPT ![n] = @ + 1]
    BY <1>11, <2>1 DEF DerefClaim
  <2>3. count' \in [Node -> Int]
    BY <2>2, <1>1, <1>5
  <2>4. ASSUME NEW e \in InUse
        PROVE  count'[e] = count[e] + Net(<<>>, e) - Weight(It(t), e)
    <3>1. Weight(It(t), e) = (IF n = e THEN -1 ELSE 0) /\ count[e] \in Int /\ e \in Node /\ Net(<<>>, e) = 0
      BY <1>6, <1>8
    <3>2. count'[e] = IF n = e THEN count[e] + 1 ELSE count[e]
      BY <2>2, <1>1, <3>1
    <3> QED BY <3>1, <3>2
  <2> QED BY <1>1, <1>2, <1>3, <1>8, <2>2, <2>3, <2>4, CountingStep, ZenonT(60)
<1> QED BY <1>9, <1>10, <1>11

-----------------------------------------------------------------------------
(* store_ref: a link of the entry that is not in the list yet, or not any more. *)

LEMMA StoreOwn ==
  ASSUME FifoInv, NEW t \in Threads, todo[t] # <<>>, It(t).op \in {"store", "swap"}
  PROVE  /\ It(t) # Aim(t)
         /\ \E f \in {"next", "prev"}, e \in Entries, M \in SUBSET (Node \cup {NULL}) :
              /\ Storing(f, e, M) \subseteq Before(t) /\ It(t) \in Storing(f, e, M)
              /\ t = Producer => e = made /\ e > linked /\ (f = "next" => M \subseteq {tail, NULL})
              /\ t = Consumer => e < First /\ M = {NULL}
         /\ It(t).m \in Named
<1>1. LinkInv /\ OrderInv /\ NamedInv
  BY DEF FifoInv
<1>2. It(t) # Aim(t)
  BY <1>1, StoreHead
<1>3. PICK f \in {"next", "prev"}, e \in Entries, M \in SUBSET (Node \cup {NULL}) :
        /\ Storing(f, e, M) \subseteq Before(t) /\ It(t) \in Storing(f, e, M)
        /\ Owner(t, f, e, M)
  BY <1>1, StoreHead
<1>4. It(t).n = e /\ It(t).f = f /\ It(t).m \in M
  BY <1>3 DEF Storing
<1>5. t = Producer => e = made /\ e > linked /\ (f = "next" => M \subseteq {tail, NULL})
  <2>1. Unlinked => linked = made - 1 /\ made \in Nat
    BY <1>1, Bounds
  <2> QED BY <1>3, <2>1 DEF Owner, Producer, Consumer
<1>6. t = Consumer => e < First /\ M = {NULL}
  <2> SUFFICES ASSUME t = Consumer PROVE e < First /\ M = {NULL}
    OBVIOUS
  <2>1. Aim(Consumer).op = "return" /\ M = {NULL}
    BY <1>3 DEF Owner, Producer, Consumer
  <2>2. It(t) \in Before(t) /\ It(t) \notin Counting
    BY <1>3 DEF Counting
  <2>3. It(t).n = Aim(Consumer).n
    BY <2>1, <2>2 DEF Before, Storing, Op, Producer, Consumer
  <2> QED BY <2>1, <2>3, <1>1, <1>4 DEF OrderInv
<1>7. It(t).m \in Named
  <2>1. PICK X : todo[t] \in Seq(X)
    BY <1>1, TodoSeq
  <2>2. \A i \in 1 .. Len(todo[t]) : todo[t][i] \notin Unnamed
    BY <2>1, <1>1, OccursNever DEF NamedInv
  <2>3. It(t) = todo[t][1] /\ 1 \in 1 .. Len(todo[t])
    BY <2>1 DEF It
  <2>4. It(t) \notin Unnamed
    BY <2>2, <2>3
  <2>5. NULL \in Named
    BY DEF Named
  <2>6. CASE It(t).m \notin Named
    <3>1. It(t).m \in Node \ Named
      BY <2>5, <2>6, <1>4
    <3>2. It(t) \in [op : {"store"}, f : {f}, n : {e}, m : M] \cup [op : {"swap"}, f : {f}, n : {e}, m : M, old : Ptrs]
      BY <1>3 DEF Storing
    <3>3. It(t) \in Unnamed
      BY <3>1, <3>2 DEF Unnamed
    <3> QED BY <2>4, <3>3
  <2> QED BY <2>6
<1> QED BY <1>2, <1>3, <1>5, <1>6, <1>7

\* A step between the read of the link and the swap.
LEMMA StoreGoesOn ==
  ASSUME FifoInv, LinkInv', NEW t \in Threads, todo[t] # <<>>, It(t).op \in {"store", "swap"},
         NEW f \in {"next", "prev"}, NEW e \in Entries, NEW M \in SUBSET (Node \cup {NULL}),
         Storing(f, e, M) \subseteq Before(t), It(t) \in Storing(f, e, M),
         NEW s \in Storing(f, e, M), s.m = It(t).m, Then(t, <<s>>),
         UNCHANGED <<link, made, popping, last, count>>
  PROVE  FifoInv' /\ Stutters
<1>1. LinkInv /\ count \in [Node -> Int]
  BY DEF FifoInv
<1>2. It(t) # Aim(t) /\ It(t).m \in Named
  BY StoreOwn
<1>3. <<s>> \in Seq(Before(t)) /\ <<s>> \in Seq({s}) /\ <<s>> \in Seq(Storing(f, e, M))
  OBVIOUS
<1>4. OrderInv' /\ DecidedInv' /\ Stutters /\ InUse' = InUse /\ linked' = linked
  BY <1>2, <1>3, InnerStep
<1>5. s.op \in {"store", "swap"}
  BY DEF Storing
<1>6. CountsExplained'
  <2>1. ASSUME NEW x \in InUse
        PROVE  /\ (Links(x))' \in Int
               /\ count'[x] - (Links(x))' = count[x] - Links(x) + Net(<<s>>, x) - Weight(It(t), x)
    <3>1. (Links(x))' = Links(x) /\ Links(x) \in Nat
      BY LinksSame
    <3>2. count[x] \in Int
      BY <1>1, InUseNode
    <3>3. Weight(s, x) = 0
      BY <1>5, NoWeight
    <3>4. Weight(It(t), x) = 0
      BY NoWeight
    <3>5. Net(<<s>>, x) = 0
      BY <3>3, Nets
    <3> QED BY <3>1, <3>2, <3>4, <3>5
  <2>2. Pays(t, <<s>>)
    BY <2>1 DEF Pays
  <2> QED BY <2>2, <1>1, <1>3, <1>4, CountsKept
<1>7. NamedInv'
  <2>1. Named' = Named
    BY <1>4 DEF Named, tail, NULL
  <2>2. s \notin Unnamed'
    <3>1. s.m \in Named'
      BY <1>2, <2>1
    <3>2. s \notin Counting'
      BY <1>5 DEF Counting
    <3> QED BY <3>1, <3>2 DEF Unnamed
  <2>3. \A g \in {"next", "prev"}, n \in Node : link'[g][n].to \in Named'
    BY <2>1 DEF FifoInv, NamedInv
  <2> DEFINE Y == {s}
             new == <<s>>
  <2>4. new \in Seq(Y) /\ Then(t, new) /\ Named \subseteq Named' /\ \A o \in Y : o \notin Unnamed'
    BY <1>3, <2>1, <2>2
  <2> HIDE DEF Y, new
  <2> QED BY <2>3, <2>4, NamesKept
<1>8. BackedInv'
  <2>1. Occurs(Sources, <<s>>) = One(s, Sources)
    BY OccursOne
  <2>2. s \in Sources => It(t) \in Sources
    <3>1. s \notin [op : Looks, n : Entries, as : {"retain"}, m : Node]
      BY <1>5 DEF Looks
    <3>2. s \in Storing("prev", made, Node) => It(t) \in Storing("prev", made, Node)
      BY DEF Storing
    <3> QED BY <3>1, <3>2 DEF Sources
  <2>3. Occurs(Sources, <<s>>) <= One(It(t), Sources)
    BY <2>1, <2>2 DEF One
  <2>4. Len(<<s>>) = 1 /\ <<s>>[1] = s /\ \A x : s \notin Takes(x)
    BY <1>5 DEF Takes, Looks
  <2> QED BY <1>3, <2>3, <2>4, BackedKept
<1> QED BY <1>1, <1>4, <1>6, <1>7, <1>8 DEF FifoInv

\* Instructions that name nobody but who is known after the step.
LEMMA Nameless ==
  /\ \A o \in Counting : o.n \in Named' => o \notin Unnamed'
  /\ \A o : o.op \in {"store", "swap"} /\ o.m \in Named' => o \notin Unnamed'
  /\ \A o : \/ o.op \in {"deref", "link", "back", "grow", "first", "peek", "marknext", "prev", "markprev",
                        "unprev", "unlink", "shrink", "return"}
            \/ o.op \in Looks /\ o.as # "retain"
            => o \notin Unnamed'
<1> DEFINE U == {o \in Counting : o.n \notin Named'}
           V == [op : {"store"}, f : {"next", "prev"}, n : Entries, m : Node \ Named']
           W == [op : {"swap"}, f : {"next", "prev"}, n : Entries, m : Node \ Named', old : Ptrs]
<1>1. Unnamed' = U \cup V \cup W
  BY DEF Unnamed, Counting, Looks, Node, Entries, Old, head, tail, Ptrs, NULL
<1>2. \A o \in V : o.op = "store" /\ o.m \notin Named'
  OBVIOUS
<1>3. \A o \in W : o.op = "swap" /\ o.m \notin Named'
  OBVIOUS
<1>4. \A o \in U : o \in Counting /\ o.n \notin Named'
  OBVIOUS
<1>5. \A o \in Counting :
        \/ o.op \in {"release", "decrement", "mark", "test", "terminate", "unmark", "gc?", "gc", "collect"}
        \/ o.op \in {"look", "recheck", "claim"} /\ o.as = "retain"
  BY CountingOps DEF Looks
<1> HIDE DEF U, V, W
<1>6. \A o \in Counting : o.n \in Named' => o \notin Unnamed'
  BY <1>1, <1>2, <1>3, <1>4, <1>5
<1>7. \A o : o.op \in {"store", "swap"} /\ o.m \in Named' => o \notin Unnamed'
  BY <1>1, <1>2, <1>3, <1>4, <1>5
<1>8. \A o : \/ o.op \in {"deref", "link", "back", "grow", "first", "peek", "marknext", "prev", "markprev",
                         "unprev", "unlink", "shrink", "return"}
             \/ o.op \in Looks /\ o.as # "retain"
             => o \notin Unnamed'
  BY <1>1, <1>2, <1>3, <1>4, <1>5 DEF Looks
<1> QED BY <1>6, <1>7, <1>8

\* What a change of one link does to the links.
Relinked(f, n, p) == link' = [link EXCEPT ![f][n] = p]

LEMMA Relinks ==
  ASSUME LinkInv, NEW f \in {"next", "prev"}, NEW n \in Node, NEW p \in Ptrs, Relinked(f, n, p)
  PROVE  /\ link'[f][n] = p
         /\ \A x \in Node : x # n => link'[f][x] = link[f][x]
         /\ \A g \in {"next", "prev"} : g # f => link'[g] = link[g]
         /\ \A e : Shifted(e, link[f][n].to, p.to)
<1>1. /\ link'[f][n] = p
      /\ \A x \in Node : x # n => link'[f][x] = link[f][x]
      /\ \A g \in {"next", "prev"} : g # f => link'[g] = link[g]
  BY LinkChanged, ZenonT(60) DEF Relinked
<1>2. ASSUME NEW e PROVE Shifted(e, link[f][n].to, p.to)
  <2>1. Changed(f, n, p)
    BY <1>1 DEF Changed
  <2> QED BY <2>1, LinksChange
<1> QED BY <1>1, <1>2

\* What counting the new node of a swap and releasing the old one comes to.
LEMMA SwapNets ==
  ASSUME NEW m \in Node \cup {NULL}, NEW o \in Node \cup {NULL}, NEW Y,
         m # NULL => Retain(m) \in Y, o # NULL => Release(o) \in Y, NEW retain, NEW release,
         retain = IF m = NULL THEN <<>> ELSE <<Retain(m)>>,
         release = IF o = NULL THEN <<>> ELSE <<Release(o)>>
  PROVE  /\ retain \o release \in Seq(Y)
         /\ \A x \in Node : Net(retain \o release, x) = One(o, {x}) - One(m, {x})
         /\ Occurs(Sources, retain \o release) = IF m \in Entries THEN 1 ELSE 0
         /\ m = NULL => Paired(retain \o release)
<1>1. retain \in Seq(Y) /\ release \in Seq(Y)
  OBVIOUS
<1>2. NULL \notin Node /\ NULL \notin Entries /\ Entries \subseteq Node
  BY Sentinels DEF Node
<1>3. \A x \in Node : Net(retain, x) = - One(m, {x})
  <2>1. ASSUME NEW x \in Node PROVE Net(retain, x) = - One(m, {x})
    <3>1. CASE m = NULL
      BY <3>1, <1>2, Nets DEF One
    <3>2. CASE m # NULL
      <4>1. Weight(Retain(m), x) = - One(m, {x})
        BY <3>2, Weights
      <4>2. Net(<<Retain(m)>>, x) = Weight(Retain(m), x)
        BY Nets
      <4> QED BY <3>2, <4>1, <4>2
    <3> QED BY <3>1, <3>2
  <2> QED BY <2>1
<1>4. \A x \in Node : Net(release, x) = One(o, {x})
  <2>1. ASSUME NEW x \in Node PROVE Net(release, x) = One(o, {x})
    <3>1. CASE o = NULL
      BY <3>1, <1>2, Nets DEF One
    <3>2. CASE o # NULL
      <4>1. Weight(Release(o), x) = One(o, {x})
        BY <3>2, Weights
      <4>2. Net(<<Release(o)>>, x) = Weight(Release(o), x)
        BY Nets
      <4> QED BY <3>2, <4>1, <4>2
    <3> QED BY <3>1, <3>2
  <2> QED BY <2>1
<1>5. \A x \in Node : Net(retain \o release, x) = One(o, {x}) - One(m, {x})
  <2>1. ASSUME NEW x \in Node PROVE Net(retain \o release, x) = One(o, {x}) - One(m, {x})
    <3>1. Net(retain \o release, x) = Net(retain, x) + Net(release, x)
      BY <1>1, NetConcat
    <3>2. One(o, {x}) \in Int /\ One(m, {x}) \in Int
      BY DEF One
    <3>3. Net(retain, x) = - One(m, {x}) /\ Net(release, x) = One(o, {x})
      BY <1>3, <1>4
    <3> QED BY <3>1, <3>2, <3>3
  <2> QED BY <2>1
<1>6. Occurs(Sources, retain) = IF m \in Entries THEN 1 ELSE 0
  <2>1. CASE m = NULL
    BY <2>1, <1>2, OccursNone
  <2>2. CASE m # NULL
    <3>1. Retain(m) \in Sources <=> m \in Entries
      BY <2>2, <1>2 DEF Sources, Storing, Retain, Look, Looks
    <3>2. Occurs(Sources, <<Retain(m)>>) = One(Retain(m), Sources)
      BY OccursOne
    <3> QED BY <2>2, <3>1, <3>2 DEF One
  <2> QED BY <2>1, <2>2
<1>7. Occurs(Sources, release) = 0
  <2>1. Release(o) \notin Sources
    BY DEF Sources, Storing, Release, Op, Looks
  <2>2. Occurs(Sources, <<Release(o)>>) = One(Release(o), Sources)
    BY OccursOne
  <2>3. Occurs(Sources, <<Release(o)>>) = 0
    BY <2>1, <2>2 DEF One
  <2> QED BY <2>3, OccursNone
<1>8. Occurs(Sources, retain \o release) = Occurs(Sources, retain) + Occurs(Sources, release)
  BY <1>1, OccursConcat
<1>9. m = NULL => Paired(retain \o release)
  <2> SUFFICES ASSUME m = NULL PROVE Paired(retain \o release)
    OBVIOUS
  <2>1. retain \o release = release
    BY <1>1
  <2>2. \A i \in 1 .. Len(release) : release[i] = Release(o)
    OBVIOUS
  <2>3. \A x : Release(o) \notin Takes(x)
    BY DEF Takes, Looks, Release, Op
  <2>4. Paired(release)
    BY <2>2, <2>3 DEF Paired
  <2> QED BY <2>1, <2>4
<1>10. retain \o release \in Seq(Y)
  BY <1>1
<1>11. Occurs(Sources, retain \o release) = IF m \in Entries THEN 1 ELSE 0
  BY <1>6, <1>7, <1>8
<1> QED BY <1>5, <1>9, <1>10, <1>11

LEMMA FifoSwaps ==
  ASSUME FifoInv, NEW t \in Threads, StoreSwap(t), link[It(t).f][It(t).n] = It(t).old
  PROVE  FifoInv' /\ Stutters
<1>1. LinkInv /\ LinkInv' /\ count \in [Node -> Int] /\ NamedInv
  BY StoreSwaps DEF FifoInv
<1>2. /\ todo[t] # <<>> /\ It(t).op = "swap"
      /\ UNCHANGED <<made, popping, last, count>>
  BY DEF StoreSwap, At, It, refs
<1>3. PICK f \in {"next", "prev"}, e \in Entries, M \in SUBSET (Node \cup {NULL}) :
        /\ Storing(f, e, M) \subseteq Before(t) /\ It(t) \in Storing(f, e, M)
        /\ t = Producer => e = made /\ e > linked /\ (f = "next" => M \subseteq {tail, NULL})
        /\ t = Consumer => e < First /\ M = {NULL}
  BY <1>2, StoreOwn
<1>4. It(t) # Aim(t) /\ It(t).m \in Named
  BY <1>2, StoreOwn
<1>5. PICK m, old : m = It(t).m /\ old = It(t).old
  OBVIOUS
<1>6. It(t).f = f /\ It(t).n = e /\ m \in M /\ m \in Node \cup {NULL} /\ old \in Ptrs
  BY <1>2, <1>3, <1>5 DEF Storing
<1>7. old.to \in Node \cup {NULL}
  BY <1>6 DEF Ptrs
<1> DEFINE retain == IF m = NULL THEN <<>> ELSE <<Retain(m)>>
           release == IF old.to = NULL THEN <<>> ELSE <<Release(old.to)>>
           new == retain \o release
           Y == {o \in Counting : o.n \in Named}
<1>8. link' = [link EXCEPT ![f][e] = Ptr(m)] /\ Then(t, new)
  BY <1>5, <1>6 DEF StoreSwap
<1>9. link[f][e] = old /\ e \in Node
  BY <1>5, <1>6 DEF Node
<1>10. old.to \in Named /\ m \in Named
  BY <1>1, <1>4, <1>5, <1>9 DEF NamedInv
<1>11. /\ m # NULL => Retain(m) \in Y
       /\ old.to # NULL => Release(old.to) \in Y
  BY <1>6, <1>7, <1>10, CountingType DEF Retain, Release, Look, Op
<1>12. PICK r1, r2 : r1 = retain /\ r2 = release
  OBVIOUS
<1>13. /\ r1 \o r2 \in Seq(Y)
       /\ \A x \in Node : Net(r1 \o r2, x) = One(old.to, {x}) - One(m, {x})
       /\ Occurs(Sources, r1 \o r2) = IF m \in Entries THEN 1 ELSE 0
       /\ m = NULL => Paired(r1 \o r2)
  <2> HIDE DEF Y
  <2> QED BY <1>6, <1>7, <1>11, <1>12, SwapNets
<1>14. PICK s : s = r1 \o r2
  OBVIOUS
<1>15. Then(t, s)
  BY <1>8, <1>12, <1>14
<1>16. /\ s \in Seq(Y) /\ Y \subseteq Counting
       /\ \A x \in Node : Net(s, x) = One(old.to, {x}) - One(m, {x})
       /\ Occurs(Sources, s) = IF m \in Entries THEN 1 ELSE 0
       /\ m = NULL => Paired(s)
  BY <1>13, <1>14
<1> HIDE DEF retain, release, new
<1>17. s \in Seq(Before(t)) /\ s \in Seq(Y)
  BY <1>16, CountingBefore
<1>18. /\ link'[f][e] = Ptr(m)
       /\ \A x \in Node : x # e => link'[f][x] = link[f][x]
       /\ \A g \in {"next", "prev"} : g # f => link'[g] = link[g]
       /\ \A x : Shifted(x, old.to, m)
  <2>1. PICK p \in Ptrs : p = Ptr(m)
    BY <1>6, PtrTypes
  <2>2. Relinked(f, e, p)
    BY <2>1, <1>8 DEF Relinked
  <2>3. p.to = m /\ link[f][e].to = old.to
    BY <2>1, <1>9, PtrTypes
  <2>4. /\ link'[f][e] = p
        /\ \A x \in Node : x # e => link'[f][x] = link[f][x]
        /\ \A g \in {"next", "prev"} : g # f => link'[g] = link[g]
        /\ \A x : Shifted(x, link[f][e].to, p.to)
    BY <2>2, <1>1, <1>9, Relinks
  <2> QED BY <2>1, <2>3, <2>4
<1>19. OrderInv' /\ DecidedInv' /\ Stutters /\ InUse' = InUse /\ linked' = linked
  <2>1. /\ linked \in Nat /\ linked <= made /\ made <= MaxPush /\ made \in Nat /\ First \in 1 .. linked + 1
        /\ \A n \in 1 .. made : n \in Entries /\ n \in Node
        /\ MaxPush \in Nat /\ tail = MaxPush + 1 /\ head = 0 /\ NULL = -1
    BY <1>1, FirstBounds
  <2>2. e # head /\ head \in Node
    BY <2>1, Sentinels DEF Entries
  <2>3. ASSUME f = "prev" PROVE link'["next"] = link["next"]
    BY <2>3, <1>18
  <2>4. link'["next"][head] = link["next"][head]
    BY <2>2, <2>3, <1>18
  <2>5. t = Producer \/ t = Consumer
    BY DEF Threads
  <2>6. \A n \in First .. linked : link'["next"][n] = link["next"][n]
    <3>1. \A n \in First .. linked : n \in Node /\ n # e
      BY <2>1, <2>5, <1>3
    <3> QED BY <2>3, <3>1, <1>18
  <2>7. \A n \in 1 .. First - 1 : link'["next"][n] \in {link["next"][n], Ptr(NULL)}
    <3>1. \A n \in 1 .. First - 1 : n \in Node
      BY <2>1
    <3>2. CASE t = Producer
      <4>1. \A n \in 1 .. First - 1 : n # e
        BY <2>1, <3>2, <1>3
      <4> QED BY <2>3, <3>1, <4>1, <1>18
    <3>3. CASE t = Consumer
      <4>1. m = NULL
        BY <3>3, <1>3, <1>6
      <4> QED BY <2>3, <3>1, <4>1, <1>18
    <3> QED BY <2>5, <3>2, <3>3
  <2> QED BY <1>1, <1>2, <1>4, <1>15, <1>17, <2>4, <2>6, <2>7, InnerStep
<1>20. CountsExplained'
  <2>1. ASSUME NEW x \in InUse
        PROVE  /\ (Links(x))' \in Int
               /\ count'[x] - (Links(x))' = count[x] - Links(x) + Net(s, x) - Weight(It(t), x)
    <3>1. x \in Node /\ count[x] \in Int /\ count'[x] = count[x]
      BY <1>1, <1>2, InUseNode
    <3>2. /\ Links(x) \in Nat
          /\ (Links(x))' = Links(x) - One(old.to, {x}) + One(m, {x})
      BY <1>18 DEF Shifted
    <3>4. Weight(It(t), x) = 0
      BY <1>2, NoWeight
    <3>5. Net(s, x) = One(old.to, {x}) - One(m, {x})
      BY <3>1, <1>16
    <3>6. One(old.to, {x}) \in Int /\ One(m, {x}) \in Int
      BY DEF One
    <3> DEFINE LL == (Links(x))'
    <3>7. LL = Links(x) - One(old.to, {x}) + One(m, {x})
      BY <3>2
    <3> HIDE DEF LL
    <3>8. LL \in Int /\ count'[x] - LL = count[x] - Links(x) + Net(s, x) - Weight(It(t), x)
      BY <3>1, <3>2, <3>4, <3>5, <3>6, <3>7
    <3> QED BY <3>8 DEF LL
  <2>2. Pays(t, s)
    BY <2>1 DEF Pays
  <2>3. count' \in [Node -> Int] /\ InUse' \subseteq InUse
    BY <1>1, <1>2, <1>19
  <2> QED BY <2>2, <2>3, <1>2, <1>15, <1>17, CountsKept
<1>21. NamedInv'
  <2>1. Named' = Named
    BY <1>19 DEF Named, tail, NULL
  <2>2. \A o \in Y : o \notin Unnamed'
    BY <2>1, Nameless
  <2>3. \A g \in {"next", "prev"}, n \in Node : link'[g][n].to \in Named'
    <3>1. Ptr(m).to \in Named
      BY <1>10, PtrTypes
    <3> QED BY <2>1, <3>1, <1>1, <1>18 DEF NamedInv
  <2> HIDE DEF Y
  <2> QED BY <2>1, <2>2, <2>3, <1>2, <1>15, <1>17, NamesKept
<1>22. BackedInv'
  <2>1. t = Producer => Occurs(Sources, s) <= One(It(t), Sources)
    <3> SUFFICES ASSUME t = Producer PROVE Occurs(Sources, s) <= One(It(t), Sources)
      OBVIOUS
    <3>1. CASE m \in Entries
      <4>1. f = "prev"
        BY <3>1, <1>3, <1>6, FirstBounds, <1>1 DEF Entries
      <4>2. It(t) \in Storing("prev", made, Node)
        BY <3>1, <4>1, <1>2, <1>3, <1>5 DEF Storing, Node
      <4> QED BY <4>2, <3>1, <1>16 DEF One, Sources
    <3>2. CASE m \notin Entries
      BY <3>2, <1>16 DEF One
    <3> QED BY <3>1, <3>2
  <2>2. t = Consumer => Paired(s)
    BY <1>3, <1>6, <1>16
  <2> QED BY <2>1, <2>2, <1>2, <1>15, <1>17, BackedKept
<1> QED BY <1>1, <1>2, <1>19, <1>20, <1>21, <1>22 DEF FifoInv

LEMMA FifoStores ==
  ASSUME FifoInv, NEW t \in Threads, StoreRead(t) \/ StoreSwap(t)
  PROVE  FifoInv' /\ Stutters
<1>1. LinkInv /\ LinkInv'
  BY StoreReads, StoreSwaps DEF FifoInv
<1>2. /\ todo[t] # <<>> /\ It(t).op \in {"store", "swap"}
      /\ UNCHANGED <<made, popping, last, count>>
  BY DEF StoreRead, StoreSwap, At, It, refs
<1>3. CASE StoreSwap(t) /\ link[It(t).f][It(t).n] = It(t).old
  BY <1>3, FifoSwaps
<1>4. CASE ~(StoreSwap(t) /\ link[It(t).f][It(t).n] = It(t).old)
  <2>1. PICK f \in {"next", "prev"}, e \in Entries, M \in SUBSET (Node \cup {NULL}) :
          Storing(f, e, M) \subseteq Before(t) /\ It(t) \in Storing(f, e, M)
    BY <1>2, StoreOwn
  <2>2. It(t).f = f /\ It(t).n = e /\ It(t).m \in M
    BY <2>1 DEF Storing
  <2>3. link[f][e] \in Ptrs
    BY <1>1 DEF LinkInv, Node
  <2>4. PICK s \in Storing(f, e, M) : s.m = It(t).m /\ Then(t, <<s>>) /\ link' = link
    <3>1. CASE StoreRead(t)
      <4>1. PICK s : s = [op |-> "swap", f |-> It(t).f, n |-> It(t).n, m |-> It(t).m, old |-> link[f][e]]
        OBVIOUS
      <4>2. s \in Storing(f, e, M) /\ s.m = It(t).m
        BY <2>2, <2>3, <4>1 DEF Storing
      <4>3. Then(t, <<s>>) /\ link' = link
        BY <2>2, <3>1, <4>1 DEF StoreRead
      <4> QED BY <4>2, <4>3
    <3>2. CASE ~StoreRead(t)
      <4>1. PICK s : s = Store(It(t).f, It(t).n, It(t).m)
        OBVIOUS
      <4>2. s \in Storing(f, e, M) /\ s.m = It(t).m
        BY <2>2, <4>1 DEF Storing, Store
      <4>3. Then(t, <<s>>) /\ link' = link
        BY <3>2, <4>1, <1>4 DEF StoreSwap
      <4> QED BY <4>2, <4>3
    <3> QED BY <3>1, <3>2
  <2>5. UNCHANGED <<link, made, popping, last, count>>
    BY <1>2, <2>4
  <2> QED BY <1>1, <1>2, <2>1, <2>4, <2>5, StoreGoesOn
<1> QED BY <1>3, <1>4

\* q->length is of no consequence.
LEMMA FifoShrinks == ASSUME FifoInv, PopShrink PROVE FifoInv' /\ Stutters
<1>1. LinkInv /\ LinkInv' /\ count \in [Node -> Int] /\ NamedInv
  BY PopShrinks DEF FifoInv
<1>2. /\ todo[Consumer] # <<>> /\ It(Consumer).op = "shrink"
      /\ UNCHANGED <<link, made, popping, last, count>> /\ Then(Consumer, <<>>)
  BY DEF PopShrink, At, It, refs
<1>3. Consumer \in Threads /\ <<>> \in Seq(Before(Consumer)) /\ <<>> \in Seq({})
  BY DEF Threads
<1>4. It(Consumer) # Aim(Consumer)
  BY <1>1, <1>2, AimOps DEF Looks
<1>5. OrderInv' /\ DecidedInv' /\ Stutters /\ InUse' = InUse /\ linked' = linked
  BY <1>1, <1>2, <1>3, <1>4, InnerStep
<1>6. CountsExplained'
  <2>1. ASSUME NEW x \in InUse
        PROVE  /\ (Links(x))' \in Int
               /\ count'[x] - (Links(x))' = count[x] - Links(x) + Net(<<>>, x) - Weight(It(Consumer), x)
    <3>1. (Links(x))' = Links(x) /\ Links(x) \in Nat
      BY <1>2, LinksSame
    <3>2. count[x] \in Int /\ count' = count
      BY <1>1, <1>2, InUseNode
    <3>3. Net(<<>>, x) = 0 /\ Weight(It(Consumer), x) = 0
      BY <1>2, Nets, NoWeight
    <3> QED BY <3>1, <3>2, <3>3
  <2>2. Pays(Consumer, <<>>)
    BY <2>1 DEF Pays
  <2>3. count' \in [Node -> Int] /\ InUse' \subseteq InUse
    BY <1>1, <1>2, <1>5
  <2> QED BY <2>2, <2>3, <1>2, <1>3, CountsKept
<1>7. NamedInv'
  <2>1. Named' = Named
    BY <1>5 DEF Named, tail, NULL
  <2>2. \A g \in {"next", "prev"}, n \in Node : link'[g][n].to \in Named'
    BY <2>1, <1>1, <1>2 DEF NamedInv
  <2> DEFINE Y == {}
             new == <<>>
  <2>3. /\ Named \subseteq Named' /\ new \in Seq(Y) /\ Then(Consumer, new)
        /\ \A o \in Y : o \notin Unnamed'
    BY <2>1, <1>2
  <2> HIDE DEF Y, new
  <2> QED BY <2>2, <2>3, <1>2, <1>3, NamesKept
<1>8. BackedInv'
  <2>1. Paired(<<>>) /\ Consumer # Producer
    BY DEF Paired, Consumer, Producer
  <2> QED BY <2>1, <1>2, <1>3, BackedKept
<1> QED BY <1>1, <1>2, <1>5, <1>6, <1>7, <1>8 DEF FifoInv

-----------------------------------------------------------------------------
(* Steps of the call itself: the only instruction of the thread is its aim.   *)

\* What a step puts in the place of the aim names nobody else; no link leads to anybody else.
Harmless(Y) == \A o \in Y : o \notin Unnamed'
Reached == \A f \in {"next", "prev"}, n \in Node : link'[f][n].to \in Named'

\* What the counts lose and win with a link that turns from one node to another.
Covers(t, new, from, to) ==
  \A e \in InUse : e \in InUse' => Net(new, e) = Weight(It(t), e) + One(from, {e}) - One(to, {e})

LEMMA Paying ==
  ASSUME FifoInv, count' = count, NEW t \in Threads, NEW new, NEW from, NEW to, Covers(t, new, from, to),
         \/ \A e : Shifted(e, from, to)
         \/ link' = link /\ from = to
  PROVE  Pays(t, new)
<1> SUFFICES ASSUME NEW e \in InUse, e \in InUse'
             PROVE  /\ (Links(e))' \in Int
                    /\ count'[e] - (Links(e))' = count[e] - Links(e) + Net(new, e) - Weight(It(t), e)
  BY DEF Pays
<1>1. LinkInv /\ count \in [Node -> Int]
  BY DEF FifoInv
<1>2. e \in Node
  BY <1>1, InUseNode
<1>3. count[e] \in Int /\ count'[e] = count[e]
  BY <1>1, <1>2
<1>4. One(from, {e}) \in Int /\ One(to, {e}) \in Int /\ Weight(It(t), e) \in Int
  BY DEF One, Weight
<1>5. Net(new, e) = Weight(It(t), e) + One(from, {e}) - One(to, {e})
  BY DEF Covers
<1> DEFINE LL == (Links(e))'
<1>6. Links(e) \in Nat /\ LL = Links(e) - One(from, {e}) + One(to, {e})
  <2>1. CASE \A x : Shifted(x, from, to)
    BY <2>1 DEF Shifted
  <2>2. CASE link' = link /\ from = to
    <3>1. LL = Links(e) /\ Links(e) \in Nat
      BY <2>2, LinksSame
    <3> QED BY <2>2, <3>1, <1>4
  <2> QED BY <2>1, <2>2
<1> HIDE DEF LL
<1>7. LL \in Int /\ count'[e] - LL = count[e] - Links(e) + Net(new, e) - Weight(It(t), e)
  BY <1>3, <1>4, <1>5, <1>6
<1> QED BY <1>7 DEF LL

\* The reference that a deref_link counts is what the caller keeps.
LEMMA Claiming ==
  ASSUME FifoInv, NEW t \in Threads, NEW new, NEW n \in Node,
         count' = [count EXCEPT ![n] = @ + 1], link' = link,
         \A e \in InUse : Net(new, e) = One(n, {e}) /\ Weight(It(t), e) = 0
  PROVE  Pays(t, new) /\ count' \in [Node -> Int]
<1>1. LinkInv /\ count \in [Node -> Int]
  BY DEF FifoInv
<1>2. count' \in [Node -> Int] /\ \A x \in Node : count'[x] = count[x] + One(n, {x})
  BY <1>1 DEF One
<1>3. ASSUME NEW e \in InUse
      PROVE  /\ (Links(e))' \in Int
             /\ count'[e] - (Links(e))' = count[e] - Links(e) + Net(new, e) - Weight(It(t), e)
  <2>1. e \in Node
    BY <1>1, InUseNode
  <2>2. count[e] \in Int /\ count'[e] = count[e] + One(n, {e}) /\ One(n, {e}) \in Int
    BY <1>1, <1>2, <2>1 DEF One
  <2>3. Net(new, e) = One(n, {e}) /\ Weight(It(t), e) = 0
    OBVIOUS
  <2> DEFINE LL == (Links(e))'
  <2>4. LL = Links(e) /\ Links(e) \in Nat
    BY LinksSame
  <2> HIDE DEF LL
  <2>5. LL \in Int /\ count'[e] - LL = count[e] - Links(e) + Net(new, e) - Weight(It(t), e)
    BY <2>2, <2>3, <2>4
  <2> QED BY <2>5 DEF LL
<1> QED BY <1>2, <1>3 DEF Pays

LEMMA AimDone ==
  ASSUME FifoInv, LinkInv', OrderInv', DecidedInv',
         NEW t \in Threads, todo[t] # <<>>, It(t) \notin Before(t),
         NEW Y, NEW new \in Seq(Y), Then(t, new), made' = made, linked <= linked',
         count' \in [Node -> Int], InUse' \subseteq InUse, Pays(t, new), Harmless(Y), Reached,
         t = Producer => Occurs(Sources, new) <= 1,
         t = Consumer => Paired(new)
  PROVE  FifoInv'
<1>1. LinkInv
  BY DEF FifoInv
<1>2. Tail(todo[t]) = <<>>
  BY <1>1, HeadCases
<1>3. CountsExplained'
  BY CountsKept
<1>4. NamedInv'
  <2>1. linked \in Nat /\ linked' \in Int
    BY <1>1, FirstBounds DEF linked, LinkInv
  <2>2. Named \subseteq Named'
    BY <2>1 DEF Named, tail, NULL
  <2>3. \A o \in Y : o \notin Unnamed'
    BY DEF Harmless
  <2>4. \A f \in {"next", "prev"}, n \in Node : link'[f][n].to \in Named'
    BY DEF Reached
  <2> QED BY <2>2, <2>3, <2>4, NamesKept
<1>5. BackedInv'
  BY <1>2, BackedKept
<1> QED BY <1>3, <1>4, <1>5 DEF FifoInv

-----------------------------------------------------------------------------
(* queue_push_right *)

\* A step of push that leaves the next links alone.
LEMMA PushSettles ==
  ASSUME FifoInv, LinkInv', todo'[Consumer] = todo[Consumer], UNCHANGED <<made, popping, last>>,
         Unlinked' = Unlinked, link'["next"] = link["next"]
  PROVE  /\ OrderInv' /\ DecidedInv' /\ linked' = linked /\ Oldest' = Oldest /\ InUse' = InUse
         /\ (todo'[Producer] = <<>>) = (todo[Producer] = <<>>) => Stutters
<1>1. LinkInv /\ OrderInv /\ DecidedInv
  BY DEF FifoInv
<1>2. PICK a : a = Aim(Consumer)
  OBVIOUS
<1>3. Aim(Consumer)' = a /\ Decides(a) = popping' /\ (a.op = "return" => a.n < First)
  BY <1>1, <1>2, ConsumerStays DEF DecidedInv, OrderInv
<1>4. linked' = linked /\ made' = made /\ made <= made'
  BY <1>1 DEF linked, LinkInv
<1>5. /\ link'["next"][head] = link["next"][head]
      /\ \A n \in First .. linked : link'["next"][n] = link["next"][n]
      /\ \A n \in 1 .. First - 1 : link'["next"][n] \in {link["next"][n], Ptr(NULL)}
      /\ \A e \in Entries : Marked(Aim(Consumer), e) => Marked(a, e)
  BY <1>2
<1>6. OrderInv' /\ DecidedInv' /\ Oldest' = Oldest /\ InUse' = InUse
  BY <1>3, <1>4, <1>5, ListSettled
<1> QED BY <1>4, <1>6 DEF Stutters

LEMMA NamesReached ==
  ASSUME FifoInv, LinkInv', link' = link, linked <= linked'
  PROVE  Reached
<1>1. linked \in Nat /\ linked' \in Int
  <2>1. linked \in Nat
    BY FirstBounds DEF FifoInv
  <2> QED BY <2>1 DEF linked, LinkInv
<1>2. Named \subseteq Named'
  BY <1>1 DEF Named, tail, NULL
<1> QED BY <1>2 DEF Reached, FifoInv, NamedInv

LEMMA PushMovesOn ==
  ASSUME FifoInv, LinkInv', todo[Producer] # <<>>, It(Producer) \notin Before(Producer),
         It(Producer).op \in {"deref"} \cup Looks, It(Producer).as = "push",
         NEW a, a.op \in {"deref"} \cup Looks, a.as = "push", Then(Producer, <<a>>),
         UNCHANGED <<link, made, popping, last, count>>
  PROVE  FifoInv' /\ Stutters
<1>1. LinkInv /\ Producer \in Threads /\ count \in [Node -> Int] /\ Producer # Consumer /\ Consumer \in Threads
  BY DEF FifoInv, Threads, Producer, Consumer
<1>2. PICK new, Y : new = <<a>> /\ Y = {a}
  OBVIOUS
<1>3. new \in Seq(Y) /\ Then(Producer, new)
  BY <1>2
<1>4. It(Producer) = Aim(Producer) /\ todo'[Producer] = new /\ todo'[Consumer] = todo[Consumer]
  BY <1>1, <1>3, LastDone
<1>5. Toward(todo'[Producer], {}, a)
  BY <1>2, <1>4, TowardTuples
<1>6. Aim(Producer)' = a /\ todo'[Producer] # <<>>
  BY <1>1, <1>5, NewAim
<1>7. Unlinked /\ Unlinked'
  BY <1>4, <1>6 DEF Unlinked, Looks
<1>8. OrderInv' /\ DecidedInv' /\ linked' = linked /\ InUse' = InUse /\ Stutters
  BY <1>4, <1>6, <1>7, PushSettles
<1>9. Pays(Producer, new)
  <2>1. ASSUME NEW e \in InUse
        PROVE  Net(new, e) = Weight(It(Producer), e) + One(NULL, {e}) - One(NULL, {e})
    <3>1. Net(new, e) = Weight(a, e)
      BY <1>2, Nets
    <3>2. Weight(a, e) = 0 /\ Weight(It(Producer), e) = 0
      BY NoWeight
    <3>3. One(NULL, {e}) \in Int
      BY DEF One
    <3> QED BY <3>1, <3>2, <3>3
  <2>2. Covers(Producer, new, NULL, NULL)
    BY <2>1 DEF Covers
  <2> QED BY <2>2, <1>1, Paying
<1>10. Harmless(Y)
  BY <1>2, Nameless DEF Harmless
<1>11. Occurs(Sources, new) <= 1
  <2>1. Occurs(Sources, <<a>>) = One(a, Sources)
    BY OccursOne
  <2> QED BY <1>2, <2>1 DEF One
<1>12. linked <= linked' /\ Reached
  <2>1. linked \in Nat
    BY <1>1, FirstBounds
  <2>2. linked <= linked'
    BY <2>1, <1>8
  <2> QED BY <2>2, NamesReached
<1>13. count' \in [Node -> Int] /\ InUse' \subseteq InUse /\ made' = made
  BY <1>1, <1>8
<1>14. FifoInv'
  BY <1>1, <1>3, <1>8, <1>9, <1>10, <1>11, <1>12, <1>13, AimDone
<1> QED BY <1>8, <1>14

LEMMA PushKeeps ==
  ASSUME FifoInv, LinkInv', todo[Producer] # <<>>, It(Producer) \notin Before(Producer),
         NEW Y, NEW new \in Seq(Y), Then(Producer, new), UNCHANGED <<made, popping, last>>,
         Unlinked' = Unlinked, link'["next"] = link["next"], count' \in [Node -> Int],
         Pays(Producer, new), Harmless(Y), Reached, Occurs(Sources, new) <= 1
  PROVE  /\ FifoInv' /\ linked' = linked /\ Oldest' = Oldest
         /\ (todo'[Producer] = <<>>) = (todo[Producer] = <<>>) => Stutters
<1>1. LinkInv /\ Producer \in Threads /\ Producer # Consumer /\ Consumer \in Threads
  BY DEF FifoInv, Threads, Producer, Consumer
<1>2. todo'[Consumer] = todo[Consumer]
  BY <1>1, LastDone
<1>3. /\ OrderInv' /\ DecidedInv' /\ linked' = linked /\ Oldest' = Oldest /\ InUse' = InUse
      /\ (todo'[Producer] = <<>>) = (todo[Producer] = <<>>) => Stutters
  BY <1>2, PushSettles
<1>4. linked <= linked' /\ InUse' \subseteq InUse /\ made' = made
  <2>1. linked \in Nat
    BY <1>1, FirstBounds
  <2> QED BY <2>1, <1>3
<1>5. FifoInv'
  BY <1>1, <1>3, <1>4, AimDone
<1> QED BY <1>3, <1>5

\* tail->prev is read again, and then the node it leads to is counted.
LEMMA FifoPushDerefs ==
  ASSUME FifoInv, \/ DerefLink(Producer) \/ DerefDelete(Producer)
                  \/ DerefCount(Producer) \/ DerefClaim(Producer),
         It(Producer).as = "push"
  PROVE  FifoInv' /\ Stutters
<1> DEFINE i == It(Producer)
<1>1. /\ todo[Producer] # <<>> /\ i.op \in {"deref"} \cup Looks /\ UNCHANGED <<link, made, last>>
      /\ popping' = popping
  BY DEF DerefLink, DerefDelete, DerefCount, DerefClaim, At, It, Looks
<1>2. i \notin Before(Producer)
  BY <1>1, BeforeOps, CountingOps DEF Looks, Threads, Producer, Consumer
<1>3. LinkInv /\ LinkInv' /\ Producer \in Threads /\ Consumer \in Threads /\ Producer # Consumer
  BY PushDerefs DEF FifoInv, Threads, Producer, Consumer
<1>4. i = Aim(Producer) /\ i \in PushAims
  BY <1>1, <1>2, <1>3, PushHead
<1>5. Unlinked
  BY <1>1, <1>4 DEF Unlinked, Looks
<1>6. i = Deref("prev", tail, "push", made) \/ i \in [op : Looks, n : 0 .. linked, as : {"push"}, m : {made}]
  BY <1>1, <1>4 DEF PushAims, Op, Looks
<1>7. i.m = made
  BY <1>6 DEF Deref
<1>8. linked \in Nat /\ linked = made - 1 /\ 0 .. linked \subseteq Node /\ made \in Node /\ NULL \notin 0 .. linked
  BY <1>3, <1>5, Bounds, FirstBounds DEF NULL, Node
<1>9. CASE ~DerefClaim(Producer)
  <2>1. count' = count
    BY <1>9 DEF DerefLink, DerefDelete, DerefCount, refs
  <2>2. PICK a : Then(Producer, <<a>>) /\ a.op \in {"deref"} \cup Looks /\ a.as = "push"
    <3>1. CASE DerefLink(Producer)
      <4>1. i = Deref("prev", tail, "push", made)
        BY <1>6, <3>1, ZenonT(60) DEF DerefLink, At, It, Looks
      <4>2. PICK x \in 0 .. linked : link["prev"][tail] = Ptr(x)
        BY <1>3 DEF LinkInv, ChainInv
      <4>3. Then(Producer, <<Look(x, "push", made)>>)
        BY <1>8, <3>1, <4>1, <4>2 DEF DerefLink, Ptr, Deref
      <4>4. Look(x, "push", made).op \in Looks /\ Look(x, "push", made).as = "push"
        BY DEF Look, Looks
      <4> QED BY <4>3, <4>4
    <3>2. CASE DerefDelete(Producer)
      <4>1. PICK o \in Looks : Then(Producer, <<[i EXCEPT !.op = o]>>)
        BY <3>2 DEF DerefDelete, Looks
      <4>2. i \in [op : Looks, n : 0 .. linked, as : {"push"}, m : {made}]
        BY <1>6, <3>2 DEF DerefDelete, At, It, Deref, Looks
      <4>3. [i EXCEPT !.op = o].op \in Looks /\ [i EXCEPT !.op = o].as = "push"
        BY <4>1, <4>2
      <4> QED BY <4>1, <4>3
    <3>3. CASE DerefCount(Producer)
      <4>1. Failed("push", made) = <<Deref("prev", tail, "push", made)>>
        BY DEF Failed, PushLoop
      <4>2. \/ Then(Producer, <<Deref("prev", tail, "push", made)>>)
            \/ Then(Producer, <<[i EXCEPT !.op = "claim"]>>)
        BY <1>7, <3>3, <4>1 DEF DerefCount
      <4>3. Deref("prev", tail, "push", made).op = "deref" /\ Deref("prev", tail, "push", made).as = "push"
        BY DEF Deref
      <4>4. i \in [op : Looks, n : 0 .. linked, as : {"push"}, m : {made}]
        BY <1>6, <3>3 DEF DerefCount, At, It, Deref, Looks
      <4>5. [i EXCEPT !.op = "claim"].op \in Looks /\ [i EXCEPT !.op = "claim"].as = "push"
        BY <4>4 DEF Looks
      <4> QED BY <4>2, <4>3, <4>5
    <3> QED BY <1>9, <3>1, <3>2, <3>3, SMTT(40)
  <2> QED BY <1>1, <1>2, <1>3, <2>1, <2>2, PushMovesOn
<1>10. CASE DerefClaim(Producer)
  <2>1. i \in [op : Looks, n : 0 .. linked, as : {"push"}, m : {made}]
    BY <1>6, <1>10 DEF DerefClaim, At, It, Deref, Looks
  <2>2. PICK n \in 0 .. linked : n = i.n
    BY <2>1
  <2>3. PICK s1, s2, g : s1 = Store("next", made, tail) /\ s2 = Store("prev", made, n) /\ g = Op("link", made, n)
    OBVIOUS
  <2>4. n \in Node /\ made \in Node
    BY <1>8
  <2>5. Then(Producer, <<s1, s2, g>>)
    BY <1>7, <1>10, <2>2, <2>3 DEF DerefClaim, Acquired, PushTry
  <2>6. s1.op = "store" /\ s2.op = "store" /\ g.op = "link" /\ s1.m = tail /\ s2.m = n /\ s1.f = "next"
    BY <2>3 DEF Store, Op
  <2>7. PICK new, Y : new = <<s1, s2, g>> /\ Y = {s1, s2, g}
    OBVIOUS
  <2>8. new \in Seq(Y) /\ Then(Producer, new)
    BY <2>5, <2>7
  <2>9. todo'[Producer] = new
    BY <1>1, <1>2, <1>3, <2>8, LastDone
  <2>10. Aim(Producer)' = g /\ todo'[Producer] # <<>>
    <3>1. Toward(todo'[Producer], {s1, s2}, g)
      BY <2>7, <2>9, TowardTuples
    <3> QED BY <3>1, <1>3, NewAim
  <2>11. Unlinked'
    BY <2>6, <2>10 DEF Unlinked
  <2>12. linked' = linked
    BY <1>1, <1>5, <2>11 DEF linked
  <2>13. Pays(Producer, new) /\ count' \in [Node -> Int]
    <3>1. ASSUME NEW e \in InUse PROVE Net(new, e) = One(n, {e}) /\ Weight(i, e) = 0
      <4>1. e \in Node
        BY <1>3, InUseNode
      <4>2. Weight(g, e) = One(n, {e})
        BY <2>3, <2>4, <4>1, Weights
      <4>3. Weight(s1, e) = 0 /\ Weight(s2, e) = 0
        BY <2>6, NoWeight
      <4>4. Weight(i, e) = 0
        BY <2>1, NoWeight
      <4>5. Net(<<s1, s2, g>>, e) = Weight(s1, e) + Weight(s2, e) + Weight(g, e)
        BY Nets
      <4>6. One(n, {e}) \in Int
        BY DEF One
      <4> QED BY <2>7, <4>2, <4>3, <4>4, <4>5, <4>6
    <3>2. count' = [count EXCEPT ![n] = @ + 1]
      BY <1>10, <2>2 DEF DerefClaim
    <3> QED BY <1>1, <1>3, <2>4, <3>1, <3>2, Claiming
  <2>14. Harmless(Y)
    <3>1. n \in Named' /\ tail \in Named'
      BY <2>12 DEF Named
    <3>2. s1 \notin Unnamed' /\ s2 \notin Unnamed' /\ g \notin Unnamed'
      BY <3>1, <2>6, Nameless
    <3> QED BY <2>7, <3>2 DEF Harmless
  <2>15. Occurs(Sources, new) <= 1
    <3>1. s1 \notin Sources /\ g \notin Sources
      BY <2>6 DEF Sources, Storing, Looks
    <3>2. Occurs(Sources, <<s1, s2, g>>) = One(s1, Sources) + One(s2, Sources) + One(g, Sources)
      BY OccursTuples
    <3> QED BY <2>7, <3>1, <3>2 DEF One
  <2>16. Reached
    <3>1. linked <= linked'
      BY <1>8, <2>12
    <3> QED BY <1>1, <1>3, <3>1, NamesReached
  <2>17. Unlinked' = Unlinked /\ link'["next"] = link["next"] /\ UNCHANGED <<made, popping, last>>
    BY <1>1, <1>5, <2>11
  <2> QED BY <1>1, <1>2, <1>3, <2>8, <2>10, <2>13, <2>14, <2>15, <2>16, <2>17, PushKeeps
<1> QED BY <1>9, <1>10, SMTT(40)

LEMMA LinkAim ==
  ASSUME LinkInv, PushLink
  PROVE  \E prev \in 0 .. made - 1 :
           /\ It(Producer) = Op("link", made, prev) /\ prev \in Node
           /\ link["next"][made] = Ptr(tail)
           /\ Cas("next", prev, Ptr(tail), Ptr(made))
           /\ Then(Producer, IF link["next"][prev] = Ptr(tail) THEN PushLinked(made, prev)
                                                               ELSE PushAgain(made, prev))
<1> DEFINE i == It(Producer)
<1>1. todo[Producer] # <<>> /\ i.op = "link" /\ Producer \in Threads
  BY DEF PushLink, At, It, Threads
<1>2. i \notin Before(Producer)
  BY <1>1, BeforeOps, CountingOps DEF Looks, Producer, Consumer
<1>3. i = Aim(Producer) /\ todo[Producer] = <<i>> /\ i \in PushAims /\ made >= 1
  BY <1>1, <1>2, PushHead
<1>4. PICK prev \in 0 .. made - 1 : i = Op("link", made, prev)
  BY <1>1, <1>3 DEF PushAims, Deref, Op, Looks
<1>5. prev \in Node
  BY <1>4, Bounds
<1>6. link["next"][made] = Ptr(tail)
  <2>1. ~StoresNext(todo[Producer])
    <3> HIDE DEF i
    <3>1. Len(<<i>>) = 1 /\ <<i>>[1] = i
      OBVIOUS
    <3> QED BY <1>1, <1>3, <3>1 DEF StoresNext
  <2> QED BY <1>1, <1>3, <2>1 DEF LinkInv, PushInv
<1>7. i.n = made /\ i.m = prev
  BY <1>4 DEF Op
<1>8. /\ Cas("next", prev, Ptr(tail), Ptr(made))
      /\ Then(Producer, IF link["next"][prev] = Ptr(tail) THEN PushLinked(made, prev)
                                                          ELSE PushAgain(made, prev))
  BY <1>6, <1>7, PtrTypes, Sentinels DEF PushLink
<1> QED BY <1>4, <1>5, <1>6, <1>8

\* The CAS at prev->next fails: all is given back, and tail->prev read again.
LEMMA FifoPushAgain ==
  ASSUME FifoInv, PushLink, link' = link, NEW prev \in 0 .. made - 1, prev \in Node,
         It(Producer) = Op("link", made, prev), Then(Producer, PushAgain(made, prev))
  PROVE  FifoInv' /\ Stutters
<1> DEFINE i == It(Producer)
<1>1. /\ todo[Producer] # <<>> /\ i.op = "link" /\ UNCHANGED <<made, popping, last, count>>
      /\ Producer \in Threads /\ Producer # Consumer /\ Consumer \in Threads
  BY DEF PushLink, At, It, Threads, Producer, Consumer, refs
<1>2. LinkInv /\ LinkInv' /\ count \in [Node -> Int]
  BY PushLinkStep DEF FifoInv
<1>3. i \notin Before(Producer)
  BY <1>1, BeforeOps, CountingOps DEF Looks, Producer, Consumer
<1>4. i = Aim(Producer)
  BY <1>1, <1>2, <1>3, PushHead
<1>5. Unlinked
  BY <1>1, <1>4 DEF Unlinked
<1>6. PICK r, s1, s2, g : /\ r = Release(prev) /\ s1 = Store("next", made, NULL) /\ s2 = Store("prev", made, NULL)
                          /\ g = Deref("prev", tail, "push", made)
  OBVIOUS
<1>7. Then(Producer, <<r, s1, s2, g>>)
  <2>1. PushAgain(made, prev) = <<r, s1, s2>> \o <<g>>
    BY <1>6 DEF PushAgain, PushLoop
  <2>2. <<r, s1, s2, g>> = Append(<<r, s1, s2>>, g)
    <3> DEFINE S == {r, s1, s2}
    <3>1. r \in S /\ s1 \in S /\ s2 \in S
      OBVIOUS
    <3> HIDE DEF S
    <3> QED BY <3>1, AppendedTuple
  <2>3. Append(<<r, s1, s2>>, g) = <<r, s1, s2>> \o <<g>>
    <3>1. <<r, s1, s2>> \in Seq({r, s1, s2, g}) /\ g \in {r, s1, s2, g}
      OBVIOUS
    <3> QED BY <3>1, AppendIsConcat
  <2> QED BY <2>1, <2>2, <2>3
<1>8. PICK new, Y : new = <<r, s1, s2, g>> /\ Y = {r, s1, s2, g}
  OBVIOUS
<1>9. new \in Seq(Y) /\ Then(Producer, new)
  BY <1>7, <1>8
<1>10. /\ s1.op = "store" /\ s2.op = "store" /\ s1.m = NULL /\ s2.m = NULL /\ s1.f = "next"
       /\ g.op = "deref" /\ r.op = "release" /\ r.n = prev /\ r \in Counting
  BY <1>6, CountingType DEF Store, Deref, Release, Op
<1>11. Aim(Producer)' = g /\ todo'[Producer] # <<>>
  <2>1. todo'[Producer] = new
    BY <1>1, <1>2, <1>3, <1>9, LastDone
  <2>2. Toward(todo'[Producer], {r, s1, s2}, g)
    BY <1>8, <2>1, TowardTuples
  <2> QED BY <2>2, <1>1, NewAim
<1>12. Unlinked' /\ linked' = linked /\ linked \in Nat /\ linked = made - 1
  BY <1>1, <1>2, <1>5, <1>10, <1>11, FirstBounds DEF Unlinked, linked
<1>13. Pays(Producer, new)
  <2>1. ASSUME NEW e \in InUse
        PROVE  Net(new, e) = Weight(i, e) + One(NULL, {e}) - One(NULL, {e})
    <3>1. Net(<<r, s1, s2, g>>, e) = Weight(r, e) + Weight(s1, e) + Weight(s2, e) + Weight(g, e)
      BY Nets
    <3>2. Weight(s1, e) = 0 /\ Weight(s2, e) = 0 /\ Weight(g, e) = 0
      BY <1>10, NoWeight
    <3>3. One(NULL, {e}) \in Int /\ One(prev, {e}) \in Int
      BY DEF One
    <3>4. e \in Node /\ made \in Node
      BY <1>2, InUseNode, Bounds
    <3>5. Weight(Release(prev), e) = One(prev, {e}) /\ Weight(Op("link", made, prev), e) = One(prev, {e})
      BY <3>4, Weights
    <3>6. Weight(r, e) = One(prev, {e}) /\ Weight(i, e) = One(prev, {e})
      BY <1>6, <3>5
    <3> QED BY <1>8, <3>1, <3>2, <3>3, <3>6
  <2>2. Covers(Producer, new, NULL, NULL)
    BY <2>1 DEF Covers
  <2> QED BY <2>2, <1>1, Paying
<1>14. Harmless(Y)
  <2>1. prev \in Named' /\ NULL \in Named'
    BY <1>12 DEF Named
  <2>2. r \notin Unnamed' /\ s1 \notin Unnamed' /\ s2 \notin Unnamed' /\ g \notin Unnamed'
    BY <2>1, <1>10, Nameless
  <2> QED BY <1>8, <2>2 DEF Harmless
<1>15. Occurs(Sources, new) <= 1
  <2>1. NULL \notin Node
    BY Sentinels
  <2>2. s1 \notin Sources /\ s2 \notin Sources /\ g \notin Sources /\ r \notin Sources
    BY <2>1, <1>10 DEF Sources, Storing, Looks
  <2>3. Occurs(Sources, <<r, s1, s2, g>>)
          = One(r, Sources) + One(s1, Sources) + One(s2, Sources) + One(g, Sources)
    BY OccursTuples
  <2> QED BY <1>8, <2>2, <2>3 DEF One
<1>16. Reached
  <2>1. linked <= linked'
    BY <1>12
  <2> QED BY <1>2, <2>1, NamesReached
<1>17. /\ Unlinked' = Unlinked /\ link'["next"] = link["next"] /\ UNCHANGED <<made, popping, last>>
       /\ count' \in [Node -> Int]
  BY <1>1, <1>2, <1>5, <1>12
<1> QED BY <1>1, <1>2, <1>3, <1>9, <1>11, <1>13, <1>14, <1>15, <1>16, <1>17, PushKeeps

\* tail->prev leads to the new entry: a reference of prev less, one of the entry more.
LEMMA FifoPushBack == ASSUME FifoInv, PushBack PROVE FifoInv' /\ Stutters
<1> DEFINE i == It(Producer)
<1>1. /\ todo[Producer] # <<>> /\ i.op = "back" /\ UNCHANGED <<made, popping, last, count>>
      /\ Producer \in Threads /\ Producer # Consumer /\ Consumer \in Threads
  BY DEF PushBack, At, It, Threads, Producer, Consumer, refs
<1>2. LinkInv /\ LinkInv' /\ count \in [Node -> Int]
  BY PushBackStep DEF FifoInv
<1>3. i \notin Before(Producer)
  BY <1>1, BeforeOps, CountingOps DEF Looks, Producer, Consumer
<1>4. i = Aim(Producer) /\ i \in PushAims /\ made >= 1
  BY <1>1, <1>2, <1>3, PushHead
<1>5. ~Unlinked /\ Linking
  BY <1>1, <1>4 DEF Unlinked, Linking, Looks
<1>6. PICK prev \in 0 .. made - 1 : i = Op("back", made, prev)
  BY <1>1, <1>4 DEF PushAims, Deref, Op, Looks
<1>7. prev \in Node /\ made \in Node /\ i.n = made /\ i.m = prev
  BY <1>2, <1>4, <1>6, Bounds DEF Op
<1>8. link["prev"][tail] = Ptr(prev)
  BY <1>1, <1>2, <1>4, <1>5, <1>7 DEF LinkInv, PushInv
<1>9. PICK r, k, r2, g : r = Release(prev) /\ r2 = r /\ k = Retain(made) /\ g = Op("grow", made, made)
  OBVIOUS
<1>10. Then(Producer, <<r, k, r2, g>>) /\ link' = [link EXCEPT !["prev"][tail] = Ptr(made)]
  BY <1>7, <1>8, <1>9 DEF PushBack, Cas, PushEnd
<1>11. PICK new, Y : new = <<r, k, r2, g>> /\ Y = {r, k, r2, g}
  OBVIOUS
<1>12. new \in Seq(Y) /\ Then(Producer, new)
  BY <1>10, <1>11
<1>13. /\ g.op = "grow" /\ r.op = "release" /\ r.n = prev /\ r \in Counting /\ k \in Counting /\ k.n = made
       /\ k.op = "look"
  BY <1>7, <1>9, CountingType DEF Retain, Look, Release, Op
<1>14. Aim(Producer)' = g /\ todo'[Producer] # <<>>
  <2>1. todo'[Producer] = new
    BY <1>1, <1>2, <1>3, <1>12, LastDone
  <2>2. Toward(todo'[Producer], {r, k}, g)
    BY <1>9, <1>11, <2>1, TowardTuples, ZenonT(60)
  <2> QED BY <2>2, <1>1, NewAim
<1>15. ~Unlinked' /\ linked' = made /\ linked = made /\ made \in Nat
  BY <1>1, <1>2, <1>5, <1>13, <1>14, Bounds DEF Unlinked, linked, Looks
<1>16. /\ link'["prev"][tail] = Ptr(made) /\ link'["next"] = link["next"]
       /\ \A x \in Node : x # tail => link'["prev"][x] = link["prev"][x]
       /\ \A e : Shifted(e, prev, made)
  <2>1. PICK p \in Ptrs : p = Ptr(made)
    BY <1>7, PtrTypes
  <2>2. Relinked("prev", tail, p)
    BY <2>1, <1>10 DEF Relinked
  <2>3. p.to = made /\ link["prev"][tail].to = prev
    BY <2>1, <1>8, PtrTypes
  <2>4. /\ link'["prev"][tail] = p
        /\ \A x \in Node : x # tail => link'["prev"][x] = link["prev"][x]
        /\ \A g1 \in {"next", "prev"} : g1 # "prev" => link'[g1] = link[g1]
        /\ \A e : Shifted(e, link["prev"][tail].to, p.to)
    BY <2>2, <1>2, Relinks, Sentinels
  <2> QED BY <2>1, <2>3, <2>4
<1>17. Pays(Producer, new)
  <2>1. ASSUME NEW e \in InUse
        PROVE  Net(new, e) = Weight(i, e) + One(prev, {e}) - One(made, {e})
    <3>1. Net(<<r, k, r2, g>>, e) = Weight(r, e) + Weight(k, e) + Weight(r2, e) + Weight(g, e)
      BY Nets
    <3>2. Weight(g, e) = 0
      BY <1>13, NoWeight
    <3>3. One(made, {e}) \in Int /\ One(prev, {e}) \in Int
      BY DEF One
    <3>4. e \in Node
      BY <1>2, InUseNode
    <3>5. /\ Weight(Release(prev), e) = One(prev, {e}) /\ Weight(Op("back", made, prev), e) = One(prev, {e})
          /\ Weight(Retain(made), e) = - One(made, {e})
      BY <1>7, <3>4, Weights
    <3>6. Weight(r, e) = One(prev, {e}) /\ Weight(i, e) = One(prev, {e}) /\ Weight(k, e) = - One(made, {e})
      BY <1>6, <1>9, <3>5
    <3> QED BY <1>9, <1>11, <3>1, <3>2, <3>3, <3>6
  <2>2. Covers(Producer, new, prev, made)
    BY <2>1 DEF Covers
  <2> QED BY <2>2, <1>1, <1>16, Paying
<1>18. Harmless(Y)
  <2>1. prev \in Named' /\ made \in Named'
    BY <1>15 DEF Named
  <2>2. r \notin Unnamed' /\ k \notin Unnamed' /\ g \notin Unnamed'
    BY <2>1, <1>13, Nameless
  <2> QED BY <1>9, <1>11, <2>2 DEF Harmless
<1>19. Occurs(Sources, new) <= 1
  <2>1. g \notin Sources /\ r \notin Sources
    BY <1>13 DEF Sources, Storing, Looks
  <2>2. Occurs(Sources, <<r, k, r2, g>>)
          = One(r, Sources) + One(k, Sources) + One(r2, Sources) + One(g, Sources)
    BY OccursTuples
  <2> QED BY <1>9, <1>11, <2>1, <2>2 DEF One
<1>20. Reached
  <2>1. Named' = Named /\ made \in Named
    BY <1>15 DEF Named, tail, NULL
  <2>2. Ptr(made).to = made
    BY PtrTypes
  <2> QED BY <1>16, <2>1, <2>2 DEF Reached, FifoInv, NamedInv
<1>21. /\ Unlinked' = Unlinked /\ link'["next"] = link["next"] /\ UNCHANGED <<made, popping, last>>
       /\ count' \in [Node -> Int]
  BY <1>1, <1>2, <1>5, <1>15, <1>16 DEF Unlinked
<1> QED BY <1>1, <1>2, <1>3, <1>12, <1>14, <1>17, <1>18, <1>19, <1>20, <1>21, PushKeeps

\* The call of push ends.
PushOver ==
  /\ todo[Producer] # <<>> /\ todo'[Producer] = <<>> /\ ~Unlinked
  /\ linked' = linked /\ Oldest' = Oldest /\ UNCHANGED <<popping, last>>

LEMMA FifoPushGrow == ASSUME FifoInv, PushGrow PROVE FifoInv' /\ PushOver
<1> DEFINE i == It(Producer)
<1>1. /\ todo[Producer] # <<>> /\ i.op = "grow" /\ UNCHANGED <<link, made, popping, last, count>>
      /\ Producer \in Threads /\ Producer # Consumer /\ Consumer \in Threads
  BY DEF PushGrow, At, It, Threads, Producer, Consumer, refs
<1>2. LinkInv /\ LinkInv' /\ count \in [Node -> Int]
  BY PushGrowStep DEF FifoInv
<1>3. i \notin Before(Producer)
  BY <1>1, BeforeOps, CountingOps DEF Looks, Producer, Consumer
<1>4. i = Aim(Producer)
  BY <1>1, <1>2, <1>3, PushHead
<1>5. PICK new, Y : new = <<>> /\ Y = {}
  OBVIOUS
<1>6. new \in Seq(Y) /\ Then(Producer, new)
  BY <1>5 DEF PushGrow
<1>7. todo'[Producer] = <<>>
  BY <1>1, <1>2, <1>3, <1>5, <1>6, LastDone
<1>8. ~Unlinked /\ ~Unlinked'
  BY <1>1, <1>4, <1>7 DEF Unlinked, Looks, Aim, Op
<1>9. Pays(Producer, new)
  <2>1. ASSUME NEW e \in InUse
        PROVE  Net(new, e) = Weight(i, e) + One(NULL, {e}) - One(NULL, {e})
    <3>1. Net(new, e) = 0 /\ Weight(i, e) = 0
      BY <1>1, <1>5, Nets, NoWeight
    <3>2. One(NULL, {e}) \in Int
      BY DEF One
    <3> QED BY <3>1, <3>2
  <2>2. Covers(Producer, new, NULL, NULL)
    BY <2>1 DEF Covers
  <2> QED BY <2>2, <1>1, Paying
<1>10. Harmless(Y) /\ Occurs(Sources, new) <= 1
  BY <1>5, OccursNone DEF Harmless
<1>11. Reached
  <2>1. linked' = linked /\ linked \in Nat
    BY <1>1, <1>2, <1>8, FirstBounds DEF linked
  <2>2. linked <= linked'
    BY <2>1
  <2> QED BY <1>1, <1>2, <2>2, NamesReached
<1>12. /\ Unlinked' = Unlinked /\ link'["next"] = link["next"] /\ UNCHANGED <<made, popping, last>>
       /\ count' \in [Node -> Int]
  BY <1>1, <1>2, <1>8 DEF Unlinked
<1>13. FifoInv' /\ linked' = linked /\ Oldest' = Oldest
  BY <1>1, <1>2, <1>3, <1>6, <1>9, <1>10, <1>11, <1>12, PushKeeps
<1> QED BY <1>1, <1>7, <1>8, <1>13 DEF PushOver

\* The entry is appended: the last entry of the list leads to it, or the head does.
Appends ==
  /\ todo[Producer] # <<>> /\ todo'[Producer] # <<>> /\ Unlinked /\ ~Unlinked'
  /\ linked' = linked + 1 /\ linked' = made /\ made' = made /\ Oldest' = Oldest
  /\ UNCHANGED <<popping, last>>

LEMMA FifoOrderAppended ==
  ASSUME FifoInv, LinkInv', NEW prev \in 0 .. made - 1, prev \in Node,
         link["next"][prev] = Ptr(tail), link["next"][made] = Ptr(tail), Unlinked, ~Unlinked',
         Changed("next", prev, Ptr(made)), UNCHANGED <<made, popping>>,
         todo'[Consumer] = todo[Consumer]
  PROVE  /\ OrderInv' /\ DecidedInv' /\ linked' = linked + 1 /\ linked' = made
         /\ Oldest' = Oldest /\ InUse' = InUse
<1>1. LinkInv /\ OrderInv /\ DecidedInv
  BY DEF FifoInv
<1>2. /\ linked \in Nat /\ linked <= made /\ made <= MaxPush /\ made \in Nat
      /\ First \in 1 .. linked + 1
      /\ First <= linked => link["next"][head] = Ptr(First)
      /\ First = linked + 1 => link["next"][head] = Ptr(tail)
      /\ link["next"][head] = Ptr(tail) => First = linked + 1
      /\ \A e \in 1 .. made : e \in Entries /\ e \in Node /\ e # tail /\ e # head /\ e # NULL
      /\ MaxPush \in Nat /\ tail = MaxPush + 1 /\ head = 0 /\ NULL = -1
  BY <1>1, FirstBounds
<1>3. linked = made - 1 /\ linked' = made /\ linked' = linked + 1
  BY <1>2 DEF linked
<1>4. /\ \A n \in First .. linked : link["next"][n].to = IF n < linked THEN n + 1 ELSE tail
      /\ \A n \in First .. linked : link["next"][n].mark => n = First /\ Marked(Aim(Consumer), n)
      /\ \A n \in 1 .. First - 1 : link["next"][n] # Ptr(tail)
      /\ Aim(Consumer).op = "return" => Aim(Consumer).n < First
  BY <1>1 DEF OrderInv
<1>5. /\ link'["next"][prev] = Ptr(made)
      /\ \A x \in Node : x # prev => link'["next"][x] = link["next"][x]
  BY DEF Changed
<1>6. \A n : Ptr(n).to = n /\ ~Ptr(n).mark
  BY PtrTypes
<1>7. (prev = linked /\ prev >= First) \/ (prev = head /\ First = linked + 1)
  <2>1. CASE prev = head
    BY <2>1, <1>2
  <2>2. CASE prev # head
    <3>1. prev \in 1 .. linked
      BY <2>2, <1>2, <1>3
    <3>2. prev \in First .. linked
      BY <3>1, <1>2, <1>4
    <3>3. link["next"][prev].to = tail
      BY <1>6
    <3>4. prev < linked => prev + 1 # tail
      BY <1>2
    <3>5. link["next"][prev].to = IF prev < linked THEN prev + 1 ELSE tail
      BY <3>2, <1>4
    <3>6. prev = linked
      BY <3>1, <3>3, <3>4, <3>5, <1>2
    <3>7. prev >= First
      <4>1. First \in Int /\ linked \in Int
        BY <1>2
      <4> QED BY <3>2, <4>1
    <3> QED BY <3>6, <3>7
  <2> QED BY <2>1, <2>2
<1>8. /\ prev = linked /\ prev >= First => link'["next"][head] = link["next"][head]
      /\ prev = head => link'["next"][head] = Ptr(made)
  BY <1>2, <1>5, Sentinels
<1>9. First' = First
  <2>1. CASE prev = linked /\ prev >= First
    <3>1. link'["next"][head] = Ptr(First) /\ First # tail
      BY <2>1, <1>2, <1>8
    <3> QED BY <3>1, <1>6 DEF First, head, tail
  <2>2. CASE prev = head /\ First = linked + 1
    <3>1. link'["next"][head] = Ptr(made) /\ made # tail
      BY <2>2, <1>2, <1>3, <1>8
    <3> QED BY <2>2, <3>1, <1>3, <1>6 DEF First, head, tail
  <2> QED BY <2>1, <2>2, <1>7
<1>10. \A n \in 1 .. made : link'["next"][n] = IF n = prev THEN Ptr(made) ELSE link["next"][n]
  BY <1>2, <1>5
<1>11. \A n \in First .. made : n \in 1 .. made
  BY <1>2
<1>12. \A n \in First .. made : link'["next"][n].mark <=> n <= linked /\ link["next"][n].mark
  <2>1. ASSUME NEW n \in First .. made
        PROVE  link'["next"][n].mark <=> n <= linked /\ link["next"][n].mark
    <3>1. CASE n = prev
      <4>1. link["next"][n].mark = FALSE /\ link'["next"][n].mark = FALSE
        BY <3>1, <1>10, <1>11 DEF Ptr
      <4> QED BY <4>1
    <3>2. CASE n # prev /\ n <= linked
      BY <3>2, <1>10, <1>11
    <3>3. CASE n # prev /\ ~(n <= linked)
      <4>1. n = made
        BY <3>3, <1>2, <1>3
      <4>2. link'["next"][n].mark = FALSE
        BY <3>3, <4>1, <1>10, <1>11 DEF Ptr
      <4> QED BY <4>2, <3>3
    <3> QED BY <3>1, <3>2, <3>3
  <2> QED BY <2>1
<1>13. Oldest' = Oldest
  <2>1. Oldest' = IF First <= made /\ link'["next"][First].mark THEN First + 1 ELSE First
    BY <1>3, <1>9 DEF Oldest
  <2>2. First \in First .. made
    BY <1>2, <1>3
  <2>3. link'["next"][First].mark <=> First <= linked /\ link["next"][First].mark
    BY <2>2, <1>12
  <2> QED BY <2>1, <2>2, <2>3, <1>2 DEF Oldest
<1>14. InUse' = InUse
  <2>1. InUse' = {e \in First .. made : e <= made => ~link'["next"][e].mark}
    BY <1>3, <1>9 DEF InUse
  <2>2. \A e \in First .. made : (e <= made => ~link'["next"][e].mark) <=> (e <= linked => ~link["next"][e].mark)
    BY <1>2, <1>12
  <2> QED BY <2>1, <2>2 DEF InUse
<1>15. PICK a : a = Aim(Consumer)
  OBVIOUS
<1>16. Aim(Consumer)' = a
  BY <1>1, <1>15, ConsumerStays
<1>17. DecidedInv'
  <2>1. (Decides(Aim(Consumer)))' = Decides(a)
    BY <1>16 DEF Decides, Looks, NULL, tail
  <2> QED BY <2>1, <1>1, <1>15 DEF DecidedInv
<1>18. OrderInv'
  <2>1. \A n \in First .. made : link'["next"][n].to = IF n < made THEN n + 1 ELSE tail
    <3>1. ASSUME NEW n \in First .. made
          PROVE  link'["next"][n].to = IF n < made THEN n + 1 ELSE tail
      <4>1. n \in 1 .. made /\ n \in Nat
        BY <1>2, <1>11
      <4>2. CASE n = prev
        <5>1. n = linked
          BY <4>1, <4>2, <1>2, <1>7
        <5>2. link'["next"][n].to = made
          BY <4>1, <4>2, <1>6, <1>10
        <5> QED BY <5>1, <5>2, <1>2, <1>3
      <4>3. CASE n # prev /\ n = made
        BY <4>1, <4>3, <1>2, <1>6, <1>10
      <4>4. CASE n # prev /\ n # made
        <5>1. n \in First .. linked /\ n < linked
          <6>1. n <= linked /\ n >= First
            BY <4>1, <4>4, <1>2, <1>3
          <6>2. prev = linked
            BY <6>1, <1>2, <1>7
          <6> QED BY <6>1, <6>2, <4>1, <4>4, <1>2
        <5>2. link'["next"][n] = link["next"][n]
          BY <4>1, <4>4, <1>10
        <5>3. link["next"][n].to = n + 1
          BY <5>1, <1>4
        <5> QED BY <5>1, <5>2, <5>3, <1>2, <1>3
      <4> QED BY <4>2, <4>3, <4>4
    <3> QED BY <3>1
  <2>2. \A n \in First .. made : link'["next"][n].mark => n = First /\ Marked(a, n)
    <3>1. \A n \in First .. made : n <= linked => n \in First .. linked
      BY <1>2
    <3> QED BY <3>1, <1>4, <1>12, <1>15
  <2>3. \A n \in 1 .. First - 1 : link'["next"][n] # Ptr(tail)
    <3>1. \A n \in 1 .. First - 1 : n \in 1 .. made /\ n # prev
      BY <1>2, <1>7
    <3> QED BY <3>1, <1>4, <1>10
  <2>4. \A e : (Marked(Aim(Consumer), e))' = Marked(a, e)
    BY <1>16 DEF Marked, Looks
  <2>5. \A n \in First .. made : link'["next"][n].mark => n = First /\ (Marked(Aim(Consumer), n))'
    BY <2>2, <2>4
  <2>6. a.op = "return" => a.n < First
    BY <1>4, <1>15
  <2> QED BY <2>1, <2>3, <2>5, <2>6, <1>3, <1>9, <1>16 DEF OrderInv, tail, Ptr
<1> QED BY <1>3, <1>13, <1>14, <1>17, <1>18

LEMMA FifoPushLinked ==
  ASSUME FifoInv, PushLink, NEW prev \in 0 .. made - 1, prev \in Node,
         link["next"][prev] = Ptr(tail), link["next"][made] = Ptr(tail),
         It(Producer) = Op("link", made, prev),
         Cas("next", prev, Ptr(tail), Ptr(made)), Then(Producer, PushLinked(made, prev))
  PROVE  FifoInv' /\ Appends
<1> DEFINE i == It(Producer)
<1>1. /\ todo[Producer] # <<>> /\ i.op = "link" /\ UNCHANGED <<made, popping, last, count>>
      /\ Producer \in Threads /\ Producer # Consumer /\ Consumer \in Threads
  BY DEF PushLink, At, It, Threads, Producer, Consumer, refs
<1>2. LinkInv /\ LinkInv' /\ count \in [Node -> Int]
  BY PushLinkStep DEF FifoInv
<1>3. i \notin Before(Producer)
  BY <1>1, BeforeOps, CountingOps DEF Looks, Producer, Consumer
<1>4. i = Aim(Producer) /\ made >= 1
  BY <1>1, <1>2, <1>3, PushHead
<1>5. Unlinked
  BY <1>1, <1>4 DEF Unlinked
<1>6. made \in Node /\ tail \in Node
  BY <1>2, <1>4, Bounds, Sentinels
<1>7. PICK r, k, g : r = Release(tail) /\ k = Retain(made) /\ g = Op("back", made, prev)
  OBVIOUS
<1>8. Then(Producer, <<r, k, g>>)
  BY <1>7 DEF PushLinked
<1>9. PICK new, Y : new = <<r, k, g>> /\ Y = {r, k, g}
  OBVIOUS
<1>10. new \in Seq(Y) /\ Then(Producer, new)
  BY <1>8, <1>9
<1>11. /\ g.op = "back" /\ r.op = "release" /\ r.n = tail /\ r \in Counting /\ k \in Counting /\ k.n = made
  BY <1>6, <1>7, CountingType DEF Retain, Look, Release, Op
<1>12. todo'[Producer] = new /\ todo'[Consumer] = todo[Consumer]
  BY <1>1, <1>2, <1>3, <1>10, LastDone
<1>13. Aim(Producer)' = g /\ todo'[Producer] # <<>>
  <2>1. Toward(todo'[Producer], {r, k}, g)
    BY <1>9, <1>12, TowardTuples
  <2> QED BY <2>1, <1>1, NewAim
<1>14. ~Unlinked'
  BY <1>11, <1>13 DEF Unlinked, Looks
<1>15. Changed("next", prev, Ptr(made)) /\ \A e : Shifted(e, tail, made)
  <2>1. PICK p \in Ptrs : p = Ptr(made)
    BY <1>6, PtrTypes
  <2>2. Relinked("next", prev, p)
    BY <2>1 DEF Relinked, Cas
  <2>3. p.to = made /\ link["next"][prev].to = tail
    BY <2>1, PtrTypes
  <2>4. /\ link'["next"][prev] = p
        /\ \A x \in Node : x # prev => link'["next"][x] = link["next"][x]
        /\ \A h \in {"next", "prev"} : h # "next" => link'[h] = link[h]
        /\ \A e : Shifted(e, link["next"][prev].to, p.to)
    BY <2>2, <1>2, Relinks
  <2>5. Changed("next", prev, Ptr(made))
    BY <2>1, <2>4 DEF Changed
  <2> QED BY <2>3, <2>4, <2>5
<1>16. /\ OrderInv' /\ DecidedInv' /\ linked' = linked + 1 /\ linked' = made
       /\ Oldest' = Oldest /\ InUse' = InUse
  <2>1. UNCHANGED <<made, popping>>
    BY <1>1
  <2> QED BY <2>1, <1>2, <1>5, <1>12, <1>14, <1>15, FifoOrderAppended
<1>17. Pays(Producer, new)
  <2>1. ASSUME NEW e \in InUse
        PROVE  Net(new, e) = Weight(i, e) + One(tail, {e}) - One(made, {e})
    <3>1. Net(<<r, k, g>>, e) = Weight(r, e) + Weight(k, e) + Weight(g, e)
      BY Nets, SMTT(40)
    <3>3. One(made, {e}) \in Int /\ One(prev, {e}) \in Int /\ One(tail, {e}) \in Int
      BY DEF One
    <3>4. e \in Node
      BY <1>2, InUseNode
    <3>5. /\ Weight(Release(tail), e) = One(tail, {e}) /\ Weight(Retain(made), e) = - One(made, {e})
          /\ Weight(Op("back", made, prev), e) = One(prev, {e})
          /\ Weight(Op("link", made, prev), e) = One(prev, {e})
      BY <1>6, <3>4, Weights
    <3>6. /\ Weight(r, e) = One(tail, {e}) /\ Weight(i, e) = One(prev, {e})
          /\ Weight(k, e) = - One(made, {e}) /\ Weight(g, e) = One(prev, {e})
      BY <1>7, <3>5
    <3> QED BY <1>9, <3>1, <3>3, <3>6
  <2>2. Covers(Producer, new, tail, made)
    BY <2>1 DEF Covers
  <2> QED BY <2>2, <1>1, <1>15, Paying
<1>18. linked \in Nat /\ made \in Nat
  BY <1>2, FirstBounds
<1>19. Harmless(Y)
  <2>1. tail \in Named' /\ made \in Named'
    BY <1>16, <1>18 DEF Named
  <2>2. r \notin Unnamed' /\ k \notin Unnamed' /\ g \notin Unnamed'
    BY <2>1, <1>11, Nameless
  <2> QED BY <1>9, <2>2 DEF Harmless
<1>20. Occurs(Sources, new) <= 1
  <2>1. g \notin Sources /\ r \notin Sources
    BY <1>11 DEF Sources, Storing, Looks
  <2>2. Occurs(Sources, <<r, k, g>>) = One(r, Sources) + One(k, Sources) + One(g, Sources)
    BY OccursTuples
  <2> QED BY <1>9, <2>1, <2>2 DEF One
<1>21. Reached
  <2>1. Named \subseteq Named' /\ made \in Named'
    BY <1>16, <1>18 DEF Named, tail, NULL
  <2>2. Ptr(made).to = made
    BY PtrTypes
  <2> QED BY <1>15, <2>1, <2>2 DEF Reached, FifoInv, NamedInv, Changed
<1>22. linked <= linked' /\ made' = made /\ count' \in [Node -> Int] /\ InUse' \subseteq InUse
  BY <1>1, <1>2, <1>16, <1>18
<1>23. FifoInv'
  BY <1>1, <1>2, <1>3, <1>10, <1>16, <1>17, <1>19, <1>20, <1>21, <1>22, AimDone
<1> QED BY <1>1, <1>5, <1>13, <1>14, <1>16, <1>23 DEF Appends

LEMMA FifoPushLink ==
  ASSUME FifoInv, PushLink
  PROVE  FifoInv' /\ (Stutters \/ Appends)
<1>1. PICK prev \in 0 .. made - 1 :
        /\ It(Producer) = Op("link", made, prev) /\ prev \in Node
        /\ link["next"][made] = Ptr(tail)
        /\ Cas("next", prev, Ptr(tail), Ptr(made))
        /\ Then(Producer, IF link["next"][prev] = Ptr(tail) THEN PushLinked(made, prev)
                                                            ELSE PushAgain(made, prev))
  BY LinkAim DEF FifoInv
<1>2. CASE link["next"][prev] = Ptr(tail)
  <2>1. Then(Producer, PushLinked(made, prev))
    BY <1>1, <1>2
  <2> QED BY <1>1, <1>2, <2>1, FifoPushLinked
<1>3. CASE link["next"][prev] # Ptr(tail)
  <2>1. Then(Producer, PushAgain(made, prev)) /\ link' = link
    BY <1>1, <1>3 DEF Cas
  <2> QED BY <1>1, <2>1, FifoPushAgain
<1> QED BY <1>2, <1>3

LEMMA Instructions ==
  ASSUME LinkInv, NEW t \in Threads, NEW i \in 1 .. Len(todo[t])
  PROVE  todo[t][i] \in Before(t) \/ todo[t][i] = Aim(t)
<1>1. todo[t] # <<>>
  OBVIOUS
<1>2. PICK u \in Seq(Before(t)) : todo[t] = Append(u, Aim(t))
  BY <1>1 DEF LinkInv, InCall, Toward
<1>3. Len(todo[t]) = Len(u) + 1 /\ Len(u) \in Nat
  BY <1>2
<1>4. CASE i = Len(u) + 1
  BY <1>2, <1>4
<1>5. CASE i # Len(u) + 1
  <2>1. i \in 1 .. Len(u)
    BY <1>3, <1>5
  <2>2. todo[t][i] = u[i] /\ u[i] \in Before(t)
    BY <1>2, <2>1
  <2> QED BY <2>2
<1> QED BY <1>4, <1>5

\* Pop holds nothing of an entry that is not in the list yet.
LEMMA PopOwesNothing ==
  ASSUME FifoInv, NEW e \in Node, e \notin Named
  PROVE  Debt(Consumer, e) = 0 /\ Links(e) = 0
<1>1. LinkInv /\ NamedInv /\ Consumer \in Threads
  BY DEF FifoInv, Threads
<1>2. PICK X : todo[Consumer] \in Seq(X)
  BY <1>1, TodoSeq
<1>3. linked \in Nat /\ tail \in Named /\ \A n \in 1 .. linked : n \in Named
  BY <1>1, FirstBounds DEF Named
<1>4. ASSUME NEW i \in 1 .. Len(todo[Consumer])
      PROVE  todo[Consumer][i] \notin Owes(e) /\ todo[Consumer][i] \notin Takes(e)
  <2>1. PICK o : o = todo[Consumer][i]
    OBVIOUS
  <2>2. o \notin Unnamed
    BY <2>1, <1>1, <1>2, OccursNever DEF NamedInv
  <2>3. o \in Before(Consumer) \/ o = Aim(Consumer)
    BY <1>1, <2>1, Instructions
  <2>4. o \in Owes(e) => \/ o.op \in {"release", "decrement", "first", "peek", "marknext"} /\ o.n = e
                         \/ o.op \in {"link", "back", "unprev", "unlink"} /\ o.m = e
    BY DEF Owes
  <2>5. o \in Takes(e) => o.op \in Looks /\ o.as = "retain" /\ o.n = e
    BY DEF Takes
  <2>6. CASE o \in Counting
    <3>1. o.n \in Named
      BY <2>2, <2>6 DEF Unnamed
    <3>2. o.n # e
      BY <3>1
    <3>3. o.op \notin {"link", "back", "unprev", "unlink"}
      BY <2>6, CountingOps DEF Looks
    <3> QED BY <2>1, <2>4, <2>5, <3>2, <3>3
  <2>7. CASE o \in Before(Consumer) /\ o \notin Counting
    <3>1. o.op \in {"shrink", "store", "swap"}
      BY <2>7, <1>1, BeforeOps
    <3> QED BY <2>1, <2>4, <2>5, <3>1 DEF Looks
  <2>8. CASE o = Aim(Consumer)
    <3>1. todo[Consumer] # <<>> /\ PopAt(o)
      BY <2>8, <1>1 DEF LinkInv, PopInv
    <3>2. /\ o.op \in {"deref", "first", "peek", "marknext", "prev", "markprev",
                       "unprev", "unlink", "return"} \cup Looks
          /\ o.op \in {"deref"} \cup Looks => o.as \in {"pop", "succ"}
      BY <2>8, <3>1, <1>1, AimOps
    <3>3. /\ o.op \in {"first", "peek", "marknext"} => o.n \in 1 .. linked
          /\ o.op \in {"unprev", "unlink"} => o.m \in 1 .. linked \cup {tail}
      BY <3>1, <1>1, PopPlaces
    <3>4. o \notin Owes(e)
      BY <2>4, <3>2, <3>3, <1>3 DEF Looks
    <3>5. o \notin Takes(e)
      BY <2>5, <3>2 DEF Looks
    <3> QED BY <2>1, <3>4, <3>5
  <2> QED BY <2>3, <2>6, <2>7, <2>8
<1>5. Occurs(Owes(e), todo[Consumer]) = 0 /\ Occurs(Takes(e), todo[Consumer]) = 0
  BY <1>2, <1>4, OccursNever
<1>6. Links(e) = 0
  <2>1. \A l \in {"next", "prev"} \X Node : link[l[1]][l[2]].to \in Named
    BY <1>1 DEF NamedInv
  <2>2. {l \in {"next", "prev"} \X Node : link[l[1]][l[2]].to = e} = {}
    BY <2>1
  <2> QED BY <2>2, FS_EmptySet DEF Links
<1> QED BY <1>5, <1>6 DEF Debt

\* A call of push begins: nobody knows its entry.
PushNew ==
  /\ todo[Producer] = <<>> /\ todo'[Producer] # <<>> /\ Unlinked' /\ made' \in Entries
  /\ linked' = linked /\ Oldest' = Oldest /\ UNCHANGED <<popping, last>>

LEMMA FifoPush == ASSUME FifoInv, Push PROVE FifoInv' /\ PushNew
<1>1. /\ todo[Producer] = <<>> /\ made' = made + 1 /\ made < MaxPush /\ link' = link
      /\ UNCHANGED <<popping, last>> /\ count' = [count EXCEPT ![made + 1] = 1]
      /\ Producer \in Threads /\ Producer # Consumer /\ Consumer \in Threads
  BY DEF Push, Threads, Producer, Consumer
<1>2. LinkInv /\ LinkInv' /\ OrderInv /\ DecidedInv /\ CountsExplained /\ NamedInv /\ BackedInv
  BY PushBegins DEF FifoInv
<1>3. count \in [Node -> Int]
  BY DEF FifoInv
<1>4. PICK g : g = Deref("prev", tail, "push", made + 1)
  OBVIOUS
<1>5. g.op = "deref"
  BY <1>4 DEF Deref
<1>6. todo'[Producer] = <<g>> /\ todo'[Consumer] = todo[Consumer]
  BY <1>1, <1>2, <1>4 DEF Push, PushLoop, LinkInv
<1>7. Aim(Producer)' = g /\ todo'[Producer] # <<>>
  <2>1. Toward(todo'[Producer], {}, g)
    BY <1>6, TowardTuples
  <2> QED BY <2>1, <1>1, NewAim
<1>8. ~Unlinked /\ Unlinked'
  BY <1>1, <1>5, <1>7 DEF Unlinked, Aim, Op, Looks
<1>9. /\ linked \in Nat /\ made \in Nat /\ MaxPush \in Nat /\ tail = MaxPush + 1 /\ NULL = -1
      /\ First \in 1 .. linked + 1 /\ head = 0
  BY <1>2, FirstBounds
<1>10. linked = made /\ linked' = linked /\ made <= made'
  BY <1>1, <1>8, <1>9 DEF linked
<1>11. made + 1 \in Entries /\ made + 1 \in Node /\ made + 1 \notin Named /\ made \in Int
  BY <1>1, <1>9, <1>10 DEF Entries, Node, Named
<1>12. PICK a : a = Aim(Consumer)
  OBVIOUS
<1>13. /\ OrderInv' /\ DecidedInv' /\ Oldest' = Oldest
       /\ InUse' \subseteq InUse \cup (made + 1 .. made')
  <2>1. Aim(Consumer)' = a /\ Decides(a) = popping' /\ (a.op = "return" => a.n < First)
    BY <1>1, <1>2, <1>6, <1>12, ConsumerStays DEF DecidedInv, OrderInv
  <2>2. /\ link'["next"][head] = link["next"][head]
        /\ \A n \in First .. linked : link'["next"][n] = link["next"][n]
        /\ \A n \in 1 .. First - 1 : link'["next"][n] \in {link["next"][n], Ptr(NULL)}
        /\ \A e \in Entries : Marked(Aim(Consumer), e) => Marked(a, e)
    BY <1>1, <1>12
  <2> QED BY <1>2, <1>10, <2>1, <2>2, ListSettled
<1>14. count' \in [Node -> Int] /\ count'[made + 1] = 1 /\ \A x \in Node : x # made + 1 => count'[x] = count[x]
  BY <1>1, <1>3, <1>11
<1>15. CountsExplained'
  <2> SUFFICES ASSUME NEW e, e \in InUse'
               PROVE  count'[e] = 1 + (Links(e))' + (Debt(Producer, e))' + (Debt(Consumer, e))'
    BY DEF CountsExplained
  <2>1. e \in InUse \/ e = made + 1
    BY <1>1, <1>9, <1>13
  <2>2. Debt(Producer, e) = 0 /\ (Debt(Producer, e))' = 0
    <3>1. Debt(Producer, e) = Net(<<>>, e) /\ (Debt(Producer, e))' = Net(<<g>>, e)
      BY <1>1, <1>6 DEF Debt, Net, Occurs, Owes, Takes, Looks, Producer, Node, Entries, Old, head, tail, NULL
    <3>2. Net(<<>>, e) = 0 /\ Net(<<g>>, e) = Weight(g, e) /\ Weight(g, e) = 0
      BY <1>5, Nets, NoWeight
    <3> QED BY <3>1, <3>2
  <2>3. (Debt(Consumer, e))' = Debt(Consumer, e) /\ Debt(Consumer, e) \in Int
    <3>1. (Debt(Consumer, e))' = Debt(Consumer, e)
      BY <1>6 DEF Debt, Occurs, Owes, Takes, Looks, Consumer, Node, Entries, Old, head, tail, NULL
    <3> QED BY <3>1, <1>1, <1>2, DebtInt
  <2>4. (Links(e))' = Links(e) /\ Links(e) \in Nat
    BY <1>1, LinksSame
  <2> DEFINE DP == (Debt(Producer, e))'
             DC == (Debt(Consumer, e))'
             LL == (Links(e))'
             CC == count'[e]
  <2>5. CASE e = made + 1
    <3>1. Debt(Consumer, e) = 0 /\ Links(e) = 0
      BY <2>5, <1>11, PopOwesNothing
    <3>2. DP = 0 /\ DC = 0 /\ LL = 0 /\ CC = 1
      BY <2>2, <2>3, <2>4, <2>5, <3>1, <1>14
    <3> HIDE DEF DP, DC, LL, CC
    <3>3. CC = 1 + LL + DP + DC
      BY <3>2
    <3> QED BY <3>3 DEF DP, DC, LL, CC
  <2>6. CASE e # made + 1 /\ e \in InUse
    <3>1. count'[e] = count[e] /\ count[e] \in Int
      BY <2>6, <1>2, <1>3, <1>14, InUseNode
    <3>2. count[e] = 1 + Links(e) + Debt(Producer, e) + Debt(Consumer, e)
      BY <2>6, <1>2 DEF CountsExplained
    <3>3. DP = Debt(Producer, e) /\ DC = Debt(Consumer, e) /\ LL = Links(e) /\ CC = count[e]
      BY <2>2, <2>3, <2>4, <3>1
    <3> HIDE DEF DP, DC, LL, CC
    <3>4. CC = 1 + LL + DP + DC
      BY <3>2, <3>3
    <3> QED BY <3>4 DEF DP, DC, LL, CC
  <2> QED BY <2>1, <2>5, <2>6
<1>16. NamedInv'
  <2>1. Named' = Named
    BY <1>10 DEF Named, tail, NULL
  <2>2. Unnamed' = Unnamed
    BY <2>1 DEF Unnamed, Counting, Looks, Node, Entries, Old, head, tail, Ptrs, NULL
  <2>3. g \notin Unnamed
    BY <1>5, <2>2, Nameless
  <2>4. Occurs(Unnamed, <<g>>) = 0
    <3>1. Occurs(Unnamed, <<g>>) = One(g, Unnamed)
      BY OccursOne
    <3> QED BY <2>3, <3>1 DEF One
  <2>5. \A t \in Threads : Occurs(Unnamed, todo'[t]) = 0
    BY <1>2, <1>6, <2>4 DEF Threads, NamedInv
  <2>6. \A t \in Threads : (Occurs(Unnamed, todo[t]))' = Occurs(Unnamed, todo'[t])
    BY <2>2 DEF Occurs
  <2>7. \A f \in {"next", "prev"}, n \in Node : link'[f][n].to \in Named'
    BY <1>1, <1>2, <2>1 DEF NamedInv
  <2> QED BY <2>5, <2>6, <2>7 DEF NamedInv
<1>17. BackedInv'
  <2>1. g \notin Sources'
    BY <1>5 DEF Sources, Storing, Looks
  <2>2. PICK S : S = Sources'
    OBVIOUS
  <2>3. Occurs(S, <<g>>) = One(g, S)
    BY OccursOne
  <2>4. Occurs(S, <<g>>) <= 1
    BY <2>3 DEF One
  <2>5. (Occurs(Sources, todo[Producer]))' = Occurs(S, <<g>>)
    BY <1>6, <2>2 DEF Occurs, Producer
  <2>6. (Paired(todo[Consumer]))' = Paired(todo[Consumer])
    BY <1>6 DEF Paired, Takes, Looks, Release, Op, Consumer, Entries, Node, Old, head, tail
  <2> QED BY <1>2, <2>4, <2>5, <2>6 DEF BackedInv
<1>18. FifoInv'
  BY <1>2, <1>13, <1>14, <1>15, <1>16, <1>17 DEF FifoInv
<1> QED BY <1>1, <1>7, <1>8, <1>10, <1>11, <1>13, <1>18 DEF PushNew

-----------------------------------------------------------------------------
(* queue_pop_left *)

\* Where pop goes on: what it is bound to return, and that it does not forget what it marked.
GoesTo(g) ==
  /\ Decides(g) = popping'
  /\ \A e \in Entries : Marked(Aim(Consumer), e) => Marked(g, e)
  /\ g.op = "return" => g.n < First

\* A step of pop that leaves the next links alone.
LEMMA PopKeeps ==
  ASSUME FifoInv, LinkInv', todo[Consumer] # <<>>, It(Consumer) \notin Before(Consumer),
         NEW Y, NEW new \in Seq(Y), Then(Consumer, new), UNCHANGED <<made, last>>,
         link'["next"] = link["next"], count' \in [Node -> Int],
         NEW g, Aim(Consumer)' = g, GoesTo(g),
         Pays(Consumer, new), Harmless(Y), Reached, Paired(new)
  PROVE  /\ FifoInv' /\ linked' = linked /\ Oldest' = Oldest /\ Unlinked' = Unlinked
         /\ todo'[Producer] = todo[Producer]
         /\ popping' = popping => Stutters
<1>1. LinkInv /\ Producer \in Threads /\ Producer # Consumer /\ Consumer \in Threads
  BY DEF FifoInv, Threads, Producer, Consumer
<1>2. todo'[Producer] = todo[Producer]
  BY <1>1, LastDone
<1>3. Unlinked' = Unlinked /\ linked' = linked
  BY <1>1, <1>2, ProducerStays
<1>4. linked \in Nat /\ made \in Nat
  BY <1>1, FirstBounds
<1>5. made' = made /\ made <= made' /\ linked <= linked'
  BY <1>3, <1>4
<1>6. /\ link'["next"][head] = link["next"][head]
      /\ \A n \in First .. linked : link'["next"][n] = link["next"][n]
      /\ \A n \in 1 .. First - 1 : link'["next"][n] \in {link["next"][n], Ptr(NULL)}
  OBVIOUS
<1>7. /\ Decides(g) = popping'
      /\ \A e \in Entries : Marked(Aim(Consumer), e) => Marked(g, e)
      /\ g.op = "return" => g.n < First
  BY DEF GoesTo
<1>8. OrderInv' /\ DecidedInv' /\ Oldest' = Oldest /\ InUse' = InUse
  BY <1>3, <1>5, <1>6, <1>7, ListSettled
<1>9. FifoInv'
  <2>1. InUse' \subseteq InUse
    BY <1>8
  <2> QED BY <1>1, <1>5, <1>8, <2>1, AimDone
<1> QED BY <1>2, <1>3, <1>8, <1>9 DEF Stutters

\* The instructions of pop itself.
PopOp(a) ==
  \/ a.op \in {"deref", "first", "peek", "marknext", "prev", "markprev", "unprev", "unlink", "return"}
  \/ a.op \in Looks /\ a.as # "retain"

LEMMA PopOps ==
  ASSUME NEW a, PopOp(a)
  PROVE  a \notin Unnamed' /\ \A e : a \notin Takes(e)
BY Nameless DEF PopOp, Takes, Looks

\* One instruction follows another.
LEMMA PopMovesOn ==
  ASSUME FifoInv, LinkInv', todo[Consumer] # <<>>, It(Consumer) \notin Before(Consumer),
         UNCHANGED <<link, made, last, count>>, NEW a, PopOp(a), Then(Consumer, <<a>>), GoesTo(a),
         \A e \in InUse : Weight(a, e) = Weight(It(Consumer), e)
  PROVE  /\ FifoInv' /\ linked' = linked /\ Oldest' = Oldest /\ Unlinked' = Unlinked
         /\ todo'[Producer] = todo[Producer]
         /\ popping' = popping => Stutters
<1>1. LinkInv /\ Consumer \in Threads /\ count \in [Node -> Int]
  BY DEF FifoInv, Threads
<1>2. PICK new, Y : new = <<a>> /\ Y = {a}
  OBVIOUS
<1>3. new \in Seq(Y) /\ Then(Consumer, new)
  BY <1>2
<1>4. todo'[Consumer] = new /\ todo'[Producer] = todo[Producer]
  BY <1>1, <1>3, LastDone DEF Threads, Producer, Consumer
<1>5. Aim(Consumer)' = a
  <2>1. Toward(todo'[Consumer], {}, a)
    BY <1>2, <1>4, TowardTuples
  <2> QED BY <2>1, <1>1, NewAim
<1>6. Pays(Consumer, new)
  <2>1. ASSUME NEW e \in InUse
        PROVE  Net(new, e) = Weight(It(Consumer), e) + One(NULL, {e}) - One(NULL, {e})
    <3>1. Net(new, e) = Weight(a, e)
      BY <1>2, Nets
    <3>2. Weight(a, e) = Weight(It(Consumer), e) /\ Weight(a, e) \in Int
      BY DEF Weight, One
    <3>3. One(NULL, {e}) \in Int
      BY DEF One
    <3> QED BY <3>1, <3>2, <3>3
  <2>2. Covers(Consumer, new, NULL, NULL)
    BY <2>1 DEF Covers
  <2> QED BY <2>2, <1>1, Paying
<1>7. Harmless(Y)
  BY <1>2, PopOps DEF Harmless
<1>8. Paired(new)
  <2>1. \A i \in 1 .. Len(new) : new[i] = a
    BY <1>2
  <2> QED BY <2>1, PopOps DEF Paired
<1>9. Reached
  <2>1. made' = made
    OBVIOUS
  <2>2. linked' = linked /\ linked \in Nat
    BY <1>1, <1>4, <2>1, ProducerStays, FirstBounds
  <2>3. linked <= linked'
    BY <2>2
  <2> QED BY <2>3, NamesReached
<1>10. link'["next"] = link["next"] /\ count' \in [Node -> Int] /\ UNCHANGED <<made, last>>
  BY <1>1
<1> QED BY <1>3, <1>5, <1>6, <1>7, <1>8, <1>9, <1>10, PopKeeps

\* A reference is given back before.
LEMMA PopLetsGo ==
  ASSUME FifoInv, LinkInv', todo[Consumer] # <<>>, It(Consumer) \notin Before(Consumer),
         UNCHANGED <<link, made, last, count>>, NEW n \in Node, n \in Named, NEW a, PopOp(a),
         Then(Consumer, <<Release(n), a>>), GoesTo(a),
         \A e \in InUse : Weight(a, e) = 0 /\ Weight(It(Consumer), e) = One(n, {e})
  PROVE  /\ FifoInv' /\ linked' = linked /\ Oldest' = Oldest /\ Unlinked' = Unlinked
         /\ todo'[Producer] = todo[Producer]
         /\ popping' = popping => Stutters
<1>1. LinkInv /\ Consumer \in Threads /\ count \in [Node -> Int]
  BY DEF FifoInv, Threads
<1>2. PICK r : r = Release(n)
  OBVIOUS
<1>3. PICK new, Y : new = <<r, a>> /\ Y = {r, a}
  OBVIOUS
<1>4. new \in Seq(Y) /\ Then(Consumer, new)
  BY <1>2, <1>3
<1>5. todo'[Consumer] = new /\ todo'[Producer] = todo[Producer]
  BY <1>1, <1>4, LastDone DEF Threads, Producer, Consumer
<1>6. Aim(Consumer)' = a
  <2>1. Toward(todo'[Consumer], {r}, a)
    BY <1>3, <1>5, TowardTuples
  <2> QED BY <2>1, <1>1, NewAim
<1>7. r \in Counting /\ r.n = n /\ r.op = "release"
  BY <1>2, CountingType DEF Release, Op
<1>8. Pays(Consumer, new)
  <2>1. ASSUME NEW e \in InUse
        PROVE  Net(new, e) = Weight(It(Consumer), e) + One(NULL, {e}) - One(NULL, {e})
    <3>1. Net(<<r, a>>, e) = Weight(r, e) + Weight(a, e)
      BY Nets, ZenonT(60)
    <3>2. Weight(a, e) = 0 /\ Weight(It(Consumer), e) = One(n, {e})
      OBVIOUS
    <3>3. One(NULL, {e}) \in Int /\ One(n, {e}) \in Int
      BY DEF One
    <3>4. e \in Node
      BY <1>1, InUseNode
    <3>5. Weight(Release(n), e) = One(n, {e})
      BY <3>4, Weights
    <3> QED BY <1>2, <1>3, <3>1, <3>2, <3>3, <3>5
  <2>2. Covers(Consumer, new, NULL, NULL)
    BY <2>1 DEF Covers
  <2> QED BY <2>2, <1>1, Paying
<1>9. linked' = linked /\ linked \in Nat
  <2>1. made' = made
    OBVIOUS
  <2> QED BY <1>1, <1>5, <2>1, ProducerStays, FirstBounds
<1>10. Harmless(Y)
  <2>1. n \in Named'
    BY <1>9 DEF Named, tail, NULL
  <2>2. r \notin Unnamed' /\ a \notin Unnamed'
    BY <2>1, <1>7, Nameless, PopOps
  <2> QED BY <1>3, <2>2 DEF Harmless
<1>11. Paired(new)
  <2>1. \A i \in 1 .. Len(new) : new[i] = r \/ new[i] = a
    BY <1>3
  <2>2. \A e : r \notin Takes(e)
    BY <1>7 DEF Takes, Looks
  <2> QED BY <2>1, <2>2, PopOps DEF Paired
<1>12. Reached
  <2>1. linked <= linked'
    BY <1>9
  <2> QED BY <2>1, NamesReached
<1>13. link'["next"] = link["next"] /\ count' \in [Node -> Int] /\ UNCHANGED <<made, last>>
  BY <1>1
<1> QED BY <1>4, <1>6, <1>8, <1>10, <1>11, <1>12, <1>13, PopKeeps

LEMMA Decisions ==
  /\ Decides(Deref("next", head, "pop", head)) = Undecided
  /\ \A o \in Looks : \A n : Decides([op |-> o, n |-> n, as |-> "pop", m |-> head])
                           = IF n = tail THEN Empty ELSE Undecided
  /\ \A e : Decides(Deref("next", e, "succ", e)) = e
  /\ \A o \in Looks : \A n, e : Decides([op |-> o, n |-> n, as |-> "succ", m |-> e]) = e
  /\ \A o \in {"first", "peek", "marknext"} : \A n, m : Decides(Op(o, n, m)) = Undecided
  /\ \A o \in {"prev", "markprev", "unprev", "unlink"} : \A n, m : Decides(Op(o, n, m)) = n
  /\ \A n, m : Decides(Op("return", n, m)) = IF n = NULL THEN Empty ELSE n
<1>1. Decides(Deref("next", head, "pop", head)) = Undecided
  BY DEF Decides, Deref, Looks
<1>2. \A o \in Looks : \A n : Decides([op |-> o, n |-> n, as |-> "pop", m |-> head])
                           = IF n = tail THEN Empty ELSE Undecided
  BY DEF Decides, Looks
<1>3. \A e : Decides(Deref("next", e, "succ", e)) = e
  BY DEF Decides, Deref, Looks
<1>4. \A o \in Looks : \A n, e : Decides([op |-> o, n |-> n, as |-> "succ", m |-> e]) = e
  BY DEF Decides, Looks
<1>5. \A o \in {"first", "peek", "marknext"} : \A n, m : Decides(Op(o, n, m)) = Undecided
  BY DEF Decides, Op, Looks
<1>6. \A o \in {"prev", "markprev", "unprev", "unlink"} : \A n, m : Decides(Op(o, n, m)) = n
  BY DEF Decides, Op, Looks
<1>7. \A n, m : Decides(Op("return", n, m)) = IF n = NULL THEN Empty ELSE n
  BY DEF Decides, Op, Looks
<1> QED BY <1>1, <1>2, <1>3, <1>4, <1>5, <1>6, <1>7

LEMMA Marks ==
  /\ \A x : ~Marked(Deref("next", head, "pop", head), x)
  /\ \A o \in Looks : \A n, x : ~Marked([op |-> o, n |-> n, as |-> "pop", m |-> head], x)
  /\ \A e, x : Marked(Deref("next", e, "succ", e), x) <=> x = e
  /\ \A o \in Looks : \A n, e, x : Marked([op |-> o, n |-> n, as |-> "succ", m |-> e], x) <=> x = e
  /\ \A o \in {"first", "peek", "marknext", "return"} : \A n, m, x : ~Marked(Op(o, n, m), x)
  /\ \A o \in {"prev", "markprev", "unprev", "unlink"} : \A n, m, x : Marked(Op(o, n, m), x) <=> x = n
<1>1. \A x : ~Marked(Deref("next", head, "pop", head), x)
  BY DEF Marked, Deref, Looks
<1>2. \A o \in Looks : \A n, x : ~Marked([op |-> o, n |-> n, as |-> "pop", m |-> head], x)
  BY DEF Marked, Looks
<1>3. \A e, x : Marked(Deref("next", e, "succ", e), x) <=> x = e
  BY DEF Marked, Deref, Looks
<1>4. \A o \in Looks : \A n, e, x : Marked([op |-> o, n |-> n, as |-> "succ", m |-> e], x) <=> x = e
  BY DEF Marked, Looks
<1>5. \A o \in {"first", "peek", "marknext", "return"} : \A n, m, x : ~Marked(Op(o, n, m), x)
  BY DEF Marked, Op, Looks
<1>6. \A o \in {"prev", "markprev", "unprev", "unlink"} : \A n, m, x : Marked(Op(o, n, m), x) <=> x = n
  BY DEF Marked, Op, Looks
<1> QED BY <1>1, <1>2, <1>3, <1>4, <1>5, <1>6

\* The queue is found empty.
PopsNothing ==
  /\ popping = Undecided /\ popping' = Empty /\ Oldest = linked + 1
  /\ linked' = linked /\ Oldest' = Oldest /\ Unlinked' = Unlinked /\ made' = made /\ last' = last
  /\ (todo'[Producer] = <<>>) = (todo[Producer] = <<>>)

LEMMA FifoPopReads ==
  ASSUME FifoInv, DerefLink(Consumer)
  PROVE  FifoInv' /\ (Stutters \/ PopsNothing)
<1>1. PICK a : a = It(Consumer)
  BY ZenonT(60)
<1>2. todo[Consumer] # <<>> /\ a.op = "deref" /\ UNCHANGED <<link, made, last, count>>
  BY <1>1 DEF DerefLink, At, It, refs
<1>3. LinkInv /\ LinkInv' /\ DecidedInv
  BY <1>1, <1>2, PopDerefs DEF FifoInv
<1>4. a \notin Before(Consumer)
  BY <1>1, <1>2, BeforeOps, CountingOps DEF Looks, Threads, Producer, Consumer
<1>5. PopAt(a) /\ a = Aim(Consumer)
  BY <1>1, <1>2, <1>3, <1>4, PopHead
<1>6. popping = Decides(a)
  BY <1>3, <1>5 DEF DecidedInv
<1>7. \A e : Weight(a, e) = 0
  BY <1>2, NoWeight
<1>8. CASE a = Deref("next", head, "pop", head)
  <2>1. PICK x \in 1 .. linked \cup {tail} : link["next"][head] = Ptr(x)
    BY <1>3 DEF LinkInv, ChainInv
  <2>2. x # NULL
    BY <1>3, Sentinels, Bounds DEF NULL
  <2>3. PICK g : g = [op |-> "look", n |-> x, as |-> "pop", m |-> head]
    OBVIOUS
  <2>4. Then(Consumer, <<g>>) /\ popping' = IF x = tail THEN Empty ELSE popping
    BY <1>1, <1>8, <2>1, <2>2, <2>3 DEF DerefLink, Ptr, Deref, Look
  <2>5. "look" \in Looks /\ g.op = "look" /\ g.as = "pop"
    BY <2>3 DEF Looks
  <2>6. popping = Undecided /\ Decides(g) = IF x = tail THEN Empty ELSE Undecided
    BY <1>6, <1>8, <2>3, <2>5, Decisions
  <2>7. GoesTo(g)
    <3>1. \A e : ~Marked(a, e)
      BY <1>8, Marks
    <3> QED BY <2>4, <2>5, <2>6, <3>1, <1>5 DEF GoesTo
  <2>8. PopOp(g)
    BY <2>5 DEF PopOp
  <2>9. \A e \in InUse : Weight(g, e) = Weight(It(Consumer), e)
    <3>1. \A e \in InUse : Weight(g, e) = 0
      BY <2>5, NoWeight
    <3> QED BY <3>1, <1>1, <1>7
  <2>10. /\ FifoInv' /\ linked' = linked /\ Oldest' = Oldest /\ Unlinked' = Unlinked
         /\ todo'[Producer] = todo[Producer]
         /\ popping' = popping => Stutters
    BY <1>1, <1>2, <1>3, <1>4, <2>4, <2>7, <2>8, <2>9, PopMovesOn
  <2>11. x = tail => PopsNothing
    <3> SUFFICES ASSUME x = tail PROVE PopsNothing
      OBVIOUS
    <3>1. First = linked + 1 /\ linked \in Nat
      BY <2>1, <1>3, FirstBounds
    <3>2. Oldest = linked + 1
      BY <3>1 DEF Oldest
    <3> QED BY <2>4, <2>6, <2>10, <3>2, <1>2 DEF PopsNothing
  <2> QED BY <2>4, <2>10, <2>11
<1>9. CASE a = Deref("next", a.m, "succ", a.m) /\ Out(a.m)
  <2>1. PICK e : e = a.m
    OBVIOUS
  <2>2. PICK g : g = [op |-> "look", n |-> link["next"][e].to, as |-> "succ", m |-> e]
    OBVIOUS
  <2>3. a = Deref("next", e, "succ", e) /\ link["next"][e].to # NULL
    BY <1>9, <2>1 DEF Out
  <2>4. Then(Consumer, <<g>>) /\ popping' = popping
    BY <1>1, <2>2, <2>3 DEF DerefLink, Deref, Look
  <2>5. "look" \in Looks /\ g.op = "look" /\ g.as = "succ"
    BY <2>2 DEF Looks
  <2>6. popping = e /\ Decides(g) = e
    BY <1>6, <2>2, <2>3, <2>5, Decisions
  <2>7. GoesTo(g)
    <3>1. \A y : Marked(a, y) => y = e
      BY <2>3, Marks
    <3>2. Marked(g, e)
      BY <2>2, <2>5, Marks
    <3> QED BY <2>4, <2>5, <2>6, <3>1, <3>2, <1>5 DEF GoesTo
  <2>8. PopOp(g)
    BY <2>5 DEF PopOp
  <2>9. \A y \in InUse : Weight(g, y) = Weight(It(Consumer), y)
    <3>1. \A y \in InUse : Weight(g, y) = 0
      BY <2>5, NoWeight
    <3> QED BY <3>1, <1>1, <1>7
  <2>10. FifoInv' /\ Stutters
    BY <1>1, <1>2, <1>3, <1>4, <2>4, <2>7, <2>8, <2>9, PopMovesOn
  <2> QED BY <2>10
<1> QED BY <1>2, <1>3, <1>5, <1>8, <1>9, PopPlaces

\* pop is at the look at a node.
LEMMA LookAt ==
  ASSUME FifoInv, todo[Consumer] # <<>>, It(Consumer).op \in Looks, It(Consumer).as \in {"pop", "succ"}
  PROVE  /\ It(Consumer) \notin Before(Consumer) /\ It(Consumer) = Aim(Consumer)
         /\ popping = Decides(It(Consumer))
         /\ \A e : Weight(It(Consumer), e) = 0
         /\ \E n \in 1 .. linked \cup {tail} :
              /\ n \in Node /\ n \in Named
              /\ \/ /\ It(Consumer) = [op |-> It(Consumer).op, n |-> n, as |-> "pop", m |-> head]
                    /\ n = tail \/ (n \in InUse /\ n <= linked /\ n \in Entries)
                 \/ \E e : It(Consumer) = [op |-> It(Consumer).op, n |-> n, as |-> "succ", m |-> e] /\ Out(e)
<1>1. PICK a : a = It(Consumer)
  OBVIOUS
<1>2. LinkInv /\ DecidedInv /\ OrderInv
  BY DEF FifoInv
<1>3. a \notin Before(Consumer)
  BY <1>1, BeforeOps, CountingOps DEF Looks, Threads, Producer, Consumer
<1>4. PopAt(a) /\ a = Aim(Consumer)
  BY <1>1, <1>2, <1>3, PopHead
<1>5. popping = Decides(a)
  BY <1>2, <1>4 DEF DecidedInv
<1>6. \A e : Weight(a, e) = 0
  BY <1>1, NoWeight
<1>7. /\ linked \in Nat /\ linked <= made /\ made \in Nat
      /\ \A e \in 1 .. linked : link["next"][head] = Ptr(e) => First = e
      /\ \A e \in 1 .. made : e \in Entries /\ e \in Node
  BY <1>2, FirstBounds
<1>8. \A n \in 1 .. linked \cup {tail} : n \in Node /\ n \in Named
  BY <1>7, Sentinels DEF Named
<1>9. CASE /\ a = [op |-> a.op, n |-> a.n, as |-> "pop", m |-> head]
           /\ a.n = tail \/ (a.n \in 1 .. linked /\ link["next"][head] = Ptr(a.n))
  <2>1. a.n \in 1 .. linked /\ link["next"][head] = Ptr(a.n) => a.n \in InUse /\ a.n <= linked /\ a.n \in Entries
    <3> SUFFICES ASSUME a.n \in 1 .. linked, link["next"][head] = Ptr(a.n)
                 PROVE  a.n \in InUse /\ a.n <= linked /\ a.n \in Entries
      OBVIOUS
    <3>1. First = a.n
      BY <1>7
    <3>2. ~Marked(a, a.n)
      BY <1>1, <1>9, Marks
    <3>3. a.n \in First .. linked
      BY <3>1, <1>7
    <3>4. ~link["next"][a.n].mark
      BY <3>2, <3>3, <1>2, <1>4 DEF OrderInv
    <3>5. a.n \in First .. made /\ a.n <= linked /\ a.n \in 1 .. made
      BY <3>1, <1>7
    <3> QED BY <3>4, <3>5, <1>7 DEF InUse
  <2>2. a.n \in 1 .. linked \cup {tail}
    BY <1>9
  <2> QED BY <2>1, <2>2, <1>1, <1>3, <1>4, <1>5, <1>6, <1>8, <1>9
<1>10. CASE /\ a = [op |-> a.op, n |-> a.n, as |-> "succ", m |-> a.m] /\ Out(a.m)
            /\ a.n \in 1 .. linked \cup {tail}
  BY <1>1, <1>3, <1>4, <1>5, <1>6, <1>8, <1>10
<1> QED BY <1>1, <1>2, <1>4, <1>9, <1>10, PopPlaces

LEMMA FifoPopLooks ==
  ASSUME FifoInv, DerefDelete(Consumer) \/ DerefCount(Consumer), It(Consumer).as \in {"pop", "succ"}
  PROVE  FifoInv' /\ Stutters
<1>1. PICK a : a = It(Consumer)
  OBVIOUS
<1>2. /\ todo[Consumer] # <<>> /\ a.op \in Looks /\ UNCHANGED <<link, made, last, count>>
      /\ popping' = popping
  BY <1>1 DEF DerefDelete, DerefCount, At, It, refs, Looks
<1>3. LinkInv /\ LinkInv'
  BY <1>1, <1>2, PopDerefs DEF FifoInv
<1>4. /\ a \notin Before(Consumer) /\ a = Aim(Consumer) /\ popping = Decides(a)
      /\ \A e : Weight(a, e) = 0
  BY <1>1, <1>2, LookAt
<1>5. PICK n \in 1 .. linked \cup {tail} :
        /\ n \in Node /\ n \in Named
        /\ \/ /\ a = [op |-> a.op, n |-> n, as |-> "pop", m |-> head]
              /\ n = tail \/ (n \in InUse /\ n <= linked /\ n \in Entries)
           \/ \E e : a = [op |-> a.op, n |-> n, as |-> "succ", m |-> e] /\ Out(e)
  BY <1>1, <1>2, LookAt
\* Whatever does not change what is decided, and keeps no reference.
<1>6. ASSUME NEW g, Then(Consumer, <<g>>), PopOp(g), \A e : Weight(g, e) = 0,
             Decides(g) = Decides(a), \A e : Marked(a, e) => Marked(g, e),
             g.op = "return" => g.n < First
      PROVE  FifoInv' /\ Stutters
  <2>1. GoesTo(g)
    BY <1>2, <1>4, <1>6 DEF GoesTo
  <2>2. \A e \in InUse : Weight(g, e) = Weight(It(Consumer), e)
    BY <1>1, <1>4, <1>6
  <2> QED BY <1>1, <1>2, <1>3, <1>4, <1>6, <2>1, <2>2, PopMovesOn
<1>7. ASSUME NEW o \in Looks, Then(Consumer, <<[a EXCEPT !.op = o]>>) PROVE FifoInv' /\ Stutters
  <2>1. PICK g : g = [a EXCEPT !.op = o]
    OBVIOUS
  <2>2. CASE a = [op |-> a.op, n |-> n, as |-> "pop", m |-> head]
    <3>1. g = [op |-> o, n |-> n, as |-> "pop", m |-> head]
      BY <2>1, <2>2
    <3>2. Decides(g) = Decides(a) /\ \A e : Marked(a, e) => Marked(g, e)
      BY <3>1, <2>2, <1>2, Decisions, Marks
    <3>3. g.op \in Looks /\ g.as = "pop"
      BY <3>1
    <3>4. PopOp(g) /\ g.op # "return" /\ \A e : Weight(g, e) = 0
      BY <3>3, NoWeight DEF PopOp, Looks
    <3> QED BY <2>1, <3>2, <3>4, <1>6, <1>7
  <2>3. ASSUME NEW e, a = [op |-> a.op, n |-> n, as |-> "succ", m |-> e] PROVE FifoInv' /\ Stutters
    <3>1. g = [op |-> o, n |-> n, as |-> "succ", m |-> e]
      BY <2>1, <2>3
    <3>2. Decides(g) = Decides(a) /\ \A y : Marked(a, y) => Marked(g, y)
      BY <3>1, <2>3, <1>2, Decisions, Marks
    <3>3. g.op \in Looks /\ g.as = "succ"
      BY <3>1
    <3>4. PopOp(g) /\ g.op # "return" /\ \A y : Weight(g, y) = 0
      BY <3>3, NoWeight DEF PopOp, Looks
    <3> QED BY <2>1, <3>2, <3>4, <1>6, <1>7
  <2> QED BY <2>2, <2>3, <1>5
<1>8. CASE DerefDelete(Consumer)
  <2>1. PICK o \in Looks : Then(Consumer, <<[a EXCEPT !.op = o]>>)
    BY <1>1, <1>8 DEF DerefDelete, Looks
  <2> QED BY <2>1, <1>7
<1>9. CASE DerefCount(Consumer)
  <2>1. a.n = n
    BY <1>5
  <2>2. Then(Consumer, IF count[n] = 0 THEN Failed(a.as, a.m) ELSE <<[a EXCEPT !.op = "claim"]>>)
    BY <1>1, <1>9, <2>1 DEF DerefCount
  <2>3. CASE count[n] # 0
    <3>1. "claim" \in Looks /\ Then(Consumer, <<[a EXCEPT !.op = "claim"]>>)
      BY <2>2, <2>3 DEF Looks
    <3> QED BY <3>1, <1>7
  <2>4. CASE count[n] = 0 /\ a = [op |-> a.op, n |-> n, as |-> "pop", m |-> head]
    <3>1. n = tail
      <4>1. n \in InUse /\ n <= linked => count[n] >= 1
        BY CountPositive
      <4> QED BY <4>1, <2>4, <1>5
    <3>2. PICK g : g = Op("return", NULL, NULL)
      OBVIOUS
    <3>3. Then(Consumer, <<g>>)
      BY <2>2, <2>4, <3>2 DEF Failed
    <3>4. Decides(g) = Decides(a)
      BY <2>4, <3>1, <3>2, <1>2, Decisions
    <3>5. \A e : ~Marked(a, e)
      BY <2>4, <1>2, Marks
    <3>6. g.op = "return" /\ g.n = NULL
      BY <3>2 DEF Op
    <3>7. NULL < First
      BY <1>3, FirstBounds
    <3>8. PopOp(g) /\ \A e : Weight(g, e) = 0
      BY <3>6, NoWeight DEF PopOp
    <3> QED BY <3>3, <3>4, <3>5, <3>6, <3>7, <3>8, <1>6
  <2>5. ASSUME count[n] = 0, NEW e, a = [op |-> a.op, n |-> n, as |-> "succ", m |-> e]
        PROVE  FifoInv' /\ Stutters
    <3>1. PICK g : g = Deref("next", e, "succ", e)
      OBVIOUS
    <3>2. Then(Consumer, <<g>>)
      BY <2>2, <2>5, <3>1 DEF Failed, PopSucc
    <3>3. Decides(g) = Decides(a) /\ \A y : Marked(a, y) => Marked(g, y)
      BY <2>5, <3>1, <1>2, Decisions, Marks
    <3>4. g.op = "deref"
      BY <3>1 DEF Deref
    <3>5. PopOp(g) /\ g.op # "return" /\ \A y : Weight(g, y) = 0
      BY <3>4, NoWeight DEF PopOp
    <3> QED BY <3>2, <3>3, <3>5, <1>6
  <2> QED BY <2>3, <2>4, <2>5, <1>5
<1> QED BY <1>8, <1>9

LEMMA FifoPopClaims ==
  ASSUME FifoInv, DerefClaim(Consumer), It(Consumer).as \in {"pop", "succ"}
  PROVE  FifoInv' /\ Stutters
<1>1. PICK a : a = It(Consumer)
  OBVIOUS
<1>2. /\ todo[Consumer] # <<>> /\ a.op \in Looks /\ UNCHANGED <<link, made, last>>
      /\ popping' = popping /\ Consumer \in Threads
  BY <1>1 DEF DerefClaim, At, It, Looks, Threads
<1>3. LinkInv /\ LinkInv'
  BY <1>1, <1>2, PopDerefs DEF FifoInv
<1>4. /\ a \notin Before(Consumer) /\ a = Aim(Consumer) /\ popping = Decides(a)
      /\ \A e : Weight(a, e) = 0
  BY <1>1, <1>2, LookAt
<1>5. PICK n \in 1 .. linked \cup {tail} :
        /\ n \in Node /\ n \in Named
        /\ \/ /\ a = [op |-> a.op, n |-> n, as |-> "pop", m |-> head]
              /\ n = tail \/ (n \in InUse /\ n <= linked /\ n \in Entries)
           \/ \E e : a = [op |-> a.op, n |-> n, as |-> "succ", m |-> e] /\ Out(e)
  BY <1>1, <1>2, LookAt
<1>6. a.n = n
  BY <1>5
<1>7. count' = [count EXCEPT ![n] = @ + 1] /\ Then(Consumer, Acquired(a.as, a.m, n))
  BY <1>1, <1>6 DEF DerefClaim
<1>8. ASSUME NEW Y, NEW new \in Seq(Y), Then(Consumer, new), NEW B, NEW g, Toward(new, B, g),
             Harmless(Y), Paired(new), Decides(g) = Decides(a), \A e : Marked(a, e) => Marked(g, e),
             g.op = "return" => g.n < First, \A e \in InUse : Net(new, e) = One(n, {e})
      PROVE  FifoInv' /\ Stutters
  <2>1. todo'[Consumer] = new /\ todo'[Producer] = todo[Producer]
    BY <1>1, <1>2, <1>3, <1>4, <1>8, LastDone DEF Threads, Producer, Consumer
  <2>2. Aim(Consumer)' = g
    BY <2>1, <1>2, <1>8, NewAim
  <2>3. GoesTo(g)
    BY <1>2, <1>4, <1>8 DEF GoesTo
  <2>4. Pays(Consumer, new) /\ count' \in [Node -> Int]
    <3>1. \A e \in InUse : Net(new, e) = One(n, {e}) /\ Weight(It(Consumer), e) = 0
      BY <1>1, <1>4, <1>8
    <3>2. link' = link
      BY <1>2
    <3> QED BY <1>2, <1>5, <1>7, <3>1, <3>2, Claiming
  <2>5. Reached
    <3>1. made' = made /\ link' = link
      BY <1>2
    <3>2. linked' = linked /\ linked \in Nat
      BY <1>3, <2>1, <3>1, ProducerStays, FirstBounds
    <3>3. linked <= linked'
      BY <3>2
    <3> QED BY <1>3, <3>1, <3>3, NamesReached
  <2>6. link'["next"] = link["next"] /\ UNCHANGED <<made, last>>
    BY <1>2
  <2> QED BY <1>1, <1>2, <1>3, <1>4, <1>8, <2>2, <2>3, <2>4, <2>5, <2>6, PopKeeps
<1>9. ASSUME NEW g, Then(Consumer, <<g>>), g.op \in {"first", "unprev"}, PopOp(g),
             Decides(g) = Decides(a), \A e : Marked(a, e) => Marked(g, e),
             \A e \in InUse : Weight(g, e) = One(n, {e})
      PROVE  FifoInv' /\ Stutters
  <2>1. PICK Y, new : Y = {g} /\ new = <<g>>
    OBVIOUS
  <2>2. new \in Seq(Y) /\ Then(Consumer, new)
    BY <2>1, <1>9
  <2>3. Toward(new, {}, g)
    BY <2>1, TowardTuples
  <2>4. Harmless(Y) /\ Paired(new)
    <3>1. \A i \in 1 .. Len(new) : new[i] = g
      BY <2>1
    <3> QED BY <2>1, <3>1, <1>9, PopOps DEF Harmless, Paired
  <2>5. \A e \in InUse : Net(new, e) = One(n, {e})
    <3>1. ASSUME NEW e \in InUse PROVE Net(new, e) = One(n, {e})
      <4>1. Net(<<g>>, e) = Weight(g, e) /\ Weight(g, e) = One(n, {e})
        BY <1>9, Nets
      <4> QED BY <2>1, <4>1
    <3> QED BY <3>1
  <2>6. g.op # "return"
    BY <1>9
  <2> QED BY <2>2, <2>3, <2>4, <2>5, <2>6, <1>8, <1>9
<1>10. CASE a = [op |-> a.op, n |-> n, as |-> "pop", m |-> head] /\ n # tail
  <2>1. PICK g : g = Op("first", n, n)
    OBVIOUS
  <2>2. Then(Consumer, <<g>>)
    BY <1>7, <1>10, <2>1 DEF Acquired
  <2>3. g.op = "first"
    BY <2>1 DEF Op
  <2>4. PopOp(g)
    BY <2>3 DEF PopOp
  <2>5. Decides(g) = Decides(a) /\ \A e : Marked(a, e) => Marked(g, e)
    BY <1>2, <1>10, <2>1, Decisions, Marks
  <2>6. \A e \in InUse : Weight(g, e) = One(n, {e})
    BY <1>3, <1>5, <2>1, InUseNode, Weights
  <2> QED BY <2>2, <2>3, <2>4, <2>5, <2>6, <1>9
<1>11. ASSUME NEW y, a = [op |-> a.op, n |-> n, as |-> "succ", m |-> y], Out(y)
       PROVE  FifoInv' /\ Stutters
  <2>1. PICK g : g = Op("unprev", y, n)
    OBVIOUS
  <2>2. Then(Consumer, <<g>>)
    BY <1>7, <1>11, <2>1 DEF Acquired
  <2>3. g.op = "unprev"
    BY <2>1 DEF Op
  <2>4. PopOp(g)
    BY <2>3 DEF PopOp
  <2>5. Decides(g) = Decides(a) /\ \A e : Marked(a, e) => Marked(g, e)
    BY <1>2, <1>11, <2>1, Decisions, Marks
  <2>6. y \in Node
    BY <1>3, <1>11, Bounds DEF Out
  <2>7. \A e \in InUse : Weight(g, e) = One(n, {e})
    BY <1>3, <1>5, <2>1, <2>6, InUseNode, Weights
  <2> QED BY <2>2, <2>3, <2>4, <2>5, <2>7, <1>9
<1>12. CASE a = [op |-> a.op, n |-> n, as |-> "pop", m |-> head] /\ n = tail
  <2>1. PICK r, g : r = Release(tail) /\ g = Op("return", NULL, NULL)
    OBVIOUS
  <2>2. Then(Consumer, <<r, g>>)
    BY <1>7, <1>12, <2>1 DEF Acquired
  <2>3. PICK Y, new : Y = {r, g} /\ new = <<r, g>>
    OBVIOUS
  <2>4. new \in Seq(Y) /\ Then(Consumer, new)
    BY <2>2, <2>3
  <2>5. Toward(new, {r}, g)
    BY <2>3, TowardTuples
  <2>6. r \in Counting /\ r.n = tail /\ r.op = "release" /\ g.op = "return" /\ g.n = NULL
    BY <2>1, Sentinels, CountingType DEF Release, Op
  <2>7. PopOp(g)
    BY <2>6 DEF PopOp
  <2>8. Harmless(Y)
    <3>1. tail \in Named'
      BY DEF Named
    <3>2. r \notin Unnamed' /\ g \notin Unnamed'
      BY <3>1, <2>6, <2>7, Nameless, PopOps
    <3> QED BY <2>3, <3>2 DEF Harmless
  <2>9. Paired(new)
    <3>1. \A i \in 1 .. Len(new) : new[i] = r \/ new[i] = g
      BY <2>3
    <3>2. \A e : r \notin Takes(e)
      BY <2>6 DEF Takes, Looks
    <3> QED BY <3>1, <3>2, <2>7, PopOps DEF Paired
  <2>10. Decides(g) = Decides(a) /\ \A e : Marked(a, e) => Marked(g, e)
    BY <1>2, <1>12, <2>1, Decisions, Marks
  <2>11. g.op = "return" => g.n < First
    BY <2>6, <1>3, FirstBounds
  <2>12. \A e \in InUse : Net(new, e) = One(n, {e})
    <3>1. ASSUME NEW e \in InUse PROVE Net(new, e) = One(n, {e})
      <4>1. Net(<<r, g>>, e) = Weight(r, e) + Weight(g, e)
        BY Nets
      <4>2. Weight(g, e) = 0
        BY <2>6, NoWeight
      <4>3. e \in Node
        BY <1>3, InUseNode
      <4>4. Weight(Release(tail), e) = One(tail, {e})
        BY <4>3, Sentinels, Weights
      <4>5. One(tail, {e}) \in Int
        BY DEF One
      <4> QED BY <1>12, <2>1, <2>3, <4>1, <4>2, <4>4, <4>5
    <3> QED BY <3>1
  <2> QED BY <2>4, <2>5, <2>8, <2>9, <2>10, <2>11, <2>12, <1>8
<1> QED BY <1>5, <1>10, <1>11, <1>12

LEMMA TwoTuple ==
  ASSUME NEW a, NEW b
  PROVE  <<a>> \o <<b>> = <<a, b>>
<1>1. <<a>> \in Seq({a, b}) /\ b \in {a, b} /\ <<a, b>> = Append(<<a>>, b)
  OBVIOUS
<1> QED BY <1>1, AppendIsConcat

\* What single instructions of pop keep, decide and have marked.
LEMMA PopWeights ==
  ASSUME NEW n \in Node, NEW m \in Node \cup {NULL}, NEW e
  PROVE  /\ \A o \in {"first", "peek", "marknext"} : Weight(Op(o, n, m), e) = One(n, {e})
         /\ \A o \in {"prev", "markprev"} : Weight(Op(o, n, m), e) = 0
         /\ \A o \in {"unprev", "unlink"} : Weight(Op(o, n, m), e) = One(m, {e})
<1>1. ASSUME NEW o \in {"first", "peek", "marknext", "prev", "markprev", "unprev", "unlink"}
      PROVE  Op(o, n, m) \notin Takes(e)
  BY DEF Takes, Looks, Op
<1>2. ASSUME NEW o \in {"first", "peek", "marknext"} PROVE Op(o, n, m) \in Owes(e) <=> n = e
  BY DEF Owes, Op
<1>3. ASSUME NEW o \in {"unprev", "unlink"} PROVE Op(o, n, m) \in Owes(e) <=> m = e
  BY DEF Owes, Op
<1>4. ASSUME NEW o \in {"prev", "markprev"} PROVE Op(o, n, m) \notin Owes(e)
  BY DEF Owes, Op
<1> QED BY <1>1, <1>2, <1>3, <1>4 DEF Weight, One

Follows(a, g) == Decides(g) = Decides(a) /\ \A e : Marked(a, e) => Marked(g, e)

LEMMA PopFollows ==
  ASSUME NEW o, NEW n, NEW m
  PROVE  /\ o \in {"first", "peek", "marknext"} =>
              /\ Follows(Op(o, n, m), Deref("next", head, "pop", head))
              /\ \A p \in {"first", "peek", "marknext"} : \A x : Follows(Op(o, n, m), Op(p, n, x))
         /\ o \in {"prev", "markprev", "unprev"} =>
              /\ Follows(Op(o, n, m), Deref("next", n, "succ", n))
              /\ \A p \in {"prev", "markprev", "unlink"} : \A x : Follows(Op(o, n, m), Op(p, n, x))
<1>1. ASSUME o \in {"first", "peek", "marknext"}
      PROVE  /\ Follows(Op(o, n, m), Deref("next", head, "pop", head))
             /\ \A p \in {"first", "peek", "marknext"} : \A x : Follows(Op(o, n, m), Op(p, n, x))
  <2>1. Decides(Op(o, n, m)) = Undecided /\ \A e : ~Marked(Op(o, n, m), e)
    BY <1>1, Decisions, Marks
  <2>2. \A p \in {"first", "peek", "marknext"} : \A x : Decides(Op(p, n, x)) = Undecided
    BY Decisions
  <2>3. Decides(Deref("next", head, "pop", head)) = Undecided
    BY Decisions
  <2> QED BY <2>1, <2>2, <2>3 DEF Follows
<1>2. ASSUME o \in {"prev", "markprev", "unprev"}
      PROVE  /\ Follows(Op(o, n, m), Deref("next", n, "succ", n))
             /\ \A p \in {"prev", "markprev", "unlink"} : \A x : Follows(Op(o, n, m), Op(p, n, x))
  <2>1. Decides(Op(o, n, m)) = n /\ \A e : Marked(Op(o, n, m), e) => e = n
    BY <1>2, Decisions, Marks
  <2>2. \A p \in {"prev", "markprev", "unlink"} : \A x : Decides(Op(p, n, x)) = n /\ Marked(Op(p, n, x), n)
    BY Decisions, Marks
  <2>3. Decides(Deref("next", n, "succ", n)) = n /\ Marked(Deref("next", n, "succ", n), n)
    BY Decisions, Marks
  <2> QED BY <2>1, <2>2, <2>3 DEF Follows
<1> QED BY <1>1, <1>2

\* pop is at a test or at a CAS, on the first entry of the list.
PopOn(a, o, n, m) ==
  /\ a = Op(o, n, m) /\ o = a.op /\ n = a.n /\ m = a.m
  /\ n \in 1 .. linked /\ n \in Entries /\ n \in Node /\ n \in Named
  /\ n = First /\ link["next"][head] = Ptr(n) /\ m \in Node \cup {NULL}
  /\ o \in {"unprev", "unlink"} =>
       m \in Node /\ m \in Named /\ m \in 1 .. linked \cup {tail} /\ link["next"][n] = MarkOn(Ptr(m))

LEMMA PopPlace ==
  ASSUME FifoInv, todo[Consumer] # <<>>,
         It(Consumer).op \in {"first", "peek", "marknext", "prev", "markprev", "unprev", "unlink"}
  PROVE  /\ It(Consumer) \notin Before(Consumer) /\ It(Consumer) = Aim(Consumer) /\ PopAt(It(Consumer))
         /\ popping = Decides(It(Consumer))
         /\ PopOn(It(Consumer), It(Consumer).op, It(Consumer).n, It(Consumer).m)
<1>1. PICK a, o, n, m : a = It(Consumer) /\ o = a.op /\ n = a.n /\ m = a.m
  OBVIOUS
<1>2. LinkInv /\ DecidedInv
  BY DEF FifoInv
<1>3. a \notin Before(Consumer)
  BY <1>1, BeforeOps, CountingOps DEF Looks, Threads, Producer, Consumer
<1>4. PopAt(a) /\ a = Aim(Consumer) /\ a \in PopAims
  BY <1>1, <1>2, <1>3, PopHead DEF PopAt
<1>5. popping = Decides(a)
  BY <1>2, <1>4 DEF DecidedInv
<1>6. a = Op(o, n, m) /\ m \in Node \cup {NULL} /\ n \in 1 .. linked
  <2>1. a \in [op : {"first", "peek", "marknext", "prev", "markprev", "unprev", "unlink"},
               n : 1 .. linked, m : Node \cup {NULL}]
    BY <1>1, <1>4 DEF PopAims, Looks, Deref
  <2> QED BY <1>1, <2>1 DEF Op
<1>7. link["next"][head] = Ptr(n)
  <2>1. n \in Entries /\ Taking(a, n)
    BY <1>1, <1>2, <1>6, Bounds DEF Taking
  <2> QED BY <1>4, <2>1 DEF PopAt
<1>8. /\ linked \in Nat /\ linked <= made /\ made \in Nat /\ n = First
      /\ \A e \in 1 .. made : e \in Entries /\ e \in Node
  BY <1>2, <1>6, <1>7, FirstBounds
<1>9. n \in Entries /\ n \in Node /\ n \in Named
  BY <1>6, <1>8 DEF Named
<1>10. o \in {"unprev", "unlink"} =>
         m \in Node /\ m \in Named /\ m \in 1 .. linked \cup {tail} /\ link["next"][n] = MarkOn(Ptr(m))
  <2>1. \A x \in 1 .. linked \cup {tail} : x \in Node /\ x \in Named
    BY <1>8, Sentinels DEF Named
  <2> QED BY <2>1, <1>1, <1>2, <1>4, PopPlaces
<1>11. PopOn(a, o, n, m)
  BY <1>1, <1>6, <1>7, <1>8, <1>9, <1>10 DEF PopOn
<1> QED BY <1>1, <1>3, <1>4, <1>5, <1>11

\* A test, or a CAS that fails.
LEMMA FifoPopTests ==
  ASSUME FifoInv, UNCHANGED link,
         \/ PopFirst \/ PopPeek \/ PopMarkNext \/ PopReadPrev \/ PopMarkPrev \/ PopUnlinkPrev,
         PopMarkNext => link["next"][It(Consumer).n] # Ptr(It(Consumer).m),
         PopMarkPrev => link["prev"][It(Consumer).n] # Ptr(It(Consumer).m),
         PopUnlinkPrev => link["prev"][It(Consumer).m] # Ptr(It(Consumer).n)
  PROVE  FifoInv' /\ Stutters
<1>1. PICK a : a = It(Consumer)
  OBVIOUS
<1>2. /\ todo[Consumer] # <<>> /\ UNCHANGED <<link, made, last, count>>
      /\ a.op \in {"first", "peek", "marknext", "prev", "markprev", "unprev"}
      /\ popping' = popping
  BY <1>1 DEF PopFirst, PopPeek, PopMarkNext, PopReadPrev, PopMarkPrev, PopUnlinkPrev, At, It, refs
<1>3. LinkInv /\ LinkInv'
  BY <1>1, <1>2, PopReads DEF FifoInv
<1>4. PICK o, n, m : o = a.op /\ n = a.n /\ m = a.m
  OBVIOUS
<1>16. PopOn(a, o, n, m)
  BY <1>1, <1>2, <1>4, PopPlace
<1>17. a = Op(o, n, m) /\ n \in Node /\ n \in Named /\ m \in Node \cup {NULL}
  BY <1>16 DEF PopOn
<1>5. a \notin Before(Consumer) /\ a = Aim(Consumer) /\ popping = Decides(a)
  BY <1>1, <1>2, PopPlace
<1>6. ASSUME NEW g, Then(Consumer, <<g>>), PopOp(g), g.op # "return", Follows(a, g),
             \A e \in InUse : Weight(g, e) = Weight(a, e)
      PROVE  FifoInv' /\ Stutters
  <2>1. GoesTo(g)
    BY <1>2, <1>5, <1>6 DEF GoesTo, Follows
  <2> QED BY <1>1, <1>2, <1>3, <1>5, <1>6, <2>1, PopMovesOn
<1>7. ASSUME NEW x \in Node, x \in Named, NEW g, g.op = "deref", Then(Consumer, <<Release(x)>> \o <<g>>),
             Follows(a, g),
             \A e \in InUse : Weight(a, e) = One(x, {e})
      PROVE  FifoInv' /\ Stutters
  <2>1. <<Release(x)>> \o <<g>> = <<Release(x), g>>
    BY TwoTuple
  <2>2. Then(Consumer, <<Release(x), g>>)
    BY <1>7, <2>1
  <2>3. GoesTo(g)
    BY <1>2, <1>5, <1>7 DEF GoesTo, Follows
  <2>4. PopOp(g) /\ \A e \in InUse : Weight(g, e) = 0 /\ Weight(It(Consumer), e) = One(x, {e})
    BY <1>1, <1>7, NoWeight DEF PopOp
  <2> QED BY <1>1, <1>2, <1>3, <1>5, <1>7, <2>2, <2>3, <2>4, PopLetsGo
<1>8. ASSUME o \in {"first", "peek", "marknext"}, Then(Consumer, PopAgain(n)) PROVE FifoInv' /\ Stutters
  <2>1. PICK g : g = Deref("next", head, "pop", head)
    OBVIOUS
  <2>2. Then(Consumer, <<Release(n)>> \o <<g>>)
    BY <1>8, <2>1 DEF PopAgain, PopLoop
  <2>3. g.op = "deref"
    BY <2>1 DEF Deref
  <2>4. Follows(a, g)
    BY <1>17, <1>8, <2>1, PopFollows
  <2>5. \A e \in InUse : Weight(a, e) = One(n, {e})
    BY <1>8, <1>17, PopWeights, ZenonT(60)
  <2> QED BY <1>7, <1>17, <2>2, <2>3, <2>4, <2>5
<1>9. CASE PopFirst
  <2>1. Then(Consumer, <<Op("peek", n, n)>>) \/ Then(Consumer, PopAgain(n))
    BY <1>1, <1>4, <1>9 DEF PopFirst
  <2>2. o = "first"
    BY <1>1, <1>4, <1>9 DEF PopFirst, At, It
  <2>3. PICK g : g = Op("peek", n, n)
    OBVIOUS
  <2>4. g.op = "peek"
    BY <2>3 DEF Op
  <2>5. Follows(a, g)
    BY <1>17, <2>2, <2>3, PopFollows
  <2>6. PopOp(g)
    BY <2>4 DEF PopOp
  <2>7. \A e \in InUse : Weight(g, e) = Weight(a, e)
    <3>0. n \in Node \cup {NULL} /\ n \in Node
      BY <1>17
    <3>1. \A e : Weight(Op("peek", n, n), e) = One(n, {e})
      BY <3>0, PopWeights
    <3>2. \A e : Weight(Op("first", n, m), e) = One(n, {e})
      BY <1>17, PopWeights
    <3> QED BY <3>1, <3>2, <1>17, <2>2, <2>3
  <2> QED BY <1>6, <1>8, <2>1, <2>2, <2>3, <2>4, <2>5, <2>6, <2>7
<1>10. CASE PopPeek
  <2>1. PICK x : x = link["next"][n].to
    OBVIOUS
  <2>2. Then(Consumer, PopAgain(n)) \/ (x # NULL /\ Then(Consumer, <<Op("marknext", n, x)>>))
    BY <1>1, <1>4, <1>10, <2>1 DEF PopPeek
  <2>3. o = "peek"
    BY <1>1, <1>4, <1>10 DEF PopPeek, At, It
  <2>4. x # NULL => x \in Node
    <3>1. link["next"][n] \in Ptrs
      BY <1>3, <1>17 DEF LinkInv
    <3> QED BY <2>1, <3>1 DEF Ptrs
  <2>5. PICK g : g = Op("marknext", n, x)
    OBVIOUS
  <2>6. g.op = "marknext"
    BY <2>5 DEF Op
  <2>7. Follows(a, g)
    BY <1>17, <2>3, <2>5, PopFollows
  <2>8. PopOp(g)
    BY <2>6 DEF PopOp
  <2>9. x # NULL => \A e \in InUse : Weight(g, e) = Weight(a, e)
    <3>0. x \in Node => x \in Node \cup {NULL}
      OBVIOUS
    <3>1. ASSUME x \in Node \cup {NULL} PROVE \A e : Weight(Op("marknext", n, x), e) = One(n, {e})
      BY <1>17, <3>1, PopWeights
    <3>2. \A e : Weight(Op("peek", n, m), e) = One(n, {e})
      BY <1>17, PopWeights
    <3> QED BY <3>0, <3>1, <3>2, <1>17, <2>3, <2>4, <2>5
  <2> QED BY <1>6, <1>8, <2>2, <2>3, <2>5, <2>6, <2>7, <2>8, <2>9
<1>11. CASE PopMarkNext
  <2>1. Then(Consumer, PopAgain(n))
    BY <1>1, <1>4, <1>11 DEF PopMarkNext
  <2>2. o = "marknext"
    BY <1>1, <1>4, <1>11 DEF PopMarkNext, At, It
  <2> QED BY <1>8, <2>1, <2>2
<1>12. ASSUME o \in {"prev", "markprev"}, NEW p \in {"prev", "markprev"}, NEW x,
              Then(Consumer, <<Op(p, n, x)>>)
       PROVE  FifoInv' /\ Stutters
  <2>1. PICK g : g = Op(p, n, x)
    OBVIOUS
  <2>2. g.op = p
    BY <2>1 DEF Op
  <2>3. Follows(a, g)
    BY <1>17, <1>12, <2>1, PopFollows
  <2>4. PopOp(g) /\ g.op # "return"
    BY <2>2 DEF PopOp
  <2>5. \A e \in InUse : Weight(g, e) = Weight(a, e)
    <3>1. \A e : Weight(g, e) = 0
      BY <2>2, NoWeight
    <3>2. \A e : Weight(a, e) = 0
      BY <1>4, <1>12, NoWeight
    <3> QED BY <3>1, <3>2
  <2> QED BY <1>6, <1>12, <2>1, <2>3, <2>4, <2>5
<1>13. CASE PopReadPrev
  <2>1. PICK x : x = link["prev"][n].to
    OBVIOUS
  <2>2. Then(Consumer, <<Op("prev", n, x)>>) \/ Then(Consumer, <<Op("markprev", n, x)>>)
    BY <1>1, <1>4, <1>13, <2>1 DEF PopReadPrev
  <2>3. o = "prev"
    BY <1>1, <1>4, <1>13 DEF PopReadPrev, At, It
  <2> QED BY <1>12, <2>2, <2>3
<1>14. CASE PopMarkPrev
  <2>1. Then(Consumer, <<Op("prev", n, n)>>)
    BY <1>1, <1>4, <1>14 DEF PopMarkPrev
  <2>2. o = "markprev"
    BY <1>1, <1>4, <1>14 DEF PopMarkPrev, At, It
  <2> QED BY <1>12, <2>1, <2>2
<1>15. CASE PopUnlinkPrev
  <2>1. PICK g : g = Deref("next", n, "succ", n)
    OBVIOUS
  <2>2. Then(Consumer, <<Release(m)>> \o <<g>>)
    BY <1>1, <1>4, <1>15, <2>1 DEF PopUnlinkPrev, PopSucc
  <2>3. o = "unprev"
    BY <1>1, <1>4, <1>15 DEF PopUnlinkPrev, At, It
  <2>4. g.op = "deref"
    BY <2>1 DEF Deref
  <2>5. Follows(a, g)
    BY <1>17, <2>1, <2>3, PopFollows
  <2>6. \A e \in InUse : Weight(a, e) = One(m, {e})
    BY <2>3, <1>17, PopWeights
  <2>7. m \in Node /\ m \in Named
    BY <2>3, <1>16 DEF PopOn
  <2> QED BY <1>7, <2>2, <2>4, <2>5, <2>6, <2>7
<1> QED BY <1>9, <1>10, <1>11, <1>13, <1>14, <1>15

LEMMA NamedSame ==
  ASSUME linked' = linked
  PROVE  Named' = Named
BY DEF Named, tail, NULL

\* A CAS of pop on a prev link that succeeds.
LEMMA PopRelinks ==
  ASSUME FifoInv, LinkInv', todo[Consumer] # <<>>, It(Consumer) \notin Before(Consumer),
         It(Consumer) = Aim(Consumer), popping = Decides(It(Consumer)),
         UNCHANGED <<made, last, count, popping>>,
         NEW x \in Node, NEW p \in Ptrs, Relinked("prev", x, p), p.to \in Named,
         NEW Y, NEW new \in Seq(Y), Then(Consumer, new), Paired(new),
         linked' = linked => Harmless(Y),
         NEW B, NEW g, Toward(new, B, g), g.op # "return", Follows(It(Consumer), g),
         \A e \in InUse : Net(new, e) = Weight(It(Consumer), e) + One(link["prev"][x].to, {e}) - One(p.to, {e})
  PROVE  FifoInv' /\ Stutters
<1>1. LinkInv /\ NamedInv /\ count \in [Node -> Int] /\ Consumer \in Threads
  BY DEF FifoInv, Threads
<1>2. /\ link'["prev"][x] = p
      /\ \A y \in Node : y # x => link'["prev"][y] = link["prev"][y]
      /\ link'["next"] = link["next"]
      /\ \A e : Shifted(e, link["prev"][x].to, p.to)
  BY <1>1, Relinks
<1>3. todo'[Consumer] = new /\ todo'[Producer] = todo[Producer]
  BY <1>1, LastDone DEF Threads, Producer, Consumer
<1>4. Aim(Consumer)' = g
  BY <1>1, <1>3, NewAim
<1>5. linked' = linked
  <2>1. made' = made
    OBVIOUS
  <2> QED BY <1>1, <1>3, <2>1, ProducerStays
<1>6. Named' = Named
  BY <1>5, NamedSame
<1>7. Reached
  <2>1. \A f \in {"next", "prev"}, n \in Node : link'[f][n].to \in Named
    BY <1>1, <1>2 DEF NamedInv
  <2> QED BY <1>6, <2>1 DEF Reached
<1>8. Pays(Consumer, new)
  <2>1. PICK from, to : from = link["prev"][x].to /\ to = p.to
    OBVIOUS
  <2>2. Covers(Consumer, new, from, to)
    BY <2>1 DEF Covers
  <2>3. \A e : Shifted(e, from, to)
    BY <2>1, <1>2
  <2>4. count' = count
    OBVIOUS
  <2> QED BY <2>2, <2>3, <2>4, <1>1, Paying
<1>9. GoesTo(g)
  BY DEF GoesTo, Follows
<1>10. count' \in [Node -> Int] /\ UNCHANGED <<made, last>> /\ popping' = popping
  BY <1>1
<1>11. Harmless(Y)
  BY <1>5
<1> QED BY <1>2, <1>4, <1>7, <1>8, <1>9, <1>10, <1>11, PopKeeps

LEMMA FifoPopMarksPrev ==
  ASSUME FifoInv, PopMarkPrev, link["prev"][It(Consumer).n] = Ptr(It(Consumer).m)
  PROVE  FifoInv' /\ Stutters
<1>1. PICK a, n, m : a = It(Consumer) /\ n = a.n /\ m = a.m
  OBVIOUS
<1>2. /\ todo[Consumer] # <<>> /\ a.op = "markprev" /\ UNCHANGED <<made, last, count, popping>>
  BY <1>1 DEF PopMarkPrev, At, It, refs
<1>3. LinkInv /\ LinkInv' /\ NamedInv
  BY PopMarksPrev DEF FifoInv
<1>4. PopOn(a, "markprev", n, m) /\ a \notin Before(Consumer) /\ a = Aim(Consumer) /\ popping = Decides(a)
  BY <1>1, <1>2, PopPlace
<1>5. a = Op("markprev", n, m) /\ n \in Node /\ m \in Node \cup {NULL}
  BY <1>4 DEF PopOn
<1>6. PICK p : p = MarkOn(Ptr(m))
  OBVIOUS
<1>7. p \in Ptrs /\ p.to = m /\ Ptr(m).to = m
  BY <1>5, <1>6, PtrTypes
<1>8. link["prev"][n].to = m /\ m \in Named
  <2>1. link["prev"][n].to = m
    BY <1>1, <1>7
  <2> QED BY <2>1, <1>3, <1>5 DEF NamedInv
<1>9. PICK g : g = Deref("next", n, "succ", n)
  OBVIOUS
<1>10. Relinked("prev", n, p) /\ Then(Consumer, <<g>>)
  BY <1>1, <1>6, <1>9 DEF PopMarkPrev, Cas, PopSucc, Relinked
<1>11. PICK new, Y : new = <<g>> /\ Y = {g}
  OBVIOUS
<1>12. new \in Seq(Y) /\ Then(Consumer, new) /\ Toward(new, {}, g)
  BY <1>10, <1>11, TowardTuples
<1>13. g.op = "deref"
  BY <1>9 DEF Deref
<1>14. PopOp(g) /\ g.op # "return"
  BY <1>13 DEF PopOp
<1>15. Harmless(Y) /\ Paired(new)
  <2>1. \A i \in 1 .. Len(new) : new[i] = g
    BY <1>11
  <2> QED BY <2>1, <1>11, <1>14, PopOps DEF Harmless, Paired
<1>16. Follows(a, g)
  BY <1>5, <1>9, PopFollows
<1>17. ASSUME NEW e \in InUse
       PROVE  Net(new, e) = Weight(a, e) + One(link["prev"][n].to, {e}) - One(p.to, {e})
  <2>1. Net(<<g>>, e) = Weight(g, e)
    BY Nets
  <2>2. Weight(g, e) = 0 /\ Weight(a, e) = 0
    BY <1>2, <1>13, NoWeight
  <2>3. One(m, {e}) \in Int
    BY DEF One
  <2> QED BY <2>1, <2>2, <2>3, <1>7, <1>8, <1>11
<1>18. p.to \in Named
  BY <1>7, <1>8
<1>19. /\ It(Consumer) \notin Before(Consumer) /\ It(Consumer) = Aim(Consumer) /\ popping = Decides(It(Consumer))
       /\ Follows(It(Consumer), g)
       /\ \A e \in InUse : Net(new, e) = Weight(It(Consumer), e) + One(link["prev"][n].to, {e}) - One(p.to, {e})
  BY <1>1, <1>4, <1>16, <1>17
<1> QED BY <1>2, <1>3, <1>5, <1>7, <1>10, <1>12, <1>14, <1>15, <1>18, <1>19, PopRelinks

\* The reference that next->prev held is given back, the one to the head counted.
LEMMA FifoPopUnlinksPrev ==
  ASSUME FifoInv, PopUnlinkPrev, link["prev"][It(Consumer).m] = Ptr(It(Consumer).n)
  PROVE  FifoInv' /\ Stutters
<1>1. PICK a, n, m : a = It(Consumer) /\ n = a.n /\ m = a.m
  OBVIOUS
<1>2. /\ todo[Consumer] # <<>> /\ a.op = "unprev" /\ UNCHANGED <<made, last, count, popping>>
  BY <1>1 DEF PopUnlinkPrev, At, It, refs
<1>3. LinkInv /\ LinkInv'
  BY PopUnlinksPrev DEF FifoInv
<1>4. PopOn(a, "unprev", n, m) /\ a \notin Before(Consumer) /\ a = Aim(Consumer) /\ popping = Decides(a)
  BY <1>1, <1>2, PopPlace
<1>5. a = Op("unprev", n, m) /\ n \in Node /\ n \in Named /\ m \in Node
  BY <1>4 DEF PopOn
<1>6. PICK p : p = Ptr(head)
  OBVIOUS
<1>7. p \in Ptrs /\ p.to = head /\ Ptr(n).to = n
  BY <1>5, <1>6, Sentinels, PtrTypes
<1>8. link["prev"][m].to = n
  BY <1>1, <1>7
<1>9. PICK r, h, g : r = Release(n) /\ h = Retain(head) /\ g = Op("unlink", n, m)
  OBVIOUS
<1>10. Relinked("prev", m, p) /\ Then(Consumer, <<r, h, g>>)
  BY <1>1, <1>6, <1>9 DEF PopUnlinkPrev, Cas, PopUnlinked, Relinked
<1>11. PICK new, Y : new = <<r, h, g>> /\ Y = {r, h, g}
  OBVIOUS
<1>12. /\ new \in Seq(Y) /\ Then(Consumer, new)
       /\ \E B : Toward(new, B, g)
  <2>1. new \in Seq(Y) /\ Then(Consumer, new)
    BY <1>10, <1>11
  <2>2. PICK B : B = {r, h}
    OBVIOUS
  <2>3. r \in B /\ h \in B
    BY <2>2
  <2>4. Toward(<<r, h, g>>, B, g)
    BY <2>3, TowardTuples
  <2> QED BY <2>1, <2>4, <1>11
<1>13. /\ r \in Counting /\ r.op = "release" /\ r.n = n
       /\ h \in Counting /\ h.op = "look" /\ h.n = head
       /\ g.op = "unlink"
  BY <1>5, <1>9, CountingType, Sentinels DEF Release, Retain, Look, Op
<1>14. PopOp(g) /\ g.op # "return"
  BY <1>13 DEF PopOp
<1>15. Paired(new)
  <2>1. \A i \in 1 .. Len(new) : new[i] = r \/ new[i] = h \/ new[i] = g
    BY <1>11
  <2>2. \A e \in Entries : r \notin Takes(e) /\ h \notin Takes(e)
    <3>1. head \notin Entries
      BY DEF head, Entries
    <3> QED BY <3>1, <1>13 DEF Takes, Looks
  <2> QED BY <2>1, <2>2, <1>14, PopOps DEF Paired
<1>16. ASSUME linked' = linked PROVE Harmless(Y)
  <2>1. Named' = Named
    BY <1>16, NamedSame
  <2>2. head \in Named
    <3>1. linked \in Nat
      BY <1>3, FirstBounds
    <3> QED BY <3>1 DEF Named, head
  <2>3. r \notin Unnamed' /\ h \notin Unnamed' /\ g \notin Unnamed'
    BY <2>1, <2>2, <1>5, <1>13, <1>14, Nameless, PopOps
  <2> QED BY <2>3, <1>11 DEF Harmless
<1>17. Follows(a, g)
  BY <1>5, <1>9, PopFollows
<1>18. ASSUME NEW e \in InUse
       PROVE  Net(new, e) = Weight(a, e) + One(link["prev"][m].to, {e}) - One(p.to, {e})
  <2>1. Net(<<r, h, g>>, e) = Weight(r, e) + Weight(h, e) + Weight(g, e)
    BY Nets, SMTT(40)
  <2>2. e \in Node /\ head \in Node
    BY <1>3, InUseNode, Sentinels
  <2>3. Weight(Release(n), e) = One(n, {e}) /\ Weight(Retain(head), e) = - One(head, {e})
    BY <2>2, <1>5, Weights
  <2>4. Weight(g, e) = One(m, {e}) /\ Weight(a, e) = One(m, {e})
    BY <2>2, <1>5, <1>9, Weights, ZenonT(60)
  <2>5. One(m, {e}) \in Int /\ One(n, {e}) \in Int /\ One(head, {e}) \in Int
    BY DEF One
  <2>6. Weight(r, e) = One(n, {e}) /\ Weight(h, e) = - One(head, {e})
    BY <2>3, <1>9
  <2> QED BY <2>1, <2>4, <2>5, <2>6, <1>7, <1>8, <1>11
<1>19. p.to \in Named
  <2>1. linked \in Nat
    BY <1>3, FirstBounds
  <2> QED BY <2>1, <1>7 DEF Named, head
<1>20. /\ It(Consumer) \notin Before(Consumer) /\ It(Consumer) = Aim(Consumer) /\ popping = Decides(It(Consumer))
       /\ Follows(It(Consumer), g)
       /\ \A e \in InUse : Net(new, e) = Weight(It(Consumer), e) + One(link["prev"][m].to, {e}) - One(p.to, {e})
  BY <1>1, <1>4, <1>17, <1>18
<1>21. PICK B : Toward(new, B, g)
  BY <1>12
<1>22. linked' = linked => Harmless(Y)
  BY <1>16
<1>23. /\ FifoInv /\ LinkInv' /\ todo[Consumer] # <<>> /\ UNCHANGED <<made, last, count, popping>>
       /\ m \in Node /\ p \in Ptrs /\ Relinked("prev", m, p) /\ g.op # "return"
       /\ new \in Seq(Y) /\ Then(Consumer, new)
  BY <1>2, <1>3, <1>5, <1>7, <1>10, <1>12, <1>14
<1> QED BY <1>15, <1>19, <1>20, <1>21, <1>22, <1>23, PopRelinks

\* The oldest entry of the queue is taken.
PopsOldest ==
  /\ popping = Undecided /\ Oldest \in 1 .. linked /\ popping' = Oldest /\ Oldest' = Oldest + 1
  /\ linked' = linked /\ Unlinked' = Unlinked /\ made' = made /\ last' = last
  /\ (todo'[Producer] = <<>>) = (todo[Producer] = <<>>)

LEMMA FifoPopMarksNext ==
  ASSUME FifoInv, PopMarkNext, link["next"][It(Consumer).n] = Ptr(It(Consumer).m)
  PROVE  FifoInv' /\ PopsOldest
<1>1. PICK a, n, m : a = It(Consumer) /\ n = a.n /\ m = a.m
  OBVIOUS
<1>2. /\ todo[Consumer] # <<>> /\ a.op = "marknext" /\ UNCHANGED <<made, last, count>> /\ Consumer \in Threads
  BY <1>1 DEF PopMarkNext, At, It, refs, Threads
<1>3. LinkInv /\ LinkInv' /\ NamedInv /\ OrderInv /\ count \in [Node -> Int]
  BY PopMarksNext DEF FifoInv
<1>4. PopOn(a, "marknext", n, m) /\ a \notin Before(Consumer) /\ a = Aim(Consumer) /\ popping = Decides(a)
  BY <1>1, <1>2, PopPlace
<1>5. /\ a = Op("marknext", n, m) /\ n \in Node /\ n \in 1 .. linked /\ n = First
      /\ link["next"][head] = Ptr(n) /\ m \in Node \cup {NULL}
  BY <1>4 DEF PopOn
<1>6. PICK p : p = MarkOn(Ptr(m))
  OBVIOUS
<1>7. p \in Ptrs /\ p.to = m /\ p.mark /\ Ptr(m).to = m /\ ~Ptr(m).mark
  BY <1>5, <1>6, PtrTypes DEF Ptr, MarkOn
<1>8. link["next"][n] = Ptr(m) /\ link["next"][n].to = m /\ ~link["next"][n].mark
  BY <1>1, <1>7
<1>9. PICK g : g = Op("prev", n, n)
  OBVIOUS
<1>10. Relinked("next", n, p) /\ Then(Consumer, <<g>>) /\ popping' = n
  BY <1>1, <1>6, <1>8, <1>9 DEF PopMarkNext, Cas, Relinked
<1>11. /\ link'["next"][n] = p
       /\ \A y \in Node : y # n => link'["next"][y] = link["next"][y]
       /\ link'["prev"] = link["prev"]
       /\ \A e : Shifted(e, m, m)
  BY <1>3, <1>5, <1>7, <1>8, <1>10, Relinks
<1>12. PICK new, Y : new = <<g>> /\ Y = {g}
  OBVIOUS
<1>13. new \in Seq(Y) /\ Then(Consumer, new)
  BY <1>10, <1>12
<1>14. Toward(new, {}, g)
  BY <1>12, TowardTuples
<1>15. todo'[Consumer] = new /\ todo'[Producer] = todo[Producer]
  BY <1>1, <1>2, <1>3, <1>4, <1>13, LastDone DEF Threads, Producer, Consumer
<1>16. Aim(Consumer)' = g
  BY <1>2, <1>14, <1>15, NewAim
<1>17. linked' = linked /\ Unlinked' = Unlinked
  <2>1. made' = made
    BY <1>2
  <2> QED BY <1>3, <1>15, <2>1, ProducerStays
<1>18. /\ linked \in Nat /\ linked <= made /\ made \in Nat /\ First \in 1 .. linked + 1
       /\ \A e \in 1 .. made : e \in Entries /\ e \in Node /\ e # tail /\ e # head /\ e # NULL
       /\ MaxPush \in Nat /\ tail = MaxPush + 1 /\ head \in Node
  BY <1>3, FirstBounds, Sentinels
<1>19. n # head
  BY <1>5, <1>18
<1>20. First' = First
  BY <1>11, <1>17, <1>18, <1>19 DEF First, head, tail
<1>21. Oldest = First
  BY <1>5, <1>8 DEF Oldest
<1>22. Oldest' = First + 1
  <2>1. First <= linked /\ link'["next"][First].mark
    BY <1>5, <1>7, <1>11
  <2> QED BY <2>1, <1>17, <1>20 DEF Oldest
<1>23. \A x \in 1 .. made : /\ x # n => link'["next"][x] = link["next"][x]
                            /\ link'["next"][x].to = link["next"][x].to
  BY <1>7, <1>8, <1>11, <1>18
<1>24. InUse' \subseteq InUse /\ n \notin InUse'
  <2>1. InUse' = {e \in First .. made : e <= linked => ~link'["next"][e].mark}
    BY <1>2, <1>17, <1>20 DEF InUse
  <2>2. n <= linked /\ link'["next"][n].mark
    BY <1>5, <1>7, <1>11
  <2>3. n \notin InUse'
    BY <2>1, <2>2
  <2>4. ASSUME NEW x \in InUse' PROVE x \in InUse
    <3>1. x \in First .. made /\ x # n /\ (x <= linked => ~link'["next"][x].mark)
      BY <2>1, <2>3, <2>4
    <3>2. x \in 1 .. made
      BY <3>1, <1>18
    <3>3. link'["next"][x] = link["next"][x]
      BY <3>1, <3>2, <1>23
    <3> QED BY <3>1, <3>3 DEF InUse
  <2> QED BY <2>3, <2>4
<1>25. OrderInv'
  <2>1. \A x \in First .. linked : x \in 1 .. made
    BY <1>18
  <2>2. \A x \in First .. linked : link'["next"][x].to = IF x < linked THEN x + 1 ELSE tail
    BY <2>1, <1>3, <1>23 DEF OrderInv
  <2>3. Marked(g, n)
    BY <1>9, Marks
  <2>4. \A x \in First .. linked : link'["next"][x].mark => x = First /\ Marked(g, x)
    <3>1. ASSUME NEW x \in First .. linked, link'["next"][x].mark, x # n PROVE FALSE
      <4>1. link["next"][x].mark
        BY <3>1, <2>1, <1>23
      <4> QED BY <3>1, <4>1, <1>3, <1>5 DEF OrderInv
    <3> QED BY <3>1, <2>3, <1>5
  <2>5. \A x \in 1 .. First - 1 : link'["next"][x] # Ptr(tail)
    <3>1. \A x \in 1 .. First - 1 : x \in 1 .. made /\ x # n
      BY <1>5, <1>18
    <3> QED BY <3>1, <1>3, <1>23 DEF OrderInv
  <2>6. g.op # "return"
    BY <1>9 DEF Op
  <2>7. \A e : (Marked(Aim(Consumer), e))' <=> Marked(g, e)
    BY <1>16 DEF Marked, Looks
  <2>8. \A x \in First .. linked : link'["next"][x].mark => x = First /\ (Marked(Aim(Consumer), x))'
    BY <2>4, <2>7
  <2> QED BY <2>2, <2>5, <2>6, <2>8, <1>16, <1>17, <1>20 DEF OrderInv, tail, Ptr
<1>26. DecidedInv'
  <2>1. (Decides(Aim(Consumer)))' = Decides(g)
    BY <1>16 DEF Decides, Looks, NULL, tail
  <2>2. Decides(g) = n
    BY <1>9, Decisions
  <2> QED BY <2>1, <2>2, <1>10 DEF DecidedInv
<1>27. Pays(Consumer, new)
  <2>1. ASSUME NEW e \in InUse, e \in InUse'
        PROVE  Net(new, e) = Weight(It(Consumer), e) + One(m, {e}) - One(m, {e})
    <3>1. Net(<<g>>, e) = Weight(g, e)
      BY Nets
    <3>2. g.op = "prev"
      BY <1>9 DEF Op
    <3>3. Weight(g, e) = 0
      BY <3>2, NoWeight
    <3>4. Weight(Op("marknext", n, m), e) = One(n, {e})
      BY <1>5, PopWeights
    <3>5. One(n, {e}) = 0
      BY <2>1, <1>24 DEF One
    <3>6. One(m, {e}) \in Int
      BY DEF One
    <3> QED BY <3>1, <3>3, <3>4, <3>5, <3>6, <1>1, <1>5, <1>12
  <2>2. Covers(Consumer, new, m, m)
    BY <2>1 DEF Covers
  <2> QED BY <2>2, <1>2, <1>11, Paying
<1>28. Harmless(Y) /\ Paired(new)
  <2>1. \A i \in 1 .. Len(new) : new[i] = g
    BY <1>12
  <2>2. PopOp(g)
    BY <1>9 DEF PopOp, Op
  <2> QED BY <2>1, <2>2, <1>12, PopOps DEF Harmless, Paired
<1>29. Reached
  <2>1. Named' = Named
    BY <1>17, NamedSame
  <2>2. m \in Named
    BY <1>3, <1>5, <1>8 DEF NamedInv
  <2>3. \A f \in {"next", "prev"}, y \in Node : link'[f][y].to \in Named
    BY <2>2, <1>3, <1>7, <1>11 DEF NamedInv
  <2> QED BY <2>1, <2>3 DEF Reached
<1>30. FifoInv'
  <2>1. made' = made /\ linked <= linked' /\ count' \in [Node -> Int] /\ Consumer # Producer
    BY <1>2, <1>3, <1>17, <1>18 DEF Producer, Consumer
  <2>2. InUse' \subseteq InUse
    BY <1>24
  <2>3. It(Consumer) \notin Before(Consumer)
    BY <1>1, <1>4
  <2> QED BY <2>1, <2>2, <2>3, <1>2, <1>3, <1>13, <1>25, <1>26, <1>27, <1>28, <1>29, AimDone
<1>31. popping = Undecided
  BY <1>4, <1>5, Decisions
<1> QED BY <1>2, <1>5, <1>10, <1>15, <1>17, <1>21, <1>22, <1>30, <1>31 DEF PopsOldest

\* What pop has to do when the entry is out of the list.
Ending(n, m) == <<Release(n), Retain(m)>> \o PopEnd(n, m)

LEMMA PopEnds ==
  ASSUME NEW n \in Node, NEW m \in Node, NEW new, new = Ending(n, m)
  PROVE  /\ \E B : Toward(new, B, Op("return", n, n))
         /\ new \in Seq({Release(n), Retain(m), Release(m), Op("shrink", n, n), Store("next", n, NULL),
                         Store("prev", n, NULL), Op("return", n, n)})
         /\ \A e \in Node : e # n => Net(new, e) = 0
         /\ Paired(new)
<1>1. PICK r, k, c, sh, sn, sp, g : /\ r = Release(n) /\ k = Retain(m) /\ c = Release(m) /\ sh = Op("shrink", n, n)
                                    /\ sn = Store("next", n, NULL) /\ sp = Store("prev", n, NULL)
                                    /\ g = Op("return", n, n)
  OBVIOUS
<1>2. PICK u, v : u = <<r, k>> /\ v = <<c, r, sh, sn, sp, r, g>>
  OBVIOUS
<1>3. new = u \o v
  BY <1>1, <1>2 DEF PopEnd, Ending
<1>4. PICK Y : Y = {r, k, c, sh, sn, sp, g}
  OBVIOUS
<1>5. r \in Y /\ k \in Y /\ c \in Y /\ sh \in Y /\ sn \in Y /\ sp \in Y /\ g \in Y
  BY <1>4
<1>6. u \in Seq(Y) /\ v \in Seq(Y)
  BY <1>2, <1>5
<1>7. new \in Seq(Y)
  BY <1>3, <1>6, ConcatProperties
<1>8. Toward(new, Y, g)
  <2>1. Toward(<<c, r, sh, sn, sp, r, g>>, Y, g)
    BY <1>5, TowardTuples
  <2>2. Toward(v, Y, g)
    BY <2>1, <1>2
  <2>3. Toward(u \o v, Y, g)
    BY <2>2, <1>6, TowardConcat
  <2> QED BY <2>3, <1>3
<1>9. /\ sh.op = "shrink" /\ sn.op = "store" /\ sp.op = "store" /\ g.op = "return"
      /\ r.op = "release" /\ c.op = "release" /\ k.op = "look" /\ k.n = m
  BY <1>1 DEF Op, Store, Release, Retain, Look
<1>10. ASSUME NEW e \in Node, e # n PROVE Net(new, e) = 0
  <2>1. Weight(Release(n), e) = One(n, {e}) /\ Weight(Release(m), e) = One(m, {e})
    BY Weights
  <2>2. Weight(Retain(m), e) = - One(m, {e})
    BY Weights
  <2>3. One(n, {e}) = 0 /\ One(m, {e}) \in Int
    BY <1>10 DEF One
  <2>4. PICK w : w = Weight(c, e)
    OBVIOUS
  <2>5. Weight(r, e) = 0 /\ Weight(k, e) = - w /\ w \in Int /\ Weight(c, e) = w
    BY <2>1, <2>2, <2>3, <2>4, <1>1
  <2>6. Weight(sh, e) = 0 /\ Weight(sn, e) = 0 /\ Weight(sp, e) = 0 /\ Weight(g, e) = 0
    BY <1>9, NoWeight
  <2>7. Net(u, e) = 0 + - w
    <3>1. Net(<<r, k>>, e) = Weight(r, e) + Weight(k, e)
      BY Nets
    <3> QED BY <3>1, <2>5, <1>2
  <2>8. Net(v, e) = w
    <3>1. PICK v1, v2 : v1 = <<c, r, sh>> /\ v2 = <<sn, sp, r, g>>
      OBVIOUS
    <3>2. v = v1 \o v2 /\ v1 \in Seq(Y) /\ v2 \in Seq(Y)
      BY <3>1, <1>2, <1>5
    <3>3. Net(v1 \o v2, e) = Net(v1, e) + Net(v2, e)
      BY <3>2, NetConcat
    <3>4. Net(<<c, r, sh>>, e) = Weight(c, e) + Weight(r, e) + Weight(sh, e)
      BY Nets
    <3>5. Net(<<sn, sp, r, g>>, e) = Weight(sn, e) + Weight(sp, e) + Weight(r, e) + Weight(g, e)
      BY Nets
    <3>6. Net(v1, e) = w /\ Net(v2, e) = 0
      BY <3>1, <3>4, <3>5, <2>5, <2>6
    <3>7. Net(v1 \o v2, e) = w
      BY <3>3, <3>6, <2>5
    <3> QED BY <3>2, <3>7
  <2>9. Net(u \o v, e) = Net(u, e) + Net(v, e)
    BY <1>6, NetConcat
  <2>10. Net(u \o v, e) = 0
    BY <2>5, <2>7, <2>8, <2>9
  <2> QED BY <2>10, <1>3
<1>11. Paired(new)
  <2>1. /\ Len(new) = 9 /\ new[1] = r /\ new[2] = k /\ new[3] = c
        /\ \A i \in 4 .. 9 : new[i] \in {r, sh, sn, sp, g}
    <3>1. Len(u) = 2 /\ Len(v) = 7 /\ u[1] = r /\ u[2] = k /\ v[1] = c /\ v[2] = r /\ v[3] = sh /\ v[4] = sn
          /\ v[5] = sp /\ v[6] = r /\ v[7] = g
      BY <1>2
    <3>2. /\ Len(u \o v) = Len(u) + Len(v)
          /\ \A i \in 1 .. Len(u) + Len(v) : (u \o v)[i] = IF i <= Len(u) THEN u[i] ELSE v[i - Len(u)]
      BY <1>6, ConcatProperties
    <3>7. PICK w : w = u \o v
      OBVIOUS
    <3>8. /\ Len(w) = Len(u) + Len(v)
          /\ \A i \in 1 .. Len(u) + Len(v) : w[i] = IF i <= Len(u) THEN u[i] ELSE v[i - Len(u)]
      BY <3>2, <3>7
    <3>9. /\ Len(w) = 9
          /\ \A i \in 1 .. 9 : w[i] = IF i <= 2 THEN u[i] ELSE v[i - 2]
      BY <3>1, <3>8
    <3>3. /\ Len(new) = 9
          /\ \A i \in 1 .. 9 : new[i] = IF i <= 2 THEN u[i] ELSE v[i - 2]
      BY <3>7, <3>9, <1>3, SMTT(40)
    <3>4. new[1] = u[1] /\ new[2] = u[2] /\ new[3] = v[1]
      BY <3>3
    <3>5. \A i \in 4 .. 9 : new[i] = v[i - 2] /\ i - 2 \in {2, 3, 4, 5, 6, 7}
      BY <3>3
    <3>6. \A j \in {2, 3, 4, 5, 6, 7} : v[j] \in {r, sh, sn, sp, g}
      BY <3>1
    <3> QED BY <3>1, <3>3, <3>4, <3>5, <3>6
  <2>2. \A e : r \notin Takes(e) /\ c \notin Takes(e) /\ sh \notin Takes(e) /\ sn \notin Takes(e)
               /\ sp \notin Takes(e) /\ g \notin Takes(e)
    BY <1>9 DEF Takes, Looks
  <2>3. \A e : k \in Takes(e) => e = m
    BY <1>9 DEF Takes
  <2>4. ASSUME NEW i \in 1 .. 9, NEW e, new[i] \in Takes(e) PROVE i = 2 /\ e = m
    <3>1. i = 1 \/ i = 2 \/ i = 3 \/ i \in 4 .. 9
      OBVIOUS
    <3> QED BY <3>1, <2>1, <2>2, <2>3, <2>4
  <2>5. 2 < 9 /\ new[2 + 1] = Release(m)
    BY <2>1, <1>1
  <2> QED BY <2>1, <2>4, <2>5 DEF Paired
<1> QED BY <1>1, <1>4, <1>7, <1>8, <1>10, <1>11

LEMMA FifoPopUnlinksNext == ASSUME FifoInv, PopUnlinkNext PROVE FifoInv' /\ Stutters
<1>1. PICK a, n, m : a = It(Consumer) /\ n = a.n /\ m = a.m
  OBVIOUS
<1>2. /\ todo[Consumer] # <<>> /\ a.op = "unlink" /\ UNCHANGED <<made, last, count, popping>>
      /\ Consumer \in Threads
  BY <1>1 DEF PopUnlinkNext, At, It, refs, Threads
<1>3. LinkInv /\ LinkInv' /\ NamedInv /\ OrderInv /\ count \in [Node -> Int]
  BY PopUnlinksNext DEF FifoInv
<1>4. PopOn(a, "unlink", n, m) /\ a \notin Before(Consumer) /\ a = Aim(Consumer) /\ popping = Decides(a)
  BY <1>1, <1>2, PopPlace
<1>5. /\ a = Op("unlink", n, m) /\ n \in Node /\ n \in 1 .. linked /\ n = First /\ n \in Named
      /\ link["next"][head] = Ptr(n) /\ m \in Node /\ m \in Named /\ m \in 1 .. linked \cup {tail}
      /\ link["next"][n] = MarkOn(Ptr(m))
  BY <1>4 DEF PopOn
<1>6. PICK p : p = Ptr(m)
  OBVIOUS
<1>7. p \in Ptrs /\ p.to = m /\ Ptr(n).to = n
  BY <1>5, <1>6, PtrTypes
<1>8. link["next"][n].mark /\ link["next"][n].to = m /\ link["next"][n] # Ptr(tail)
  BY <1>5, PtrTypes DEF Ptr, MarkOn
<1>9. PICK g, new : g = Op("return", n, n) /\ new = Ending(n, m)
  OBVIOUS
<1>10. Relinked("next", head, p) /\ Then(Consumer, new)
  BY <1>1, <1>5, <1>6, <1>9 DEF PopUnlinkNext, Cas, Relinked, Ending
<1>11. /\ link'["next"][head] = p
       /\ \A y \in Node : y # head => link'["next"][y] = link["next"][y]
       /\ link'["prev"] = link["prev"]
       /\ \A e : Shifted(e, n, m)
  <2>1. link["next"][head].to = n /\ head \in Node
    BY <1>5, <1>7, Sentinels
  <2> QED BY <2>1, <1>3, <1>7, <1>10, Relinks
<1>12. PICK Y : Y = {Release(n), Retain(m), Release(m), Op("shrink", n, n), Store("next", n, NULL),
                     Store("prev", n, NULL), Op("return", n, n)}
  OBVIOUS
<1>13. new \in Seq(Y) /\ Paired(new) /\ \A e \in Node : e # n => Net(new, e) = 0
  BY <1>5, <1>9, <1>12, PopEnds, ZenonT(60)
<1>14. PICK B : Toward(new, B, g)
  BY <1>5, <1>9, PopEnds
<1>15. todo'[Consumer] = new /\ todo'[Producer] = todo[Producer]
  BY <1>1, <1>2, <1>3, <1>4, <1>10, <1>13, LastDone DEF Threads, Producer, Consumer
<1>16. Aim(Consumer)' = g
  BY <1>2, <1>14, <1>15, NewAim
<1>17. linked' = linked /\ Unlinked' = Unlinked
  <2>1. made' = made
    BY <1>2
  <2> QED BY <1>3, <1>15, <2>1, ProducerStays
<1>18. /\ linked \in Nat /\ linked <= made /\ made \in Nat /\ First \in 1 .. linked + 1 /\ made <= MaxPush
       /\ \A e \in 1 .. made : e \in Entries /\ e \in Node /\ e # tail /\ e # head /\ e # NULL
       /\ MaxPush \in Nat /\ tail = MaxPush + 1 /\ head \in Node
  BY <1>3, FirstBounds, Sentinels
<1>19. m = IF n < linked THEN n + 1 ELSE tail
  <2>1. n \in First .. linked
    BY <1>5, <1>18
  <2> QED BY <2>1, <1>3, <1>8 DEF OrderInv
<1>20. First' = n + 1
  <2>1. First' = IF m = tail THEN linked + 1 ELSE m
    BY <1>7, <1>11, <1>17 DEF First, head, tail
  <2> QED BY <2>1, <1>5, <1>18, <1>19
<1>21. Oldest = n + 1
  BY <1>5, <1>8 DEF Oldest
<1>22. \A x \in 1 .. made : link'["next"][x] = link["next"][x]
  BY <1>11, <1>18
<1>23. \A x \in n + 1 .. linked : ~link'["next"][x].mark
  <2>1. \A x \in n + 1 .. linked : x \in First .. linked /\ x \in 1 .. made /\ x # First
    BY <1>5, <1>18
  <2> QED BY <2>1, <1>3, <1>22 DEF OrderInv
<1>24. Oldest' = n + 1
  <2>1. n + 1 <= linked => n + 1 \in n + 1 .. linked
    BY <1>5, <1>18
  <2>2. n + 1 <= linked => ~link'["next"][n + 1].mark
    BY <2>1, <1>23
  <2> QED BY <2>2, <1>17, <1>20 DEF Oldest
<1>25. InUse' \subseteq InUse /\ n \notin InUse
  <2>1. InUse' = {e \in n + 1 .. made : e <= linked => ~link'["next"][e].mark}
    BY <1>2, <1>17, <1>20 DEF InUse
  <2>2. \A x \in n + 1 .. made : x \in First .. made /\ x \in 1 .. made
    BY <1>5, <1>18
  <2>3. n <= linked
    BY <1>5, <1>18
  <2> QED BY <2>1, <2>2, <2>3, <1>8, <1>22 DEF InUse
<1>26. OrderInv'
  <2>1. \A x \in n + 1 .. linked : x \in 1 .. made /\ x \in First .. linked
    BY <1>5, <1>18
  <2>2. \A x \in n + 1 .. linked : link'["next"][x].to = IF x < linked THEN x + 1 ELSE tail
    BY <2>1, <1>3, <1>22 DEF OrderInv
  <2>3. \A x \in 1 .. n : link'["next"][x] # Ptr(tail)
    <3>1. \A x \in 1 .. n : x \in 1 .. made /\ (x = n \/ x \in 1 .. First - 1)
      BY <1>5, <1>18
    <3> QED BY <3>1, <1>3, <1>8, <1>22 DEF OrderInv
  <2>4. g.op = "return" /\ g.n = n /\ n < n + 1 /\ 1 .. (n + 1) - 1 = 1 .. n
    BY <1>5, <1>9, <1>18 DEF Op
  <2>5. PICK F : F = n + 1
    OBVIOUS
  <2>6. /\ First' = F
        /\ \A x \in F .. linked : link'["next"][x].to = IF x < linked THEN x + 1 ELSE tail
        /\ \A x \in F .. linked : ~link'["next"][x].mark
        /\ \A x \in 1 .. F - 1 : link'["next"][x] # Ptr(tail)
        /\ g.op = "return" /\ g.n < F
    BY <2>2, <2>3, <2>4, <2>5, <1>20, <1>23
  <2> QED BY <2>6, <1>16, <1>17 DEF OrderInv, tail, Ptr
<1>27. DecidedInv'
  <2>1. (Decides(Aim(Consumer)))' = Decides(g)
    BY <1>16 DEF Decides, Looks, NULL, tail
  <2>2. n \in 1 .. made
    BY <1>5, <1>18
  <2>3. Decides(g) = n
    BY <2>2, <1>9, <1>18, Decisions
  <2>4. popping = n
    BY <1>4, <1>5, Decisions
  <2> QED BY <2>1, <2>3, <2>4, <1>2 DEF DecidedInv
<1>28. Pays(Consumer, new)
  <2>1. ASSUME NEW e \in InUse
        PROVE  Net(new, e) = Weight(It(Consumer), e) + One(n, {e}) - One(m, {e})
    <3>1. e \in Node /\ e # n
      BY <1>3, <1>25, InUseNode
    <3>2. Net(new, e) = 0
      BY <3>1, <1>13
    <3>3. Weight(Op("unlink", n, m), e) = One(m, {e})
      BY <3>1, <1>5, Weights
    <3>4. One(n, {e}) = 0 /\ One(m, {e}) \in Int
      BY <3>1 DEF One
    <3> QED BY <3>2, <3>3, <3>4, <1>1, <1>5
  <2>2. Covers(Consumer, new, n, m)
    BY <2>1 DEF Covers
  <2> QED BY <2>2, <1>2, <1>11, Paying
<1>29. Harmless(Y)
  <2>1. n \in Named' /\ m \in Named' /\ NULL \in Named'
    <3>1. Named' = Named
      BY <1>17, NamedSame
    <3> QED BY <3>1, <1>5 DEF Named
  <2>2. Release(n) \in Counting /\ Retain(m) \in Counting /\ Release(m) \in Counting
    BY <1>5, CountingType
  <2>3. Release(n).n = n /\ Retain(m).n = m /\ Release(m).n = m
    BY DEF Release, Retain, Look, Op
  <2>4. Release(n) \notin Unnamed' /\ Retain(m) \notin Unnamed' /\ Release(m) \notin Unnamed'
    BY <2>1, <2>2, <2>3, Nameless
  <2>5. /\ Op("shrink", n, n).op = "shrink" /\ Op("return", n, n).op = "return"
        /\ \A f : Store(f, n, NULL).op = "store" /\ Store(f, n, NULL).m = NULL
    BY DEF Op, Store
  <2>6. Op("shrink", n, n) \notin Unnamed' /\ Op("return", n, n) \notin Unnamed'
    BY <2>5, Nameless
  <2>7. \A f : Store(f, n, NULL) \notin Unnamed'
    BY <2>1, <2>5, Nameless
  <2> QED BY <2>4, <2>6, <2>7, <1>12 DEF Harmless
<1>30. Reached
  <2>1. Named' = Named
    BY <1>17, NamedSame
  <2>2. \A f \in {"next", "prev"}, y \in Node : link'[f][y].to \in Named
    BY <1>3, <1>5, <1>7, <1>11 DEF NamedInv
  <2> QED BY <2>1, <2>2 DEF Reached
<1>31. FifoInv'
  <2>1. made' = made /\ linked <= linked' /\ count' \in [Node -> Int] /\ Consumer # Producer
    BY <1>2, <1>3, <1>17, <1>18 DEF Producer, Consumer
  <2>2. InUse' \subseteq InUse
    BY <1>25
  <2>3. It(Consumer) \notin Before(Consumer)
    BY <1>1, <1>4
  <2> QED BY <2>1, <2>2, <2>3, <1>2, <1>3, <1>10, <1>13, <1>26, <1>27, <1>28, <1>29, <1>30, AimDone
<1> QED BY <1>2, <1>15, <1>17, <1>21, <1>24, <1>31 DEF Stutters

\* The call returns what was decided.
PopOver ==
  /\ popping \in Entries \cup {Empty} /\ last' = popping /\ popping' = Idle
  /\ linked' = linked /\ Oldest' = Oldest /\ Unlinked' = Unlinked /\ made' = made
  /\ (todo'[Producer] = <<>>) = (todo[Producer] = <<>>)

LEMMA Ends ==
  ASSUME NEW a
  PROVE  /\ a.op = "idle" => Decides(a) = Idle
         /\ a.op = "return" => Decides(a) = IF a.n = NULL THEN Empty ELSE a.n
BY DEF Decides, Looks

LEMMA FifoPopReturns == ASSUME FifoInv, PopReturn PROVE FifoInv' /\ PopOver
<1>1. PICK a, n : a = It(Consumer) /\ n = a.n
  OBVIOUS
<1>2. /\ todo[Consumer] # <<>> /\ a.op = "return" /\ UNCHANGED <<link, made, count>>
      /\ last' = (IF n = NULL THEN Empty ELSE n) /\ popping' = Idle /\ Then(Consumer, <<>>)
      /\ Consumer \in Threads
  BY <1>1 DEF PopReturn, At, It, refs, Threads
<1>3. LinkInv /\ LinkInv' /\ DecidedInv /\ OrderInv /\ count \in [Node -> Int]
  BY PopReturns DEF FifoInv
<1>4. a \notin Before(Consumer)
  BY <1>1, <1>2, BeforeOps, CountingOps DEF Looks, Threads, Producer, Consumer
<1>5. a = Aim(Consumer) /\ a \in PopAims
  BY <1>1, <1>2, <1>3, <1>4, PopHead DEF PopAt
<1>6. popping = IF n = NULL THEN Empty ELSE n
  BY <1>1, <1>2, <1>3, <1>5, Ends DEF DecidedInv
<1>7. n \in 1 .. linked \cup {NULL}
  BY <1>1, <1>2, <1>5 DEF PopAims, Looks, Deref
<1>8. PICK new, Y : new = <<>> /\ Y = {}
  OBVIOUS
<1>9. new \in Seq(Y) /\ Then(Consumer, new)
  BY <1>2, <1>8
<1>10. todo'[Consumer] = <<>> /\ todo'[Producer] = todo[Producer]
  BY <1>1, <1>2, <1>3, <1>4, <1>8, <1>9, LastDone DEF Threads, Producer, Consumer
<1>11. PICK g : g = Op("idle", NULL, NULL)
  OBVIOUS
<1>12. Aim(Consumer)' = g
  BY <1>10, <1>11 DEF Aim, NULL, Op
<1>13. g.op = "idle"
  BY <1>11 DEF Op
<1>14. made' = made /\ linked' = linked /\ Unlinked' = Unlinked
  <2>1. made' = made
    BY <1>2
  <2> QED BY <1>3, <1>10, <2>1, ProducerStays
<1>15. linked \in Nat /\ made \in Nat /\ linked <= made /\ \A e \in 1 .. made : e \in Entries
  BY <1>3, FirstBounds
<1>16. Decides(g) = popping' /\ g.op # "return"
  BY <1>2, <1>13, Ends
<1>17. \A e \in Entries : Marked(Aim(Consumer), e) => Marked(g, e)
  BY <1>2, <1>5 DEF Marked, Looks
<1>18. /\ link'["next"][head] = link["next"][head]
       /\ \A x \in First .. linked : link'["next"][x] = link["next"][x]
       /\ \A x \in 1 .. First - 1 : link'["next"][x] \in {link["next"][x], Ptr(NULL)}
  BY <1>2
<1>19. made <= made' /\ made' = made
  BY <1>14, <1>15
<1>20. OrderInv' /\ DecidedInv' /\ Oldest' = Oldest /\ InUse' = InUse
  BY <1>3, <1>12, <1>14, <1>16, <1>17, <1>18, <1>19, ListSettled
<1>21. Pays(Consumer, new)
  <2>1. ASSUME NEW e \in InUse
        PROVE  Net(new, e) = Weight(It(Consumer), e) + One(NULL, {e}) - One(NULL, {e})
    <3>1. Net(<<>>, e) = 0
      BY Nets
    <3>2. Weight(a, e) = 0
      BY <1>2, NoWeight
    <3>3. One(NULL, {e}) \in Int
      BY DEF One
    <3> QED BY <3>1, <3>2, <3>3, <1>1, <1>8
  <2>2. Covers(Consumer, new, NULL, NULL)
    BY <2>1 DEF Covers
  <2> QED BY <2>2, <1>2, Paying
<1>22. Harmless(Y) /\ Paired(new)
  BY <1>8 DEF Harmless, Paired
<1>23. linked <= linked'
  BY <1>14, <1>15
<1>24. Reached
  BY <1>2, <1>3, <1>23, NamesReached
<1>25. FifoInv'
  <2>1. count' \in [Node -> Int] /\ Consumer # Producer /\ InUse' \subseteq InUse
    BY <1>2, <1>3, <1>20 DEF Producer, Consumer
  <2>2. It(Consumer) \notin Before(Consumer)
    BY <1>1, <1>4
  <2> QED BY <2>1, <2>2, <1>2, <1>3, <1>9, <1>14, <1>20, <1>21, <1>22, <1>23, <1>24, AimDone
<1>26. popping \in Entries \cup {Empty}
  BY <1>6, <1>7, <1>15
<1> QED BY <1>2, <1>6, <1>10, <1>14, <1>20, <1>25, <1>26 DEF PopOver

\* A call begins.
PopNew ==
  /\ popping = Idle /\ popping' = Undecided
  /\ linked' = linked /\ Oldest' = Oldest /\ Unlinked' = Unlinked /\ made' = made /\ last' = last
  /\ (todo'[Producer] = <<>>) = (todo[Producer] = <<>>)

LEMMA FifoPopBegins == ASSUME FifoInv, Pop PROVE FifoInv' /\ PopNew
<1>1. /\ todo[Consumer] = <<>> /\ popping' = Undecided /\ UNCHANGED <<link, made, count, last>>
  BY DEF Pop, refs
<1>2. /\ LinkInv /\ LinkInv' /\ DecidedInv /\ count \in [Node -> Int]
      /\ CountsExplained /\ NamedInv /\ BackedInv
  BY PopBegins DEF FifoInv
<1>3. PICK g : g = Deref("next", head, "pop", head)
  OBVIOUS
<1>4. todo'[Consumer] = <<g>> /\ todo'[Producer] = todo[Producer]
  BY <1>2, <1>3 DEF Pop, PopLoop, LinkInv, Threads, Producer, Consumer
<1>5. Aim(Consumer)' = g
  <2>1. Toward(todo'[Consumer], {}, g)
    BY <1>4, TowardTuples
  <2> QED BY <2>1, NewAim DEF Threads
<1>6. g.op = "deref" /\ Decides(g) = Undecided
  BY <1>3, Decisions DEF Deref
<1>7. Aim(Consumer) = Op("idle", NULL, NULL) /\ Aim(Consumer).op = "idle"
  BY <1>1 DEF Aim, Op
<1>8. popping = Idle
  BY <1>2, <1>7, Ends DEF DecidedInv
<1>9. made' = made /\ linked' = linked /\ Unlinked' = Unlinked
  <2>1. made' = made
    BY <1>1
  <2> QED BY <1>2, <1>4, <2>1, ProducerStays
<1>10. linked \in Nat /\ made \in Nat
  BY <1>2, FirstBounds
<1>11. \A e \in Entries : Marked(Aim(Consumer), e) => Marked(g, e)
  BY <1>7 DEF Marked, Looks
<1>12. /\ link'["next"][head] = link["next"][head]
       /\ \A x \in First .. linked : link'["next"][x] = link["next"][x]
       /\ \A x \in 1 .. First - 1 : link'["next"][x] \in {link["next"][x], Ptr(NULL)}
  BY <1>1
<1>13. made <= made' /\ Decides(g) = popping' /\ g.op # "return"
  BY <1>1, <1>6, <1>9, <1>10
<1>14. OrderInv' /\ DecidedInv' /\ Oldest' = Oldest /\ InUse' = InUse
  BY <1>2, <1>5, <1>9, <1>11, <1>12, <1>13, ListSettled
<1>15. CountsExplained'
  <2>1. ASSUME NEW e \in InUse PROVE (count[e] = 1 + Links(e) + Debt(Producer, e) + Debt(Consumer, e))'
    <3> DEFINE DP == (Debt(Producer, e))'
               DC == (Debt(Consumer, e))'
               LL == (Links(e))'
               CC == (count[e])'
    <3>1. CC = count[e] /\ LL = Links(e)
      BY <1>1, LinksSame
    <3>2. DP = Debt(Producer, e)
      BY <1>4 DEF Debt, Occurs, Owes, Takes, Looks, Node, Entries, Old, head, tail, NULL
    <3>3. DC = 0
      <4>1. Net(<<g>>, e) = Weight(g, e) /\ Weight(g, e) = 0
        BY <1>6, Nets, NoWeight
      <4>2. DC = Net(<<g>>, e)
        BY <1>4 DEF Debt, Net, Occurs, Owes, Takes, Looks, Node, Entries, Old, head, tail, NULL
      <4> QED BY <4>1, <4>2
    <3>4. Debt(Consumer, e) = 0
      <4>1. Net(<<>>, e) = 0
        BY Nets
      <4>2. Debt(Consumer, e) = Net(<<>>, e)
        BY <1>1 DEF Debt, Net
      <4> QED BY <4>1, <4>2
    <3>5. count[e] = 1 + Links(e) + Debt(Producer, e) + Debt(Consumer, e)
      BY <1>2 DEF CountsExplained
    <3> HIDE DEF DP, DC, LL, CC
    <3>6. CC = 1 + LL + DP + DC
      BY <3>1, <3>2, <3>3, <3>4, <3>5
    <3> QED BY <3>6 DEF DP, DC, LL, CC
  <2> QED BY <2>1, <1>14 DEF CountsExplained
<1>16. NamedInv'
  <2>1. Named' = Named
    BY <1>9, NamedSame
  <2>2. Unnamed' = Unnamed
    BY <2>1 DEF Unnamed, Counting, Looks, Node, Entries, Old, head, tail, Ptrs, NULL
  <2>3. g \notin Unnamed
    BY <1>6, <2>2, Nameless
  <2>4. Occurs(Unnamed, <<g>>) = 0
    <3>1. Occurs(Unnamed, <<g>>) = One(g, Unnamed)
      BY OccursOne
    <3> QED BY <2>3, <3>1 DEF One
  <2>5. \A t \in Threads : Occurs(Unnamed, todo'[t]) = 0
    BY <1>2, <1>4, <2>4 DEF Threads, NamedInv
  <2>6. \A t \in Threads : (Occurs(Unnamed, todo[t]))' = Occurs(Unnamed, todo'[t])
    BY <2>2 DEF Occurs
  <2>7. \A f \in {"next", "prev"}, n \in Node : link'[f][n].to \in Named'
    BY <1>1, <1>2, <2>1 DEF NamedInv
  <2> QED BY <2>5, <2>6, <2>7 DEF NamedInv
<1>17. BackedInv'
  <2>1. Sources' = Sources
    BY <1>9 DEF Sources, Storing, Looks, Node, Entries, Old, head, tail, Ptrs, NULL
  <2>2. (Occurs(Sources, todo[Producer]))' = Occurs(Sources, todo[Producer])
    BY <1>4, <2>1 DEF Occurs
  <2>3. PICK s : s = <<g>>
    OBVIOUS
  <2>4. Paired(s)
    <3>1. \A i \in 1 .. Len(s) : s[i] = g
      BY <2>3
    <3>2. PopOp(g)
      BY <1>6 DEF PopOp
    <3> QED BY <3>1, <3>2, PopOps DEF Paired
  <2>5. (Paired(todo[Consumer]))' = Paired(s)
    BY <1>4, <2>3 DEF Paired, Takes, Looks, Release, Op, Consumer, Entries, Node, Old, head, tail
  <2> QED BY <1>2, <2>2, <2>4, <2>5 DEF BackedInv
<1>18. FifoInv'
  <2>1. count' \in [Node -> Int]
    BY <1>1, <1>2
  <2> QED BY <2>1, <1>2, <1>14, <1>15, <1>16, <1>17 DEF FifoInv
<1> QED BY <1>1, <1>4, <1>8, <1>9, <1>14, <1>18 DEF PopNew

-----------------------------------------------------------------------------
(* A step of the queue. *)

Effect ==
  \/ Stutters \/ Appends \/ PushOver \/ PushNew
  \/ PopsNothing \/ PopsOldest \/ PopOver \/ PopNew

LEMMA FifoRefs == ASSUME FifoInv, NEW t \in Threads, RefStep(t) PROVE FifoInv' /\ (Stutters \/ PopsNothing)
<1>0. LinkInv
  BY DEF FifoInv
<1>1. CASE DerefLink(t) \/ DerefDelete(t) \/ DerefCount(t) \/ DerefClaim(t)
  <2>1. todo[t] # <<>> /\ It(t).op \in {"deref"} \cup Looks
    BY <1>1 DEF DerefLink, DerefDelete, DerefCount, DerefClaim, At, It, Looks
  <2>2. CASE It(t).op = "deref"
    <3>1. It(t) \notin Before(t)
      BY <2>2, BeforeOps, CountingOps DEF Looks
    <3>2. It(t) = Aim(t)
      BY <1>0, <2>1, <3>1, HeadCases
    <3>3. CASE t = Producer
      <4>1. It(Producer).as = "push"
        BY <1>0, <2>1, <2>2, <3>2, <3>3, AimOps
      <4> QED BY <1>1, <3>3, <4>1, FifoPushDerefs
    <3>4. CASE t = Consumer
      <4>1. DerefLink(Consumer)
        BY <1>1, <2>2, <3>4 DEF DerefLink, DerefDelete, DerefCount, DerefClaim, At, It
      <4> QED BY <4>1, FifoPopReads, SMTT(40)
    <3> QED BY <3>3, <3>4 DEF Threads
  <2>3. CASE It(t).op \in Looks /\ It(t).as \notin {"push", "pop", "succ"}
    <3>1. ~DerefLink(t)
      BY <2>3 DEF DerefLink, At, It, Looks
    <3> QED BY <1>1, <2>3, <3>1, FifoRetains
  <2>4. CASE It(t).op \in Looks /\ It(t).as \in {"push", "pop", "succ"}
    <3>1. It(t) \notin Before(t)
      BY <2>4, BeforeOps, CountingOps DEF Looks
    <3>2. It(t) = Aim(t)
      BY <1>0, <2>1, <3>1, HeadCases
    <3>3. CASE t = Producer
      <4>1. It(Producer).as = "push"
        BY <1>0, <2>1, <2>4, <3>2, <3>3, AimOps
      <4> QED BY <1>1, <3>3, <4>1, FifoPushDerefs
    <3>4. CASE t = Consumer
      <4>1. It(Consumer).as \in {"pop", "succ"}
        BY <1>0, <2>1, <2>4, <3>2, <3>4, AimOps
      <4>2. ~DerefLink(Consumer)
        BY <2>4, <3>4 DEF DerefLink, At, It, Looks
      <4> QED BY <1>1, <3>4, <4>1, <4>2, FifoPopLooks, FifoPopClaims
    <3> QED BY <3>3, <3>4 DEF Threads
  <2> QED BY <2>1, <2>2, <2>3, <2>4, SMTT(40)
<1>2. CASE \/ ReleaseRead(t) \/ ReleaseDecrement(t) \/ ReleaseMark(t) \/ ReleaseTest(t)
           \/ ReleaseTerminate(t) \/ ReleaseUnmark(t) \/ ReleaseThreshold(t)
           \/ GcTest(t) \/ GcCollect(t)
  BY <1>2, FifoReleases
<1>3. CASE StoreRead(t) \/ StoreSwap(t)
  BY <1>3, FifoStores
<1> QED BY <1>1, <1>2, <1>3 DEF RefStep

LEMMA FifoStep == ASSUME FifoInv, Next PROVE FifoInv' /\ Effect
<1>1. CASE Push
  BY <1>1, FifoPush DEF Effect
<1>2. CASE PushStep
  <2>1. Producer \in Threads
    BY DEF Threads
  <2> QED BY <1>2, <2>1, FifoPushLink, FifoPushBack, FifoPushGrow, FifoRefs DEF PushStep, Effect
<1>3. CASE Pop
  BY <1>3, FifoPopBegins DEF Effect
<1>4. CASE PopStep
  <2>1. Consumer \in Threads
    BY DEF Threads
  <2>2. CASE RefStep(Consumer)
    BY <2>1, <2>2, FifoRefs DEF Effect
  <2>3. CASE PopFirst \/ PopPeek \/ PopReadPrev
    <3>1. UNCHANGED link /\ ~PopMarkNext /\ ~PopMarkPrev /\ ~PopUnlinkPrev
      BY <2>3 DEF PopFirst, PopPeek, PopReadPrev, PopMarkNext, PopMarkPrev, PopUnlinkPrev, At
    <3> QED BY <2>3, <3>1, FifoPopTests DEF Effect
  <2>4. CASE PopMarkNext
    <3>1. CASE link["next"][It(Consumer).n] = Ptr(It(Consumer).m)
      BY <2>4, <3>1, FifoPopMarksNext DEF Effect
    <3>2. CASE link["next"][It(Consumer).n] # Ptr(It(Consumer).m)
      <4>1. UNCHANGED link /\ ~PopMarkPrev /\ ~PopUnlinkPrev
        BY <2>4, <3>2 DEF PopMarkNext, PopMarkPrev, PopUnlinkPrev, At, Cas
      <4> QED BY <2>4, <3>2, <4>1, FifoPopTests DEF Effect
    <3> QED BY <3>1, <3>2
  <2>5. CASE PopMarkPrev
    <3>1. CASE link["prev"][It(Consumer).n] = Ptr(It(Consumer).m)
      BY <2>5, <3>1, FifoPopMarksPrev DEF Effect
    <3>2. CASE link["prev"][It(Consumer).n] # Ptr(It(Consumer).m)
      <4>1. UNCHANGED link /\ ~PopMarkNext /\ ~PopUnlinkPrev
        BY <2>5, <3>2 DEF PopMarkNext, PopMarkPrev, PopUnlinkPrev, At, Cas
      <4> QED BY <2>5, <3>2, <4>1, FifoPopTests DEF Effect
    <3> QED BY <3>1, <3>2
  <2>6. CASE PopUnlinkPrev
    <3>1. CASE link["prev"][It(Consumer).m] = Ptr(It(Consumer).n)
      BY <2>6, <3>1, FifoPopUnlinksPrev DEF Effect
    <3>2. CASE link["prev"][It(Consumer).m] # Ptr(It(Consumer).n)
      <4>1. UNCHANGED link /\ ~PopMarkNext /\ ~PopMarkPrev
        BY <2>6, <3>2 DEF PopMarkNext, PopMarkPrev, PopUnlinkPrev, At, Cas
      <4> QED BY <2>6, <3>2, <4>1, FifoPopTests DEF Effect
    <3> QED BY <3>1, <3>2
  <2>7. CASE PopUnlinkNext \/ PopShrink \/ PopReturn
    BY <2>7, FifoPopUnlinksNext, FifoShrinks, FifoPopReturns DEF Effect
  <2> QED BY <1>4, <2>2, <2>3, <2>4, <2>5, <2>6, <2>7 DEF PopStep
<1> QED BY <1>1, <1>2, <1>3, <1>4 DEF Next

LEMMA FifoStays == ASSUME FifoInv, UNCHANGED vars PROVE FifoInv' /\ Stutters
<1>1. UNCHANGED <<link, made, todo, count, popping, last>>
  BY DEF vars, refs
<1>2. /\ LinkInv /\ OrderInv /\ DecidedInv /\ count \in [Node -> Int] /\ CountsExplained /\ NamedInv /\ BackedInv
  BY DEF FifoInv
<1>3. LinkInv'
  BY <1>2, LinkNext
<1>4. Unlinked' = Unlinked /\ linked' = linked /\ Aim(Consumer)' = Aim(Consumer)
  BY <1>1, <1>2, ProducerStays, ConsumerStays
<1>5. PICK g : g = Aim(Consumer)
  OBVIOUS
<1>6. /\ link'["next"][head] = link["next"][head]
      /\ \A x \in First .. linked : link'["next"][x] = link["next"][x]
      /\ \A x \in 1 .. First - 1 : link'["next"][x] \in {link["next"][x], Ptr(NULL)}
      /\ \A e \in Entries : Marked(Aim(Consumer), e) => Marked(g, e)
      /\ Aim(Consumer)' = g /\ Decides(g) = popping /\ (g.op = "return" => g.n < First)
      /\ (todo'[Producer] = <<>>) = (todo[Producer] = <<>>)
  BY <1>1, <1>2, <1>4, <1>5 DEF DecidedInv, OrderInv
<1>7. OrderInv' /\ DecidedInv' /\ Stutters /\ InUse' = InUse
  BY <1>1, <1>3, <1>4, <1>6, Settled
<1>8. CountsExplained'
  <2>1. ASSUME NEW e \in InUse PROVE (count[e] = 1 + Links(e) + Debt(Producer, e) + Debt(Consumer, e))'
    <3> DEFINE DP == (Debt(Producer, e))'
               DC == (Debt(Consumer, e))'
               LL == (Links(e))'
               CC == (count[e])'
    <3>1. CC = count[e] /\ LL = Links(e)
      BY <1>1, LinksSame
    <3>2. DP = Debt(Producer, e) /\ DC = Debt(Consumer, e)
      BY <1>1 DEF Debt, Occurs, Owes, Takes, Looks, Node, Entries, Old, head, tail, NULL
    <3>3. count[e] = 1 + Links(e) + Debt(Producer, e) + Debt(Consumer, e)
      BY <1>2 DEF CountsExplained
    <3> HIDE DEF DP, DC, LL, CC
    <3>4. CC = 1 + LL + DP + DC
      BY <3>1, <3>2, <3>3
    <3> QED BY <3>4 DEF DP, DC, LL, CC
  <2> QED BY <2>1, <1>7 DEF CountsExplained
<1>9. NamedInv'
  <2>1. Named' = Named
    BY <1>4, NamedSame
  <2>2. Unnamed' = Unnamed
    BY <2>1 DEF Unnamed, Counting, Looks, Node, Entries, Old, head, tail, Ptrs, NULL
  <2>3. \A t \in Threads : (Occurs(Unnamed, todo[t]))' = Occurs(Unnamed, todo[t])
    BY <1>1, <2>2 DEF Occurs
  <2> QED BY <1>1, <1>2, <2>1, <2>3 DEF NamedInv
<1>10. BackedInv'
  <2>1. Sources' = Sources
    BY <1>1 DEF Sources, Storing, Looks, Node, Entries, Old, head, tail, Ptrs, NULL
  <2>2. (Occurs(Sources, todo[Producer]))' = Occurs(Sources, todo[Producer])
    BY <1>1, <2>1 DEF Occurs
  <2>3. (Paired(todo[Consumer]))' = Paired(todo[Consumer])
    BY <1>1 DEF Paired, Takes, Looks, Release, Op, Consumer, Entries, Node, Old, head, tail
  <2> QED BY <1>2, <2>2, <2>3 DEF BackedInv
<1>11. count' \in [Node -> Int]
  BY <1>1, <1>2
<1> QED BY <1>3, <1>7, <1>8, <1>9, <1>10, <1>11 DEF FifoInv

LEMMA FifoStarts == Init => FifoInv
<1> SUFFICES ASSUME Init PROVE FifoInv
  OBVIOUS
<1>1. LinkInv
  BY LinkInit
<1>2. /\ todo[Producer] = <<>> /\ todo[Consumer] = <<>> /\ popping = Idle /\ made = 0
      /\ count \in [Node -> Int]
  BY DEF Init, Threads
<1>3. Aim(Producer).op = "idle" /\ Aim(Consumer).op = "idle"
  BY <1>2 DEF Aim, Op
<1>4. linked = 0
  BY <1>2, <1>3 DEF linked, Unlinked, Looks
<1>5. First \in 1 .. linked + 1
  BY <1>1, FirstBounds
<1>6. First = 1
  BY <1>4, <1>5
<1>7. OrderInv
  <2>1. First .. linked = {} /\ 1 .. First - 1 = {}
    BY <1>4, <1>6
  <2> QED BY <2>1, <1>3 DEF OrderInv
<1>8. DecidedInv
  BY <1>2, <1>3, Ends DEF DecidedInv
<1>9. CountsExplained
  <2>1. InUse = {}
    BY <1>2, <1>6 DEF InUse
  <2> QED BY <2>1 DEF CountsExplained
<1>10. NamedInv
  <2>1. \A n \in Node : link["next"][n].to \in {tail, NULL} /\ link["prev"][n].to \in {0, NULL}
    BY DEF Init, Ptr, head
  <2>2. {tail, NULL, 0} \subseteq Named
    BY <1>4 DEF Named
  <2>3. \A t \in Threads : todo[t] = <<>>
    BY <1>2 DEF Threads
  <2>4. Occurs(Unnamed, <<>>) = 0
    BY OccursNone
  <2> QED BY <2>1, <2>2, <2>3, <2>4 DEF NamedInv
<1>11. BackedInv
  <2>1. Occurs(Sources, <<>>) = 0
    BY OccursNone
  <2>2. Paired(<<>>)
    BY DEF Paired
  <2> QED BY <1>2, <2>1, <2>2 DEF BackedInv
<1> QED BY <1>1, <1>2, <1>7, <1>8, <1>9, <1>10, <1>11 DEF FifoInv

\* At every moment the reference count of an entry in the queue (refcnt.c) is what the entry's
\* own reference, the links to it and the threads between their instructions account for: for
\* any number of pushes, any threshold of gc, and every interleaving of queue_push_right and
\* queue_pop_left.
THEOREM CountsRight == Spec => []CountsExplained
<1>1. FifoInv /\ [Next]_vars => FifoInv'
  BY FifoStep, FifoStays
<1>2. FifoInv => CountsExplained
  BY DEF FifoInv
<1> QED BY <1>1, <1>2, FifoStarts, PTL DEF Spec

-----------------------------------------------------------------------------
(* The values in the queue. *)

\* The entries from a to b.
Run(a, b) == [i \in 1 .. b - a + 1 |-> a + i - 1]

LEMMA Runs ==
  ASSUME NEW a \in Int, NEW b \in Int
  PROVE  /\ a > b => Run(a, b) = <<>>
         /\ a <= b => /\ Run(a, b) # <<>> /\ Head(Run(a, b)) = a /\ Tail(Run(a, b)) = Run(a + 1, b)
         /\ a <= b + 1 => Append(Run(a, b), b + 1) = Run(a, b + 1)
<1>1. ASSUME a > b PROVE Run(a, b) = <<>>
  <2>1. 1 .. b - a + 1 = {}
    BY <1>1
  <2>2. Run(a, b) = [i \in {} |-> a + i - 1]
    BY <2>1 DEF Run
  <2> QED BY <2>2
<1>2. ASSUME NEW x \in Int, x <= b + 1
      PROVE  /\ Run(x, b) \in Seq(Int) /\ Len(Run(x, b)) = b - x + 1
             /\ \A i \in 1 .. b - x + 1 : Run(x, b)[i] = x + i - 1
  <2>1. PICK k \in Nat : k = b - x + 1
    BY <1>2
  <2>2. Run(x, b) = [i \in 1 .. k |-> x + i - 1]
    BY <2>1 DEF Run
  <2>3. [i \in 1 .. k |-> x + i - 1] \in [1 .. k -> Int]
    OBVIOUS
  <2> QED BY <2>1, <2>2, <2>3
<1>3. ASSUME a <= b PROVE Run(a, b) # <<>> /\ Head(Run(a, b)) = a /\ Tail(Run(a, b)) = Run(a + 1, b)
  <2>1. PICK s, t : s = Run(a, b) /\ t = Run(a + 1, b)
    OBVIOUS
  <2>2. /\ s \in Seq(Int) /\ Len(s) = b - a + 1 /\ \A i \in 1 .. b - a + 1 : s[i] = a + i - 1
    <3>1. a <= b + 1
      BY <1>3
    <3> QED BY <2>1, <1>2, <3>1
  <2>3. a + 1 \in Int /\ a + 1 <= b + 1 /\ b - (a + 1) + 1 = b - a
    BY <1>3
  <2>4. /\ t \in Seq(Int) /\ Len(t) = b - a /\ \A i \in 1 .. b - a : t[i] = (a + 1) + i - 1
    BY <2>1, <2>3, <1>2
  <2>5. s # <<>> /\ Head(s) = a
    BY <2>2, <1>3
  <2>6. /\ Tail(s) \in Seq(Int) /\ Len(Tail(s)) = Len(s) - 1
        /\ \A i \in 1 .. Len(s) - 1 : Tail(s)[i] = s[i + 1]
    BY <2>2, <2>5, HeadTailProperties
  <2>7. \A i \in 1 .. b - a : Tail(s)[i] = t[i]
    BY <2>2, <2>4, <2>6
  <2>8. Tail(s) = t
    <3>1. Tail(s) \in Seq(Int) /\ Len(Tail(s)) = Len(t) /\ \A i \in 1 .. Len(Tail(s)) : Tail(s)[i] = t[i]
      BY <2>2, <2>4, <2>6, <2>7
    <3> QED BY <2>4, <3>1, SeqEqual
  <2> QED BY <2>1, <2>5, <2>8
<1>4. ASSUME a <= b + 1 PROVE Append(Run(a, b), b + 1) = Run(a, b + 1)
  <2>1. PICK s, t : s = Run(a, b) /\ t = Run(a, b + 1)
    OBVIOUS
  <2>2. s \in Seq(Int) /\ Len(s) = b - a + 1 /\ \A i \in 1 .. b - a + 1 : s[i] = a + i - 1
    BY <2>1, <1>2, <1>4
  <2>3. PICK k \in Nat : k = b - a + 1
    BY <1>4
  <2>4. t = [i \in 1 .. k + 1 |-> a + i - 1]
    <3>1. (b + 1) - a + 1 = k + 1
      BY <2>3
    <3> QED BY <2>1, <3>1 DEF Run
  <2>5. t \in Seq(Int) /\ Len(t) = k + 1 /\ \A i \in 1 .. k + 1 : t[i] = a + i - 1
    <3>1. t \in [1 .. k + 1 -> Int] /\ k + 1 \in Nat
      BY <2>4
    <3> QED BY <2>4, <3>1
  <2>6. b + 1 \in Int /\ b + 1 = a + (k + 1) - 1
    BY <2>3
  <2>7. /\ Append(s, b + 1) \in Seq(Int) /\ Len(Append(s, b + 1)) = k + 1
        /\ \A i \in 1 .. k : Append(s, b + 1)[i] = s[i]
        /\ Append(s, b + 1)[k + 1] = b + 1
    BY <2>2, <2>3, <2>6, AppendProperties
  <2>8. \A i \in 1 .. k + 1 : Append(s, b + 1)[i] = t[i]
    BY <2>2, <2>3, <2>5, <2>6, <2>7
  <2>9. Append(s, b + 1) = t
    BY <2>5, <2>7, <2>8, SeqEqual
  <2> QED BY <2>1, <2>9
<1> QED BY <1>1, <1>3, <1>4

\* A bounded, non-empty set of numbers has a largest member.
LEMMA MaxExists ==
  ASSUME NEW N \in Nat, NEW S \in SUBSET (0 .. N), S # {}
  PROVE  \E m \in S : \A n \in S : n <= m
<1> DEFINE T == {N - s : s \in S}
           R == OpToRel(<, Nat)
<1>0. \A s \in S : s \in Int /\ N - s \in Nat
  OBVIOUS
<1>1. T \subseteq Nat /\ T # {}
  BY <1>0
<1>2. IsWellFoundedOn(R, Nat)
  BY NatLessThanWellFounded
<1>3. \E x \in T : \A y \in T : ~(<<y, x>> \in R)
  <2> HIDE DEF T, R
  <2> QED BY <1>1, <1>2, WFMin
<1>4. PICK x \in T : \A y \in T : ~(<<y, x>> \in R)
  BY <1>3
<1>5. \A y \in T : ~(y < x)
  BY <1>1, <1>4 DEF OpToRel
<1>6. PICK m \in S : x = N - m
  OBVIOUS
<1>7. \A n \in S : N - n \in T
  OBVIOUS
<1>8. \A n \in S : ~(N - n < N - m)
  BY <1>5, <1>6, <1>7
<1>9. \A n \in S : n <= m
  BY <1>0, <1>8
<1> QED BY <1>9

\* Induction up to a bound, over a set instead of a predicate.
LEMMA BoundedInduction ==
  ASSUME NEW N \in Nat, NEW S, 0 \in S, \A n \in 0 .. N - 1 : n \in S => n + 1 \in S
  PROVE  0 .. N \subseteq S
<1> DEFINE G == {n \in 0 .. N : 0 .. n \subseteq S}
<1>1. 0 \in G
  OBVIOUS
<1>2. PICK m \in G : \A n \in G : n <= m
  <2> G \in SUBSET (0 .. N) /\ G # {}
    BY <1>1
  <2> HIDE DEF G
  <2> QED BY MaxExists
<1>3. CASE m < N
  <2>1. m \in S /\ m + 1 \in S
    BY <1>3
  <2>2. 0 .. m + 1 \subseteq S
    BY <2>1
  <2>3. m + 1 \in G
    BY <1>3, <2>2
  <2> QED BY <1>2, <2>3
<1> QED BY <1>2, <1>3



\* Nth leads through the list to its end.
LEMMA NthForm ==
  ASSUME FifoInv
  PROVE  \A i \in 0 .. MaxPush : Nth[i] = IF First + i <= linked THEN First + i ELSE tail
<1>1. PICK f, l, N : f = First /\ l = linked /\ N = MaxPush
  OBVIOUS
<1>2. /\ l \in Nat /\ N \in Nat /\ l <= N /\ f \in 1 .. l + 1 /\ tail = N + 1
      /\ (f <= l => link["next"][head] = Ptr(f)) /\ (f = l + 1 => link["next"][head] = Ptr(tail))
  BY <1>1, FirstBounds DEF FifoInv
<1>3. link["next"][head].to = IF f <= l THEN f ELSE tail
  BY <1>2 DEF Ptr
<1>4. \A n \in f .. l : link["next"][n].to = IF n < l THEN n + 1 ELSE tail
  BY <1>1 DEF FifoInv, OrderInv
<1>5. \A n : n \in Entries <=> n \in 1 .. N
  BY <1>1 DEF Entries
<1> DEFINE Rec(c) == [i \in 0 .. N |->
                        IF i = 0 THEN link["next"][head].to
                        ELSE IF c[i - 1] \in Entries THEN link["next"][c[i - 1]].to ELSE c[i - 1]]
           F == [i \in 0 .. N |-> IF f + i <= l THEN f + i ELSE tail]
           c == CHOOSE d : d = Rec(d)
<1>6. Nth = c
  BY <1>1 DEF Nth
<1>7. F[0] = link["next"][head].to
  <2>1. f + 0 = f
    BY <1>2
  <2> QED BY <1>2, <1>3, <2>1
<1>8. ASSUME NEW i \in 1 .. N
      PROVE  F[i] = IF F[i - 1] \in Entries THEN link["next"][F[i - 1]].to ELSE F[i - 1]
  <2>1. PICK n : n = f + (i - 1)
    OBVIOUS
  <2>2. n \in Nat /\ n >= f /\ n >= 1 /\ f + i = n + 1 /\ i - 1 \in 0 .. N /\ i \in 0 .. N
    BY <2>1, <1>2
  <2>3. F[i - 1] = (IF n <= l THEN n ELSE tail) /\ F[i] = IF n + 1 <= l THEN n + 1 ELSE tail
    BY <2>1, <2>2
  <2> HIDE DEF F
  <2>4. CASE n <= l
    <3>1. F[i - 1] = n /\ n \in Entries /\ n \in f .. l
      BY <2>2, <2>3, <2>4, <1>2, <1>5
    <3>2. link["next"][n].to = IF n < l THEN n + 1 ELSE tail
      BY <1>4, <3>1
    <3> QED BY <3>1, <3>2, <2>2, <2>3, <1>2
  <2>5. CASE ~(n <= l)
    <3>1. F[i - 1] = tail /\ tail \notin Entries /\ F[i] = tail
      BY <2>2, <2>3, <2>5, <1>2, <1>5
    <3> QED BY <3>1
  <2> QED BY <2>4, <2>5
<1>9. F = Rec(F)
  <2>1. F = [i \in 0 .. N |-> F[i]]
    OBVIOUS
  <2> HIDE DEF F
  <2>2. \A i \in 0 .. N : F[i] = IF i = 0 THEN link["next"][head].to
                                ELSE IF F[i - 1] \in Entries THEN link["next"][F[i - 1]].to ELSE F[i - 1]
    BY <1>7, <1>8, <1>2, SMTT(40)
  <2> QED BY <2>1, <2>2
<1>10. c = Rec(c)
  BY <1>9, ZenonT(60)
<1> HIDE DEF c
<1> DEFINE T == {k \in 0 .. N : c[k] = F[k]}
<1>11. 0 \in T
  BY <1>10, <1>7, <1>2
<1>12. \A k \in 0 .. N - 1 : k \in T => k + 1 \in T
  <2> TAKE k \in 0 .. N - 1
  <2> HAVE k \in T
  <2>1. k + 1 \in 1 .. N /\ (k + 1) - 1 = k /\ k + 1 \in 0 .. N /\ k + 1 # 0
    BY <1>2
  <2>2. c[k + 1] = IF c[k] \in Entries THEN link["next"][c[k]].to ELSE c[k]
    BY <1>10, <2>1
  <2> HIDE DEF F
  <2>3. F[k + 1] = IF F[k] \in Entries THEN link["next"][F[k]].to ELSE F[k]
    BY <1>8, <2>1
  <2> QED BY <2>1, <2>2, <2>3
<1> HIDE DEF T
<1>13. 0 .. N \subseteq T
  BY <1>2, <1>11, <1>12, BoundedInduction
<1>14. \A i \in 0 .. N : c[i] = IF f + i <= l THEN f + i ELSE tail
  BY <1>13 DEF T
<1> QED BY <1>1, <1>6, <1>14

LEMMA OldestBounds ==
  ASSUME FifoInv
  PROVE  /\ Oldest \in Nat /\ Oldest <= linked + 1 /\ Oldest >= 1 /\ Oldest \in {First, First + 1}
         /\ \A n \in First .. linked : link["next"][n].mark <=> n < Oldest
<1>1. linked \in Nat /\ First \in 1 .. linked + 1
  BY FirstBounds DEF FifoInv
<1>2. \A n \in First .. linked : link["next"][n].mark => n = First
  BY DEF FifoInv, OrderInv
<1> QED BY <1>1, <1>2 DEF Oldest

\* Kept gathers the entries from the oldest on.
LEMMA KeptForm ==
  ASSUME FifoInv
  PROVE  \A i \in 0 .. MaxPush :
           Kept[i] = Run(Oldest, IF First + i - 1 <= linked THEN First + i - 1 ELSE linked)
<1>1. PICK f, l, N, o : f = First /\ l = linked /\ N = MaxPush /\ o = Oldest
  OBVIOUS
<1>2. /\ l \in Nat /\ N \in Nat /\ l <= N /\ f \in 1 .. l + 1 /\ tail = N + 1
      /\ o \in Nat /\ o <= l + 1 /\ o \in {f, f + 1}
  BY <1>1, FirstBounds, OldestBounds DEF FifoInv
<1>3. \A n \in f .. l : link["next"][n].mark <=> n < o
  BY <1>1, OldestBounds
<1>4. \A n : n \in Entries <=> n \in 1 .. N
  BY <1>1 DEF Entries
<1>5. \A i \in 0 .. N : Nth[i] = IF f + i <= l THEN f + i ELSE tail
  BY <1>1, NthForm
<1> DEFINE Rec(c) == [i \in 0 .. N |->
                        IF i = 0 THEN <<>>
                        ELSE IF Nth[i - 1] \in Entries /\ ~link["next"][Nth[i - 1]].mark
                             THEN Append(c[i - 1], Nth[i - 1]) ELSE c[i - 1]]
           F == [i \in 0 .. N |-> Run(o, IF f + i - 1 <= l THEN f + i - 1 ELSE l)]
           c == CHOOSE d : d = Rec(d)
<1>6. Kept = c
  BY <1>1 DEF Kept
<1>7. F[0] = <<>>
  <2>1. f + 0 - 1 = f - 1 /\ f - 1 <= l /\ o > f - 1 /\ f - 1 \in Int /\ o \in Int
    BY <1>2
  <2>2. F[0] = Run(o, f - 1)
    BY <2>1, <1>2
  <2> QED BY <2>1, <2>2, Runs
<1>8. ASSUME NEW i \in 1 .. N
      PROVE  F[i] = IF Nth[i - 1] \in Entries /\ ~link["next"][Nth[i - 1]].mark
                    THEN Append(F[i - 1], Nth[i - 1]) ELSE F[i - 1]
  <2>1. PICK n : n = f + (i - 1)
    OBVIOUS
  <2>2. /\ n \in Nat /\ n >= f /\ n >= 1 /\ f + i - 1 = n /\ f + (i - 1) - 1 = n - 1
        /\ i - 1 \in 0 .. N /\ i \in 0 .. N
    BY <2>1, <1>2
  <2>3. /\ F[i - 1] = Run(o, IF n - 1 <= l THEN n - 1 ELSE l)
        /\ F[i] = Run(o, IF n <= l THEN n ELSE l)
    BY <2>2
  <2>4. Nth[i - 1] = IF n <= l THEN n ELSE tail
    BY <1>5, <2>1, <2>2
  <2> HIDE DEF F
  <2>5. CASE n <= l
    <3>1. Nth[i - 1] = n /\ n \in Entries /\ n \in f .. l /\ n - 1 <= l
      BY <2>2, <2>4, <2>5, <1>2, <1>4
    <3>2. F[i - 1] = Run(o, n - 1) /\ F[i] = Run(o, n)
      BY <2>3, <2>5, <3>1
    <3>3. link["next"][n].mark <=> n < o
      BY <1>3, <3>1
    <3>4. CASE n < o
      <4>1. o > n - 1 /\ o > n /\ n \in Int /\ o \in Int /\ n - 1 \in Int
        BY <3>4, <2>2, <1>2
      <4>2. Run(o, n - 1) = <<>> /\ Run(o, n) = <<>>
        BY <4>1, Runs
      <4> QED BY <3>1, <3>2, <3>3, <3>4, <4>2
    <3>5. CASE ~(n < o)
      <4>1. o <= (n - 1) + 1 /\ o \in Int /\ n - 1 \in Int /\ (n - 1) + 1 = n
        BY <3>5, <2>2, <1>2
      <4>2. Append(Run(o, n - 1), (n - 1) + 1) = Run(o, (n - 1) + 1)
        BY <4>1, Runs
      <4>3. Append(Run(o, n - 1), n) = Run(o, n)
        BY <4>1, <4>2
      <4> QED BY <3>1, <3>2, <3>3, <3>5, <4>3
    <3> QED BY <3>4, <3>5
  <2>6. CASE ~(n <= l)
    <3>1. Nth[i - 1] = tail /\ tail \notin Entries /\ (IF n - 1 <= l THEN n - 1 ELSE l) = l
      BY <2>2, <2>4, <2>6, <1>2, <1>4
    <3> QED BY <3>1, <2>3, <2>6
  <2> QED BY <2>5, <2>6
<1>9. F = Rec(F)
  <2>1. F = [i \in 0 .. N |-> F[i]]
    OBVIOUS
  <2> HIDE DEF F
  <2>2. \A i \in 0 .. N : F[i] = IF i = 0 THEN <<>>
                                ELSE IF Nth[i - 1] \in Entries /\ ~link["next"][Nth[i - 1]].mark
                                     THEN Append(F[i - 1], Nth[i - 1]) ELSE F[i - 1]
    BY <1>7, <1>8, <1>2
  <2> QED BY <2>1, <2>2
<1>10. c = Rec(c)
  BY <1>9, ZenonT(60)
<1> HIDE DEF c
<1> DEFINE T == {k \in 0 .. N : c[k] = F[k]}
<1>11. 0 \in T
  BY <1>10, <1>7, <1>2
<1>12. \A k \in 0 .. N - 1 : k \in T => k + 1 \in T
  <2> TAKE k \in 0 .. N - 1
  <2> HAVE k \in T
  <2>1. k + 1 \in 1 .. N /\ (k + 1) - 1 = k /\ k + 1 \in 0 .. N /\ k + 1 # 0
    BY <1>2
  <2>2. c[k + 1] = IF Nth[k] \in Entries /\ ~link["next"][Nth[k]].mark THEN Append(c[k], Nth[k]) ELSE c[k]
    BY <1>10, <2>1, ZenonT(60)
  <2> HIDE DEF F
  <2>3. F[k + 1] = IF Nth[k] \in Entries /\ ~link["next"][Nth[k]].mark THEN Append(F[k], Nth[k]) ELSE F[k]
    BY <1>8, <2>1
  <2> QED BY <2>1, <2>2, <2>3
<1> HIDE DEF T
<1>13. 0 .. N \subseteq T
  BY <1>2, <1>11, <1>12, BoundedInduction
<1>14. \A i \in 0 .. N : c[i] = Run(o, IF f + i - 1 <= l THEN f + i - 1 ELSE l)
  BY <1>13 DEF T
<1> QED BY <1>1, <1>6, <1>14

ItemsInv == Items = Run(Oldest, linked)

LEMMA ItemsRun == FifoInv => ItemsInv
<1> SUFFICES ASSUME FifoInv PROVE Items = Run(Oldest, linked)
  BY DEF ItemsInv
<1>1. linked \in Nat /\ First \in 1 .. linked + 1 /\ MaxPush \in Nat /\ linked <= MaxPush
  BY FirstBounds DEF FifoInv
<1>2. MaxPush \in 0 .. MaxPush
  BY <1>1
<1>3. Kept[MaxPush] = Run(Oldest, IF First + MaxPush - 1 <= linked THEN First + MaxPush - 1 ELSE linked)
  BY <1>2, KeptForm
<1>4. (IF First + MaxPush - 1 <= linked THEN First + MaxPush - 1 ELSE linked) = linked
  BY <1>1
<1> QED BY <1>3, <1>4 DEF Items

PushingInv ==
  Pushing = IF todo[Producer] = <<>> THEN Idle ELSE [value |-> made, done |-> ~Unlinked]

\* Whether a call of push has taken effect shows in its last instruction.
LEMMA PushingIs == FifoInv => PushingInv
<1> SUFFICES ASSUME FifoInv, todo[Producer] # <<>>
             PROVE  Pushing = [value |-> made, done |-> ~Unlinked]
  BY DEF PushingInv, Pushing
<1> DEFINE Free(o) == o.op # "link" /\ ~(o.op \in {"deref", "look", "recheck", "claim"} /\ o.as = "push")
<1>1. LinkInv /\ Producer \in Threads
  BY DEF FifoInv, Threads
<1>2. PICK u \in Seq(Before(Producer)) : todo[Producer] = Append(u, Aim(Producer))
  BY <1>1 DEF LinkInv, InCall, Toward
<1>3. PICK a : a = Aim(Producer)
  OBVIOUS
<1>4. Len(todo[Producer]) = Len(u) + 1 /\ Len(u) \in Nat /\ todo[Producer][Len(u) + 1] = a
  BY <1>2, <1>3
<1>5. ASSUME NEW x \in Before(Producer) PROVE Free(x)
  <2>1. x \in Counting \/ x.op \in {"store", "swap"}
    BY <1>1, BeforeOps DEF Producer, Consumer
  <2>2. CASE x \in Counting
    BY <2>2, CountingOps DEF Looks
  <2> QED BY <2>1, <2>2
<1>6. Free(a) <=> ~Unlinked
  <2>1. /\ a.op \in {"deref", "link", "back", "grow"} \cup Looks
        /\ a.op \in {"deref"} \cup Looks => a.as = "push"
    BY <1>1, <1>3, AimOps
  <2>2. Unlinked <=> a.op \in {"deref", "link"} \cup Looks
    BY <1>3 DEF Unlinked
  <2> QED BY <2>1, <2>2 DEF Looks
<1>7. \A i \in 1 .. Len(u) : todo[Producer][i] \in Before(Producer)
  BY <1>2
<1> HIDE DEF Free
<1>8. (\A i \in 1 .. Len(todo[Producer]) : Free(todo[Producer][i])) <=> ~Unlinked
  <2>1. \A i \in 1 .. Len(u) : Free(todo[Producer][i])
    BY <1>5, <1>7
  <2>2. \A i \in 1 .. Len(u) + 1 : i \in 1 .. Len(u) \/ i = Len(u) + 1
    BY <1>4
  <2>3. Len(u) + 1 \in 1 .. Len(u) + 1
    BY <1>4
  <2> QED BY <1>4, <1>6, <2>1, <2>2, <2>3
<1>9. Pushing = [value |-> made, done |-> \A i \in 1 .. Len(todo[Producer]) : Free(todo[Producer][i])]
  BY DEF Pushing, Free
<1> QED BY <1>8, <1>9

-----------------------------------------------------------------------------
(* The refinement. *)

LEMMA ItemsNext == ASSUME FifoInv' PROVE Items' = Run(Oldest', linked')
<1>1. (FifoInv => ItemsInv)'
  BY ItemsRun, PTL
<1>2. ItemsInv'
  BY <1>1
<1> QED BY <1>2 DEF ItemsInv, Run

LEMMA PushingNext ==
  ASSUME FifoInv'
  PROVE  Pushing' = IF todo'[Producer] = <<>> THEN Idle ELSE [value |-> made', done |-> ~Unlinked']
<1>1. (FifoInv => PushingInv)'
  BY PushingIs, PTL
<1>2. PushingInv'
  BY <1>1
<1> QED BY <1>2 DEF PushingInv, Producer

LEMMA DoneSet ==
  ASSUME NEW v, NEW x, NEW y
  PROVE  [[value |-> v, done |-> x] EXCEPT !.done = y] = [value |-> v, done |-> y]
OBVIOUS

\* Each kind of effect a step can have on the list is a step of Fifo.
LEMMA Mapped ==
  ASSUME FifoInv, FifoInv', Effect
  PROVE  Abstract!Next \/ UNCHANGED Abstract!vars
<1>1. /\ Items = Run(Oldest, linked)
      /\ Pushing = IF todo[Producer] = <<>> THEN Idle ELSE [value |-> made, done |-> ~Unlinked]
  BY ItemsRun, PushingIs DEF ItemsInv, PushingInv
<1>2. /\ Items' = Run(Oldest', linked')
      /\ Pushing' = IF todo'[Producer] = <<>> THEN Idle ELSE [value |-> made', done |-> ~Unlinked']
  BY ItemsNext, PushingNext
<1>3. linked \in Nat /\ Oldest \in Nat /\ Oldest <= linked + 1 /\ Oldest >= 1 /\ linked <= made /\ made <= MaxPush
  BY FirstBounds, OldestBounds DEF FifoInv
<1>4. CASE Stutters
  <2>1. Items' = Items /\ Pushing' = Pushing /\ UNCHANGED <<popping, last>>
    BY <1>1, <1>2, <1>4 DEF Stutters
  <2> QED BY <2>1 DEF Abstract!vars
<1>5. CASE Appends
  <2>1. made \in Entries /\ made = linked + 1
    BY <1>3, <1>5, FirstBounds DEF Appends, FifoInv, Entries
  <2>2. Items' = Append(Items, made)
    <3>1. Oldest \in Int /\ linked \in Int
      BY <1>3
    <3>2. Append(Run(Oldest, linked), linked + 1) = Run(Oldest, linked + 1)
      BY <3>1, <1>3, Runs
    <3> QED BY <1>1, <1>2, <1>5, <2>1, <3>2 DEF Appends
  <2>3. Pushing = [value |-> made, done |-> FALSE] /\ Pushing' = [value |-> made, done |-> TRUE]
    BY <1>1, <1>2, <1>5 DEF Appends
  <2>4. Pushing # Idle
    BY <2>1, <2>3, SignalsAssumption DEF Entries
  <2>5. ~Pushing.done /\ Pushing.value = made /\ Pushing' = [Pushing EXCEPT !.done = TRUE]
    <3>1. PICK p, q, v : p = Pushing /\ q = Pushing' /\ v = made
      OBVIOUS
    <3>2. p = [value |-> v, done |-> FALSE] /\ q = [value |-> v, done |-> TRUE]
      BY <2>3, <3>1
    <3>3. [p EXCEPT !.done = TRUE] = [value |-> v, done |-> TRUE]
      <4>1. [[value |-> v, done |-> FALSE] EXCEPT !.done = TRUE] = [value |-> v, done |-> TRUE]
        BY DoneSet
      <4> QED BY <3>2, <4>1, Zenon
    <3>4. ~p.done /\ p.value = v
      BY <3>2
    <3> QED BY <3>1, <3>2, <3>3, <3>4
  <2>6. UNCHANGED <<popping, last>>
    BY <1>5 DEF Appends
  <2>7. Abstract!PushEffect
    BY <2>2, <2>4, <2>5, <2>6 DEF Abstract!PushEffect
  <2> QED BY <2>7 DEF Abstract!Next
<1>6. CASE PushOver
  <2>1. made \in Entries
    <3>1. made >= 1 /\ made \in Nat
      BY <1>6, <1>3, FirstBounds DEF PushOver, FifoInv, LinkInv, PushInv
    <3> QED BY <3>1, <1>3 DEF Entries
  <2>2. Pushing = [value |-> made, done |-> TRUE] /\ Pushing' = Idle /\ Items' = Items
    BY <1>1, <1>2, <1>6 DEF PushOver
  <2>3. Pushing # Idle
    BY <2>1, <2>2, SignalsAssumption DEF Entries
  <2>4. Abstract!PushReturn
    BY <2>2, <2>3, <1>6 DEF Abstract!PushReturn, PushOver
  <2> QED BY <2>4 DEF Abstract!Next
<1>7. CASE PushNew
  <2>1. Pushing = Idle /\ Pushing' = [value |-> made', done |-> FALSE] /\ Items' = Items /\ made' \in Entries
    BY <1>1, <1>2, <1>7 DEF PushNew
  <2>2. Abstract!PushCall
    BY <2>1, <1>7 DEF Abstract!PushCall, Abstract!Call, PushNew
  <2> QED BY <2>2 DEF Abstract!Next
<1>8. CASE PopsNothing
  <2>1. Items' = Items /\ Pushing' = Pushing
    BY <1>1, <1>2, <1>8 DEF PopsNothing
  <2>2. Items = <<>>
    <3>1. Oldest \in Int /\ linked \in Int /\ Oldest > linked
      BY <1>3, <1>8 DEF PopsNothing
    <3> QED BY <1>1, <3>1, Runs
  <2>3. Abstract!PopEffect
    BY <2>1, <2>2, <1>8 DEF Abstract!PopEffect, PopsNothing
  <2> QED BY <2>3 DEF Abstract!Next
<1>9. CASE PopsOldest
  <2>1. Items' = Run(Oldest + 1, linked) /\ Pushing' = Pushing
    BY <1>1, <1>2, <1>9 DEF PopsOldest
  <2>2. Oldest \in Int /\ linked \in Int /\ Oldest <= linked
    BY <1>3, <1>9 DEF PopsOldest
  <2>3. Items # <<>> /\ Head(Items) = Oldest /\ Tail(Items) = Items'
    BY <1>1, <2>1, <2>2, Runs
  <2>4. Abstract!PopEffect
    BY <2>1, <2>3, <1>9 DEF Abstract!PopEffect, PopsOldest
  <2> QED BY <2>4 DEF Abstract!Next
<1>10. CASE PopOver
  <2>1. Items' = Items /\ Pushing' = Pushing
    BY <1>1, <1>2, <1>10 DEF PopOver
  <2>2. popping \notin {Idle, Undecided}
    BY <1>10, SignalsAssumption DEF PopOver, Entries
  <2>3. Abstract!PopReturn
    BY <2>1, <2>2, <1>10 DEF Abstract!PopReturn, PopOver
  <2> QED BY <2>3 DEF Abstract!Next
<1>11. CASE PopNew
  <2>1. Items' = Items /\ Pushing' = Pushing
    BY <1>1, <1>2, <1>11 DEF PopNew
  <2>2. Abstract!PopCall
    BY <2>1, <1>11 DEF Abstract!PopCall, PopNew
  <2> QED BY <2>2 DEF Abstract!Next
<1> QED BY <1>4, <1>5, <1>6, <1>7, <1>8, <1>9, <1>10, <1>11 DEF Effect

LEMMA EmptyQueue == Init => Abstract!Init
<1> SUFFICES ASSUME Init PROVE Abstract!Init
  OBVIOUS
<1>1. FifoInv
  BY FifoStarts
<1>2. Items = Run(Oldest, linked)
  BY <1>1, ItemsRun DEF ItemsInv
<1>3. linked \in Nat /\ linked <= made /\ Oldest \in Nat /\ Oldest >= 1
  BY <1>1, FirstBounds, OldestBounds DEF FifoInv
<1>4. made = 0 /\ todo[Producer] = <<>> /\ popping = Idle /\ last = Empty
  BY DEF Init, Threads
<1>5. Oldest > linked /\ Oldest \in Int /\ linked \in Int
  BY <1>3, <1>4
<1>6. Items = <<>>
  BY <1>2, <1>5, Runs
<1>7. Pushing = Idle
  BY <1>4 DEF Pushing
<1> QED BY <1>4, <1>6, <1>7 DEF Abstract!Init

\* queue_push_right and queue_pop_left implement Fifo, for any number of pushes and pops and
\* every interleaving of their accesses: a push appends its value in one instant of its call,
\* a pop takes the oldest value in one instant of its call, or returns NULL only if in that
\* instant the queue was empty, although deref_link may fail while an entry is there.
THEOREM FifoRefined == Spec => FifoImplemented
<1>1. FifoInv /\ [Next]_vars => FifoInv' /\ Effect
  BY FifoStep, FifoStays DEF Effect
<1>2. FifoInv /\ FifoInv' /\ Effect => [Abstract!Next]_(Abstract!vars)
  BY Mapped
<1>3. FifoInv /\ [Next]_vars => FifoInv' /\ [Abstract!Next]_(Abstract!vars)
  BY <1>1, <1>2
<1> QED BY <1>3, FifoStarts, EmptyQueue, PTL DEF Spec, FifoImplemented, Abstract!Spec

=============================================================================
