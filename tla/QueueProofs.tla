----------------------------- MODULE QueueProofs -----------------------------
(***************************************************************************)
(* queue_push_right never comes to its retry at tail->prev.  The invariant  *)
(* LinkInv says what the links look like for every place the two threads    *)
(* may be at.  It needs nothing of the reference counts, so the steps of    *)
(* refcnt.c are dealt with at once: they change neither a link nor what the *)
(* call of the thread comes to.                                             *)
(***************************************************************************)
EXTENDS Queue, SequenceTheorems, TLAPS

-----------------------------------------------------------------------------
(* Lists of instructions. *)

LEMMA ConcatOne ==
  ASSUME NEW S, NEW u \in Seq(S), NEW v \in Seq(S), NEW g
  PROVE  u \o Append(v, g) = Append(u \o v, g)
<1> DEFINE T == S \cup {g}
<1>1. u \in Seq(T) /\ v \in Seq(T) /\ g \in T
  OBVIOUS
<1> HIDE DEF T
<1>2. Append(v, g) \in Seq(T) /\ u \o v \in Seq(T)
  BY <1>1, AppendProperties, ConcatProperties
<1>3. Append(v, g) = v \o <<g>> /\ Append(u \o v, g) = (u \o v) \o <<g>>
  BY <1>1, <1>2, AppendIsConcat
<1>4. <<g>> \in Seq(T)
  BY <1>1
<1> QED BY <1>1, <1>3, <1>4, ConcatAssociative

LEMMA TowardParts ==
  ASSUME NEW A, NEW g, NEW s, Toward(s, A, g)
  PROVE  /\ s # <<>> /\ s[Len(s)] = g /\ Len(s) \in Nat
         /\ \/ Head(s) = g /\ Tail(s) = <<>> /\ Len(s) = 1 /\ s = <<g>>
            \/ Head(s) \in A /\ Toward(Tail(s), A, g)
<1>1. PICK u \in Seq(A) : s = Append(u, g)
  BY DEF Toward
<1>2. u \in Seq(A \cup {g}) /\ g \in A \cup {g}
  OBVIOUS
<1>3. /\ s \in Seq(A \cup {g}) /\ Len(s) = Len(u) + 1 /\ s[Len(u) + 1] = g
      /\ \A i \in 1 .. Len(u) : s[i] = u[i]
  BY <1>1, <1>2, AppendProperties
<1>4. Len(u) \in Nat
  OBVIOUS
<1>5. CASE u = <<>>
  BY <1>1, <1>5
<1>6. CASE u # <<>>
  <2>1. Head(u) \in A /\ Tail(u) \in Seq(A) /\ u = <<Head(u)>> \o Tail(u) /\ <<Head(u)>> \in Seq(A)
    BY <1>6, HeadTailProperties
  <2>2. Head(s) = Head(u) /\ Tail(s) = Append(Tail(u), g)
    BY <1>1, <1>6
  <2>3. Toward(Tail(s), A, g)
    BY <2>1, <2>2 DEF Toward
  <2> QED BY <1>3, <1>4, <2>1, <2>2, <2>3
<1> QED BY <1>5, <1>6

LEMMA TowardConcat ==
  ASSUME NEW A, NEW g, NEW s, Toward(s, A, g), NEW new \in Seq(A)
  PROVE  Toward(new \o s, A, g)
<1>1. PICK u \in Seq(A) : s = Append(u, g)
  BY DEF Toward
<1>2. new \o Append(u, g) = Append(new \o u, g)
  BY ConcatOne
<1>3. new \o u \in Seq(A)
  BY ConcatProperties
<1> QED BY <1>1, <1>2, <1>3 DEF Toward

LEMMA TowardTuples ==
  ASSUME NEW A, NEW g
  PROVE  /\ Toward(<<g>>, A, g)
         /\ \A a \in A : Toward(<<a, g>>, A, g)
         /\ \A a, b \in A : Toward(<<a, b, g>>, A, g)
         /\ \A a, b, c \in A : Toward(<<a, b, c, g>>, A, g)
         /\ \A a, b, c, d, e, f \in A : Toward(<<a, b, c, d, e, f, g>>, A, g)
<1>1. Toward(<<g>>, A, g)
  <2>1. <<>> \in Seq(A) /\ <<g>> = Append(<<>>, g)
    OBVIOUS
  <2> QED BY <2>1 DEF Toward
<1>2. ASSUME NEW a \in A PROVE Toward(<<a, g>>, A, g)
  <2>1. <<a>> \in Seq(A) /\ <<a, g>> = Append(<<a>>, g)
    OBVIOUS
  <2> QED BY <2>1 DEF Toward
<1>3. ASSUME NEW a \in A, NEW b \in A PROVE Toward(<<a, b, g>>, A, g)
  <2>1. <<a, b>> \in Seq(A) /\ <<a, b, g>> = Append(<<a, b>>, g)
    OBVIOUS
  <2> QED BY <2>1 DEF Toward
<1>4. ASSUME NEW a \in A, NEW b \in A, NEW c \in A PROVE Toward(<<a, b, c, g>>, A, g)
  <2>1. <<a, b, c>> \in Seq(A) /\ <<a, b, c, g>> = Append(<<a, b, c>>, g)
    OBVIOUS
  <2> QED BY <2>1 DEF Toward
<1>5. ASSUME NEW a \in A, NEW b \in A, NEW c \in A, NEW d \in A, NEW e \in A, NEW f \in A
      PROVE  Toward(<<a, b, c, d, e, f, g>>, A, g)
  <2>1. <<a, b, c, d, e, f>> \in Seq(A)
    OBVIOUS
  <2>2. <<a, b, c, d, e, f, g>> = Append(<<a, b, c, d, e, f>>, g)
    OBVIOUS
  <2> QED BY <2>1, <2>2 DEF Toward
<1> QED BY <1>1, <1>2, <1>3, <1>4, <1>5

\* A store that is still to be made, and not the first instruction, stays to be made.
LEMMA StoresKept ==
  ASSUME NEW S, NEW s \in Seq(S), s # <<>>, NEW new \in Seq(S), StoresNext(s),
         ~(Head(s).op \in {"store", "swap"} /\ Head(s).f = "next") \/ StoresNext(new)
  PROVE  StoresNext(new \o Tail(s))
<1>1. Head(s) = s[1] /\ Tail(s) \in Seq(S) /\ Len(Tail(s)) = Len(s) - 1
  BY HeadTailProperties
<1>2. \A i \in 1 .. Len(Tail(s)) : Tail(s)[i] = s[i + 1]
  BY HeadTailProperties
<1>3. Len(s) \in Nat /\ Len(new) \in Nat /\ Len(Tail(s)) \in Nat
  BY <1>1, LenProperties
<1> DEFINE w == Tail(s)
           r == new \o w
<1>4. /\ Len(r) = Len(new) + Len(w)
      /\ \A i \in 1 .. Len(new) + Len(w) : r[i] = IF i <= Len(new) THEN new[i] ELSE w[i - Len(new)]
  BY <1>1, ConcatProperties
<1> HIDE DEF r, w
<1>5. CASE StoresNext(new)
  <2>1. PICK i \in 1 .. Len(new) : new[i].op \in {"store", "swap"} /\ new[i].f = "next"
    BY <1>5 DEF StoresNext
  <2>2. i \in 1 .. Len(new) + Len(w) /\ r[i] = new[i]
    BY <1>3, <1>4, <2>1 DEF w
  <2>3. StoresNext(r)
    BY <1>4, <2>1, <2>2 DEF StoresNext
  <2> QED BY <2>3 DEF r, w
<1>6. CASE ~StoresNext(new)
  <2>1. PICK i \in 1 .. Len(s) : s[i].op \in {"store", "swap"} /\ s[i].f = "next"
    BY DEF StoresNext
  <2>2. i # 1
    BY <1>1, <1>6, <2>1
  <2>3. i - 1 \in 1 .. Len(w) /\ w[i - 1] = s[i]
    <3>1. i - 1 \in 1 .. Len(w)
      BY <1>1, <1>3, <2>2 DEF w
    <3>2. w[i - 1] = s[(i - 1) + 1]
      BY <1>2, <3>1 DEF w
    <3> QED BY <3>1, <3>2
  <2>4. Len(new) + (i - 1) \in 1 .. Len(new) + Len(w) /\ r[Len(new) + (i - 1)] = w[i - 1]
    <3>1. Len(new) + (i - 1) \in 1 .. Len(new) + Len(w) /\ ~(Len(new) + (i - 1) <= Len(new))
      BY <1>3, <2>3
    <3>2. r[Len(new) + (i - 1)] = w[(Len(new) + (i - 1)) - Len(new)]
      BY <1>4, <3>1
    <3>3. (Len(new) + (i - 1)) - Len(new) = i - 1
      BY <1>3
    <3> QED BY <3>1, <3>2, <3>3
  <2>5. StoresNext(r)
    BY <1>4, <2>1, <2>3, <2>4 DEF StoresNext
  <2> QED BY <2>5 DEF r, w
<1> QED BY <1>5, <1>6

-----------------------------------------------------------------------------
(* A thread executes its first instruction, which is the last one, or is not. *)

LEMMA HeadCases ==
  ASSUME LinkInv, NEW t \in Threads, todo[t] # <<>>
  PROVE  \/ todo[t] = <<Aim(t)>> /\ It(t) = Aim(t) /\ Tail(todo[t]) = <<>>
         \/ It(t) \in Before(t) /\ Toward(Tail(todo[t]), Before(t), Aim(t))
<1>1. Toward(todo[t], Before(t), Aim(t))
  BY DEF LinkInv, InCall
<1> QED BY <1>1, TowardParts DEF It

\* The aims, by their operations.
LEMMA AimOps ==
  ASSUME LinkInv
  PROVE  /\ todo[Producer] # <<>> =>
              /\ Aim(Producer).op \in {"deref", "link", "back", "grow"} \cup Looks
              /\ Aim(Producer).op \in {"deref"} \cup Looks => Aim(Producer).as = "push"
         /\ todo[Consumer] # <<>> =>
              /\ Aim(Consumer).op \in {"deref", "first", "peek", "marknext", "prev", "markprev",
                                       "unprev", "unlink", "return"} \cup Looks
              /\ Aim(Consumer).op \in {"deref"} \cup Looks => Aim(Consumer).as \in {"pop", "succ"}
<1>1. todo[Producer] # <<>> => Aim(Producer) \in PushAims
  BY DEF LinkInv, PushInv
<1>2. todo[Consumer] # <<>> => Aim(Consumer) \in PopAims
  BY DEF LinkInv, PopInv, PopAt
<1>3. todo[Producer] # <<>> =>
              /\ Aim(Producer).op \in {"deref", "link", "back", "grow"} \cup Looks
              /\ Aim(Producer).op \in {"deref"} \cup Looks => Aim(Producer).as = "push"
  BY <1>1 DEF PushAims, Looks, Op, Deref
<1>4. todo[Consumer] # <<>> =>
              /\ Aim(Consumer).op \in {"deref", "first", "peek", "marknext", "prev", "markprev",
                                       "unprev", "unlink", "return"} \cup Looks
              /\ Aim(Consumer).op \in {"deref"} \cup Looks => Aim(Consumer).as \in {"pop", "succ"}
  BY <1>2 DEF PopAims, Looks, Op, Deref
<1> QED BY <1>3, <1>4

\* The instructions before it, by theirs.
LEMMA BeforeOps ==
  ASSUME NEW t \in Threads, NEW x \in Before(t)
  PROVE  \/ x \in Counting
         \/ t = Consumer /\ x.op = "shrink"
         \/ x.op \in {"store", "swap"}
BY DEF Before, Storing, Op, Threads, Producer, Consumer

LEMMA CountingOps ==
  ASSUME NEW x \in Counting
  PROVE  /\ x.n \in Node /\ x.m \in Node
         /\ \/ x.op \in {"release", "decrement", "mark", "test", "terminate", "unmark", "gc?", "gc", "collect"}
            \/ x.op \in Looks /\ x.as = "retain"
BY DEF Counting, Looks

\* Executing the last instruction replaces it ...
LEMMA LastDone ==
  ASSUME LinkInv, NEW t \in Threads, todo[t] # <<>>, It(t) \notin Before(t),
         NEW S, NEW new \in Seq(S), Then(t, new)
  PROVE  /\ It(t) = Aim(t) /\ todo[t] = <<Aim(t)>>
         /\ todo'[t] = new /\ \A u \in Threads \ {t} : todo'[u] = todo[u]
         /\ DOMAIN todo' = Threads
<1>1. It(t) = Aim(t) /\ todo[t] = <<Aim(t)>> /\ Tail(todo[t]) = <<>>
  BY HeadCases
<1>2. new \o <<>> = new
  BY ConcatEmptySeq
<1>3. DOMAIN todo = Threads
  BY DEF LinkInv
<1> QED BY <1>1, <1>2, <1>3 DEF Then

\* ... and executing another one leaves it where it is.
LEMMA FirstDone ==
  ASSUME LinkInv, NEW t \in Threads, todo[t] # <<>>, It(t) # Aim(t),
         NEW new \in Seq(Before(t)), Then(t, new), made' = made
  PROVE  /\ It(t) \in Before(t)
         /\ \A u \in Threads : /\ Aim(u)' = Aim(u) /\ Before(u)' = Before(u)
                               /\ (InCall(u))' /\ (todo'[u] = <<>> <=> todo[u] = <<>>)
         /\ todo'[t] = new \o Tail(todo[t])
         /\ \A u \in Threads \ {t} : todo'[u] = todo[u]
         /\ DOMAIN todo' = Threads
<1>1. It(t) \in Before(t) /\ Toward(Tail(todo[t]), Before(t), Aim(t))
  BY HeadCases
<1>2. DOMAIN todo = Threads
  BY DEF LinkInv
<1>3. /\ todo'[t] = new \o Tail(todo[t]) /\ DOMAIN todo' = Threads
      /\ \A u \in Threads \ {t} : todo'[u] = todo[u]
  BY <1>2 DEF Then
<1>4. Toward(todo'[t], Before(t), Aim(t))
  BY <1>1, <1>3, TowardConcat
<1>5. todo'[t] # <<>> /\ todo'[t][Len(todo'[t])] = Aim(t)
  BY <1>4, TowardParts
<1>6. \A u \in Threads : Aim(u)' = Aim(u) /\ (todo'[u] = <<>> <=> todo[u] = <<>>)
  BY <1>3, <1>5 DEF Aim
<1>7. Unlinked' = Unlinked
  BY <1>6 DEF Unlinked, Threads
<1>8. \A u \in Threads : Before(u)' = Before(u)
  BY <1>6, <1>7 DEF Before, Storing, Counting
<1>9. \A u \in Threads : (InCall(u))'
  <2> SUFFICES ASSUME NEW u \in Threads, todo'[u] # <<>>
               PROVE  Toward(todo'[u], Before(u)', Aim(u)')
    BY DEF InCall
  <2>1. CASE u = t
    BY <1>4, <1>6, <1>8, <2>1
  <2>2. CASE u # t
    <3>1. todo'[u] = todo[u] /\ Toward(todo[u], Before(u), Aim(u))
      BY <1>3, <2>2 DEF LinkInv, InCall
    <3> QED BY <1>6, <1>8, <3>1
  <2> QED BY <2>1, <2>2
<1> QED BY <1>1, <1>3, <1>6, <1>8, <1>9

\* What the invariant says depends on the links and on what the calls come to.
LEMMA FactsKept ==
  ASSUME LinkInv, UNCHANGED <<link, made>>,
         \A u \in Threads : Aim(u)' = Aim(u) /\ (todo'[u] = <<>> <=> todo[u] = <<>>),
         StoresNext(todo[Producer]) => StoresNext(todo'[Producer])
  PROVE  PushInv' /\ PopInv' /\ ChainInv'
<1>1. /\ Aim(Producer)' = Aim(Producer) /\ Aim(Consumer)' = Aim(Consumer)
      /\ todo'[Producer] = <<>> <=> todo[Producer] = <<>>
      /\ todo'[Consumer] = <<>> <=> todo[Consumer] = <<>>
  BY DEF Threads
<1>2. Unlinked' = Unlinked /\ Linking' = Linking
  BY <1>1 DEF Unlinked, Linking
<1>3. linked' = linked
  BY <1>2 DEF linked
<1>4. PushInv'
  <2>1. PushAims' = PushAims
    BY <1>3 DEF PushAims
  <2> QED BY <1>1, <1>2, <2>1 DEF LinkInv, PushInv
<1>5. PopInv'
  <2>1. PopAims' = PopAims
    BY <1>3 DEF PopAims
  <2> QED BY <1>1, <1>2, <2>1 DEF LinkInv, PopInv, PopAt
<1>6. ChainInv'
  BY <1>2, <1>3 DEF LinkInv, ChainInv
<1> QED BY <1>4, <1>5, <1>6

\* A step of refcnt.c that only counts.
LEMMA CountStep ==
  ASSUME LinkInv, NEW t \in Threads, todo[t] # <<>>, It(t) \in Counting,
         NEW new \in Seq(Counting), Then(t, new), UNCHANGED <<link, made>>
  PROVE  LinkInv'
<1>1. It(t) # Aim(t)
  BY AimOps, CountingOps DEF Threads, Looks
<1>2. Counting \subseteq Before(t)
  BY DEF Before
<1>3. new \in Seq(Before(t))
  BY <1>2
<1>4. /\ \A u \in Threads : /\ Aim(u)' = Aim(u) /\ (InCall(u))'
                            /\ (todo'[u] = <<>> <=> todo[u] = <<>>)
      /\ todo'[t] = new \o Tail(todo[t])
      /\ \A u \in Threads \ {t} : todo'[u] = todo[u]
      /\ DOMAIN todo' = Threads
  BY <1>1, <1>3, FirstDone
<1>5. ASSUME StoresNext(todo[Producer]) PROVE StoresNext(todo'[Producer])
  <2>1. CASE t = Producer
    <3> DEFINE S == Before(t) \cup {Aim(t)}
    <3>1. todo[t] \in Seq(S)
      <4>1. PICK u \in Seq(Before(t)) : todo[t] = Append(u, Aim(t))
        BY DEF LinkInv, InCall, Toward
      <4> QED BY <4>1, AppendProperties
    <3>2. new \in Seq(S)
      BY <1>3
    <3>3. Head(todo[t]).op \notin {"store", "swap"}
      BY CountingOps DEF It, Looks
    <3> HIDE DEF S
    <3>4. StoresNext(new \o Tail(todo[t]))
      BY <1>5, <2>1, <3>1, <3>2, <3>3, StoresKept
    <3> QED BY <1>4, <2>1, <3>4
  <2>2. CASE t # Producer
    BY <1>4, <1>5, <2>2 DEF Threads
  <2> QED BY <2>1, <2>2
<1>6. PushInv' /\ PopInv' /\ ChainInv'
  BY <1>4, <1>5, FactsKept
<1>7. link' \in [{"next", "prev"} -> [Node -> Ptrs]] /\ made' \in 0 .. MaxPush
  BY DEF LinkInv
<1> QED BY <1>4, <1>6, <1>7 DEF LinkInv

-----------------------------------------------------------------------------
(* refcnt.c: the steps that count. *)

LEMMA CountingHead ==
  ASSUME LinkInv, NEW t \in Threads, todo[t] # <<>>,
         \/ It(t).op \in {"release", "decrement", "mark", "test", "terminate", "unmark", "gc?", "gc",
                          "collect"}
         \/ It(t).op \in Looks /\ It(t).as \notin {"push", "pop", "succ"}
  PROVE  It(t) \in Counting
<1>1. It(t) # Aim(t)
  BY AimOps DEF Threads, Looks
<1>2. It(t) \in Before(t)
  BY <1>1, HeadCases
<1> QED BY <1>2, BeforeOps DEF Looks

LEMMA CountingType ==
  ASSUME NEW n \in Node
  PROVE  /\ \A o \in {"release", "decrement", "mark", "test", "terminate", "unmark", "gc?", "gc",
                      "collect"} : Op(o, n, n) \in Counting /\ <<Op(o, n, n)>> \in Seq(Counting)
         /\ Release(n) \in Counting /\ Retain(n) \in Counting
         /\ <<Release(n)>> \in Seq(Counting) /\ <<Retain(n)>> \in Seq(Counting)
         /\ <<>> \in Seq(Counting)
<1>1. \A o \in {"release", "decrement", "mark", "test", "terminate", "unmark", "gc?", "gc", "collect"} :
        Op(o, n, n) \in Counting
  BY DEF Op, Counting
<1>2. Release(n) \in Counting /\ Retain(n) \in Counting
  BY DEF Release, Op, Retain, Look, Counting
<1> QED BY <1>1, <1>2

LEMMA Sentinels == head \in Node /\ tail \in Node /\ NULL \notin Node /\ head # tail
BY MaxPushAssumption, EarlierAssumption, ThresholdAssumption
DEF head, tail, Node, NULL, Entries, Old

LEMMA ReleaseSteps ==
  ASSUME LinkInv, NEW t \in Threads,
         \/ ReleaseRead(t) \/ ReleaseDecrement(t) \/ ReleaseMark(t) \/ ReleaseTest(t)
         \/ ReleaseTerminate(t) \/ ReleaseUnmark(t) \/ ReleaseThreshold(t)
         \/ GcTest(t) \/ GcCollect(t)
  PROVE  LinkInv'
<1>1. todo[t] # <<>> /\ It(t).op \in {"release", "decrement", "mark", "test", "terminate", "unmark",
                                       "gc?", "gc", "collect"} /\ UNCHANGED <<link, made>>
  BY DEF ReleaseRead, ReleaseDecrement, ReleaseMark, ReleaseTest, ReleaseTerminate, ReleaseUnmark,
         ReleaseThreshold, GcTest, GcCollect, At, It
<1>2. It(t) \in Counting
  BY <1>1, CountingHead
<1>3. It(t).n \in Node
  BY <1>2, CountingOps
<1> SUFFICES \E new \in Seq(Counting) : Then(t, new)
  BY <1>1, <1>2, CountStep
<1> DEFINE n == It(t).n
<1>4. CASE ReleaseRead(t)
  <2> DEFINE a == IF count[n] > 0 THEN <<Op("decrement", n, n)>> ELSE <<>>
  <2>1. a \in Seq(Counting) /\ <<Op("mark", n, n)>> \in Seq(Counting)
    BY <1>3, CountingType
  <2>2. a \o <<Op("mark", n, n)>> \in Seq(Counting)
    BY <2>1, ConcatProperties
  <2>3. Then(t, a \o <<Op("mark", n, n)>>)
    BY <1>4 DEF ReleaseRead
  <2> QED BY <2>2, <2>3
<1>5. CASE ReleaseDecrement(t)
  BY <1>3, <1>5, CountingType DEF ReleaseDecrement
<1>6. CASE ReleaseMark(t)
  BY <1>3, <1>6, CountingType, Sentinels DEF ReleaseMark
<1>7. CASE ReleaseTest(t)
  BY <1>3, <1>7, CountingType DEF ReleaseTest
<1>8. CASE ReleaseTerminate(t)
  BY <1>3, <1>8, CountingType, Sentinels DEF ReleaseTerminate
<1>9. CASE ReleaseUnmark(t)
  BY <1>3, <1>9, CountingType, Sentinels DEF ReleaseUnmark
<1>10. CASE ReleaseThreshold(t)
  BY <1>3, <1>10, CountingType, Sentinels DEF ReleaseThreshold
<1>11. CASE GcTest(t)
  BY <1>3, <1>11, CountingType, Sentinels DEF GcTest
<1>12. CASE GcCollect(t)
  BY <1>3, <1>12, CountingType, Sentinels DEF GcCollect
<1> QED BY <1>4, <1>5, <1>6, <1>7, <1>8, <1>9, <1>10, <1>11, <1>12

\* retain_ref.
LEMMA RetainSteps ==
  ASSUME LinkInv, NEW t \in Threads, DerefDelete(t) \/ DerefCount(t) \/ DerefClaim(t),
         It(t).as \notin {"push", "pop", "succ"}
  PROVE  LinkInv'
<1>1. todo[t] # <<>> /\ It(t).op \in Looks /\ UNCHANGED <<link, made>>
  BY DEF DerefDelete, DerefCount, DerefClaim, At, It, Looks
<1>2. It(t) \in Counting
  BY <1>1, CountingHead
<1>3. It(t).n \in Node /\ It(t).m \in Node /\ It(t).as = "retain"
  BY <1>1, <1>2, CountingOps DEF Looks
<1>4. \A o \in Looks : [It(t) EXCEPT !.op = o] \in Counting
  <2>1. It(t) \in [op : Looks, n : Node, as : {"retain"}, m : Node]
    BY <1>1, <1>2 DEF Counting, Looks
  <2> QED BY <2>1 DEF Counting, Looks
<1>5. <<>> \in Seq(Counting) /\ \A o \in Looks : <<[It(t) EXCEPT !.op = o]>> \in Seq(Counting)
  BY <1>4
<1> SUFFICES \E new \in Seq(Counting) : Then(t, new)
  BY <1>1, <1>2, CountStep
<1>6. CASE DerefDelete(t)
  <2>1. (IF delete[It(t).n] THEN "recheck" ELSE "claim") \in Looks
    BY DEF Looks
  <2> QED BY <1>5, <1>6, <2>1 DEF DerefDelete
<1>7. CASE DerefCount(t)
  <2>1. Failed(It(t).as, It(t).m) = <<>> /\ "claim" \in Looks
    BY <1>3 DEF Failed, Looks
  <2> QED BY <1>5, <1>7, <2>1 DEF DerefCount
<1>8. CASE DerefClaim(t)
  <2>1. Acquired(It(t).as, It(t).m, It(t).n) = <<>>
    BY <1>3 DEF Acquired
  <2> QED BY <1>5, <1>8, <2>1 DEF DerefClaim
<1> QED BY <1>6, <1>7, <1>8

-----------------------------------------------------------------------------
(* One thread moves on, the other stays. *)

LEMMA ProducerStays ==
  ASSUME LinkInv, made' = made, todo'[Producer] = todo[Producer]
  PROVE  /\ Aim(Producer)' = Aim(Producer) /\ Unlinked' = Unlinked /\ Linking' = Linking
         /\ linked' = linked /\ PushAims' = PushAims /\ PopAims' = PopAims
         /\ (InCall(Producer))'
<1>1. Aim(Producer)' = Aim(Producer)
  BY DEF Aim
<1>2. Unlinked' = Unlinked /\ Linking' = Linking
  BY <1>1 DEF Unlinked, Linking
<1>3. linked' = linked
  BY <1>2 DEF linked
<1>4. PushAims' = PushAims
  BY <1>3 DEF PushAims
<1>5. PopAims' = PopAims
  BY <1>3 DEF PopAims
<1>6. (InCall(Producer))'
  <2>1. Before(Producer)' = Before(Producer)
    BY <1>1, <1>2 DEF Before, Storing, Counting
  <2>2. InCall(Producer)
    BY DEF LinkInv, Threads
  <2> QED BY <1>1, <2>1, <2>2 DEF InCall
<1> QED BY <1>1, <1>2, <1>3, <1>4, <1>5, <1>6

LEMMA ConsumerStays ==
  ASSUME LinkInv, todo'[Consumer] = todo[Consumer]
  PROVE  Aim(Consumer)' = Aim(Consumer) /\ (InCall(Consumer))'
<1>1. Aim(Consumer)' = Aim(Consumer)
  BY DEF Aim
<1>2. Before(Consumer)' = Before(Consumer)
  BY <1>1 DEF Before, Storing, Counting, Producer, Consumer
<1>3. InCall(Consumer)
  BY DEF LinkInv, Threads
<1> QED BY <1>1, <1>2, <1>3 DEF InCall

LEMMA NewAim ==
  ASSUME NEW t \in Threads, NEW B, NEW g, Toward(todo'[t], B, g)
  PROVE  /\ Aim(t)' = g /\ todo'[t] # <<>>
         /\ B \subseteq Before(t)' => (InCall(t))'
<1>1. Aim(t)' = g /\ todo'[t] # <<>>
  BY TowardParts DEF Aim
<1>2. ASSUME B \subseteq Before(t)' PROVE (InCall(t))'
  <2>1. PICK u \in Seq(B) : todo'[t] = Append(u, g)
    BY DEF Toward
  <2>2. u \in Seq(Before(t)')
    BY <1>2
  <2> QED BY <1>1, <2>1, <2>2 DEF InCall, Toward
<1> QED BY <1>1, <1>2

LEMMA CountingBefore == \A t \in Threads : Counting \subseteq Before(t) /\ (Counting \subseteq Before(t))'
BY DEF Before

\* pop moves on and changes no link.
LEMMA PopMoves ==
  ASSUME LinkInv, UNCHANGED <<link, made>>, todo'[Producer] = todo[Producer],
         DOMAIN todo' = Threads, NEW g, PopAt(g), Toward(todo'[Consumer], Counting, g)
  PROVE  LinkInv'
<1>1. Consumer \in Threads /\ Producer \in Threads /\ Threads = {Producer, Consumer}
  BY DEF Threads
<1>2. Aim(Consumer)' = g /\ (InCall(Consumer))'
  BY <1>1, NewAim, CountingBefore
<1>3. /\ Aim(Producer)' = Aim(Producer) /\ Unlinked' = Unlinked /\ Linking' = Linking
      /\ linked' = linked /\ PushAims' = PushAims /\ PopAims' = PopAims
      /\ (InCall(Producer))'
  BY ProducerStays
<1>4. PushInv'
  BY <1>3 DEF LinkInv, PushInv
<1>5. PopInv'
  BY <1>2, <1>3 DEF PopInv, PopAt
<1>6. ChainInv'
  BY <1>3 DEF LinkInv, ChainInv
<1>7. link' \in [{"next", "prev"} -> [Node -> Ptrs]] /\ made' \in 0 .. MaxPush
  BY DEF LinkInv
<1> QED BY <1>1, <1>2, <1>3, <1>4, <1>5, <1>6, <1>7 DEF LinkInv

\* push moves on, changes no link, and its entry stays out of the list.
LEMMA PushMoves ==
  ASSUME LinkInv, UNCHANGED <<link, made>>, todo'[Consumer] = todo[Consumer],
         DOMAIN todo' = Threads, Unlinked, NEW B, NEW g, Toward(todo'[Producer], B, g),
         B \subseteq Before(Producer)',
         g \in PushAims, g.op \in {"deref", "link"} \cup Looks,
         g.op = "link" => StoresNext(todo'[Producer])
  PROVE  LinkInv'
<1>1. Consumer \in Threads /\ Producer \in Threads /\ Threads = {Producer, Consumer}
  BY DEF Threads
<1>2. Aim(Producer)' = g /\ (InCall(Producer))'
  BY <1>1, NewAim
<1>3. Unlinked' /\ ~Linking' /\ ~Linking
  BY <1>2 DEF Unlinked, Linking, Looks
<1>4. linked' = linked
  BY <1>3 DEF linked
<1>5. PushAims' = PushAims /\ PopAims' = PopAims
  BY <1>4 DEF PushAims, PopAims
<1>6. Aim(Consumer)' = Aim(Consumer) /\ (InCall(Consumer))'
  BY ConsumerStays
<1>7. PushInv'
  <2>1. made >= 1
    <3>1. todo[Producer] # <<>>
      BY DEF Unlinked, Aim, Op, Looks
    <3> QED BY <3>1 DEF LinkInv, PushInv
  <2> QED BY <1>2, <1>3, <1>5, <2>1 DEF PushInv
<1>8. PopInv'
  BY <1>3, <1>5, <1>6 DEF LinkInv, PopInv, PopAt
<1>9. ChainInv'
  BY <1>3, <1>4 DEF LinkInv, ChainInv
<1>10. link' \in [{"next", "prev"} -> [Node -> Ptrs]] /\ made' \in 0 .. MaxPush
  BY DEF LinkInv
<1> QED BY <1>1, <1>2, <1>6, <1>7, <1>8, <1>9, <1>10 DEF LinkInv

-----------------------------------------------------------------------------
(* queue_push_right *)

LEMMA Bounds ==
  ASSUME LinkInv
  PROVE  /\ made \in Nat /\ tail = MaxPush + 1 /\ head = 0 /\ MaxPush \in Nat \ {0} /\ made <= MaxPush
         /\ 0 .. made \subseteq Node /\ 1 .. made \subseteq Entries /\ Entries \subseteq Node
         /\ linked \in Int /\ linked <= made /\ made - 1 <= linked
         /\ Unlinked => linked = made - 1
         /\ ~Unlinked => linked = made
BY MaxPushAssumption DEF LinkInv, linked, head, tail, Node, Entries

\* What push is at when its first instruction is one of its own.
LEMMA PushHead ==
  ASSUME LinkInv, todo[Producer] # <<>>, It(Producer) \notin Before(Producer)
  PROVE  /\ It(Producer) = Aim(Producer) /\ todo[Producer] = <<Aim(Producer)>>
         /\ Aim(Producer) \in PushAims /\ made >= 1
<1>1. It(Producer) = Aim(Producer) /\ todo[Producer] = <<Aim(Producer)>>
  BY HeadCases DEF Threads
<1> QED BY <1>1 DEF LinkInv, PushInv

LEMMA PushDerefs ==
  ASSUME LinkInv, \/ DerefLink(Producer) \/ DerefDelete(Producer)
                  \/ DerefCount(Producer) \/ DerefClaim(Producer),
         It(Producer).as = "push"
  PROVE  LinkInv'
<1> DEFINE i == It(Producer)
<1>1. todo[Producer] # <<>> /\ i.op \in {"deref"} \cup Looks /\ UNCHANGED <<link, made>>
  BY DEF DerefLink, DerefDelete, DerefCount, DerefClaim, At, It, Looks
<1>2. i \notin Before(Producer)
  BY <1>1, BeforeOps, CountingOps DEF Looks, Threads, Producer, Consumer
<1>3. i = Aim(Producer) /\ todo[Producer] = <<i>> /\ i \in PushAims /\ made >= 1
  BY <1>1, <1>2, PushHead
<1>4. Unlinked
  BY <1>1, <1>3 DEF Unlinked, Looks
<1>5. linked = made - 1 /\ 0 .. linked \subseteq Node /\ made \in Node /\ NULL \notin 0 .. linked
  BY <1>3, <1>4, Bounds DEF NULL
<1>6. i = Deref("prev", tail, "push", made) \/ i \in [op : Looks, n : 0 .. linked, as : {"push"}, m : {made}]
  BY <1>1, <1>3 DEF PushAims, Op, Looks
<1>7. i.m = made
  BY <1>6 DEF Deref
<1>8. Producer \in Threads
  BY DEF Threads
\* It is enough that the rest leads to one of the aims of a push that is not linked.
<1>9. ASSUME NEW g, Then(Producer, <<g>>), g \in PushAims, g.op \in {"deref"} \cup Looks
      PROVE  LinkInv'
  <2>1. <<g>> \in Seq({g})
    OBVIOUS
  <2>2. todo'[Producer] = <<g>> /\ todo'[Consumer] = todo[Consumer] /\ DOMAIN todo' = Threads
    BY <1>1, <1>2, <1>8, <1>9, <2>1, LastDone DEF Threads, Producer, Consumer
  <2>3. Toward(todo'[Producer], Counting, g)
    BY <2>2, TowardTuples
  <2> QED BY <1>1, <1>4, <1>8, <1>9, <2>2, <2>3, PushMoves, CountingBefore DEF Looks
<1>10. ASSUME NEW o \in Looks, NEW n \in 0 .. linked
       PROVE  [op |-> o, n |-> n, as |-> "push", m |-> made] \in PushAims
  BY DEF PushAims
<1>11. Deref("prev", tail, "push", made) \in PushAims
  BY DEF PushAims
<1>12. Failed("push", made) = <<Deref("prev", tail, "push", made)>>
  BY DEF Failed, PushLoop
<1>13. CASE DerefLink(Producer)
  <2>1. i = Deref("prev", tail, "push", made)
    BY <1>6, <1>13 DEF DerefLink, At, It, Looks
  <2>2. PICK x \in 0 .. linked : link["prev"][tail] = Ptr(x)
    BY DEF LinkInv, ChainInv
  <2>3. Then(Producer, <<Look(x, "push", made)>>)
    BY <1>5, <1>13, <2>1, <2>2 DEF DerefLink, Ptr, Deref
  <2>4. Look(x, "push", made) \in PushAims /\ Look(x, "push", made).op \in Looks
    BY <1>10 DEF Look, Looks
  <2> QED BY <1>9, <2>3, <2>4, SMTT(40)
<1>14. ASSUME i.op \in Looks
       PROVE  \A o \in Looks : /\ [i EXCEPT !.op = o] \in PushAims
                               /\ [i EXCEPT !.op = o].op \in Looks
  <2>1. i \in [op : Looks, n : 0 .. linked, as : {"push"}, m : {made}]
    BY <1>6, <1>14 DEF Deref, Looks
  <2> QED BY <2>1 DEF PushAims
<1>15. CASE DerefDelete(Producer)
  <2>1. i.op \in Looks /\ (IF delete[i.n] THEN "recheck" ELSE "claim") \in Looks
    BY <1>15 DEF DerefDelete, At, It, Looks
  <2>2. Then(Producer, <<[i EXCEPT !.op = IF delete[i.n] THEN "recheck" ELSE "claim"]>>)
    BY <1>15 DEF DerefDelete
  <2> QED BY <1>9, <1>14, <2>1, <2>2
<1>16. CASE DerefCount(Producer)
  <2>1. i.op \in Looks /\ "claim" \in Looks
    BY <1>16 DEF DerefCount, At, It, Looks
  <2>2. \/ Then(Producer, <<Deref("prev", tail, "push", made)>>)
        \/ Then(Producer, <<[i EXCEPT !.op = "claim"]>>)
    BY <1>7, <1>12, <1>16 DEF DerefCount
  <2>3. Deref("prev", tail, "push", made).op = "deref"
    BY DEF Deref
  <2> QED BY <1>9, <1>11, <1>14, <2>1, <2>2, <2>3
<1>17. CASE DerefClaim(Producer)
  <2>1. i \in [op : Looks, n : 0 .. linked, as : {"push"}, m : {made}]
    BY <1>6, <1>17 DEF DerefClaim, At, It, Deref, Looks
  <2> DEFINE n == i.n
             g == Op("link", made, n)
             s1 == Store("next", made, tail)
             s2 == Store("prev", made, n)
             B == {s1, s2}
  <2>2. n \in 0 .. linked /\ n \in Node
    BY <1>5, <2>1
  <2>3. Then(Producer, <<s1, s2, g>>)
    BY <1>7, <1>17 DEF DerefClaim, Acquired, PushTry
  <2>4. <<s1, s2, g>> \in Seq({s1, s2, g})
    OBVIOUS
  <2>5. todo'[Producer] = <<s1, s2, g>> /\ todo'[Consumer] = todo[Consumer] /\ DOMAIN todo' = Threads
    BY <1>1, <1>2, <1>8, <2>3, <2>4, LastDone DEF Threads, Producer, Consumer
  <2>6. Toward(todo'[Producer], B, g)
    BY <2>5, TowardTuples
  <2>7. g \in PushAims /\ g.op = "link"
    BY <1>5, <2>2 DEF PushAims, Op
  <2>8. Aim(Producer)' = g
    BY <1>8, <2>6, NewAim
  <2>9. B \subseteq Before(Producer)'
    <3>1. s1 \in Storing("next", made, {tail}) /\ s2 \in Storing("prev", made, Node)
      BY <2>2 DEF Storing, Store
    <3>2. Before(Producer)' = Counting \cup Storing("next", made, {tail}) \cup Storing("prev", made, Node)
      BY <1>1, <2>7, <2>8 DEF Before, Storing, Counting
    <3> QED BY <3>1, <3>2
  <2>10. StoresNext(todo'[Producer])
    <3>1. s1.op = "store" /\ s1.f = "next"
      BY DEF Store
    <3> HIDE DEF s1, s2, g
    <3>2. 1 \in 1 .. Len(<<s1, s2, g>>) /\ <<s1, s2, g>>[1] = s1
      OBVIOUS
    <3> QED BY <2>5, <3>1, <3>2 DEF StoresNext
  <2> HIDE DEF B, g
  <2> QED BY <1>1, <1>4, <2>5, <2>6, <2>7, <2>9, <2>10, PushMoves
<1> QED BY <1>13, <1>15, <1>16, <1>17

\* The links, and one of them changed.
LEMMA LinkChanged ==
  ASSUME LinkInv, NEW f \in {"next", "prev"}, NEW n \in Node, NEW p \in Ptrs,
         link' = [link EXCEPT ![f][n] = p]
  PROVE  /\ link' \in [{"next", "prev"} -> [Node -> Ptrs]]
         /\ link'[f][n] = p
         /\ \A x \in Node : x # n => link'[f][x] = link[f][x]
         /\ \A g \in {"next", "prev"} : g # f => link'[g] = link[g]
BY DEF LinkInv

LEMMA PtrTypes ==
  /\ \A n \in Node \cup {NULL} : Ptr(n) \in Ptrs /\ MarkOn(Ptr(n)) \in Ptrs
  /\ \A n : Ptr(n).to = n /\ ~Ptr(n).mark /\ MarkOn(Ptr(n)).to = n /\ MarkOn(Ptr(n)).mark
  /\ \A n \in Node \cup {NULL} : MarkOff(Ptr(n)) = Ptr(n)
  /\ \A m, n : Ptr(m) = Ptr(n) => m = n
<1>1. ASSUME NEW n PROVE Ptr(n).to = n
  BY DEF Ptr
<1>2. ASSUME NEW n PROVE ~Ptr(n).mark
  BY DEF Ptr
<1>3. ASSUME NEW n \in Node \cup {NULL} PROVE MarkOff(Ptr(n)) = Ptr(n)
  <2>1. Ptr(n) \in Ptrs /\ Ptr(n).mark = FALSE
    BY DEF Ptr, Ptrs
  <2>2. ASSUME NEW p \in Ptrs, p.mark = FALSE PROVE MarkOff(p) = p
    BY <2>2 DEF Ptrs, MarkOff
  <2> QED BY <2>1, <2>2
<1>4. ASSUME NEW n PROVE MarkOn(Ptr(n)).to = n
  BY DEF Ptr, MarkOn
<1>5. ASSUME NEW n PROVE MarkOn(Ptr(n)).mark
  BY DEF Ptr, MarkOn
<1>6. \A n \in Node \cup {NULL} : Ptr(n) \in Ptrs
  BY DEF Ptr, Ptrs
<1>7. \A n \in Node \cup {NULL} : MarkOn(Ptr(n)) \in Ptrs
  BY DEF Ptr, Ptrs, MarkOn
<1>8. \A m, n : Ptr(m) = Ptr(n) => m = n
  BY <1>1
<1> QED BY <1>1, <1>2, <1>3, <1>4, <1>5, <1>6, <1>7, <1>8

LEMMA AppendedTuple ==
  ASSUME NEW S, NEW a \in S, NEW b \in S, NEW c \in S, NEW d
  PROVE  <<a, b, c>> \in Seq(S) /\ <<a, b, c, d>> = Append(<<a, b, c>>, d)
OBVIOUS

LEMMA PushLinkStep == ASSUME LinkInv, PushLink PROVE LinkInv'
<1> DEFINE i == It(Producer)
           prev == i.m
<1>1. todo[Producer] # <<>> /\ i.op = "link" /\ made' = made /\ Producer \in Threads
  BY DEF PushLink, At, It, Threads
<1>2. i \notin Before(Producer)
  BY <1>1, BeforeOps, CountingOps DEF Looks, Producer, Consumer
<1>3. i = Aim(Producer) /\ todo[Producer] = <<i>> /\ i \in PushAims /\ made >= 1
  BY <1>1, <1>2, PushHead
<1>4. Unlinked /\ ~Linking
  BY <1>1, <1>3 DEF Unlinked, Linking
<1>5. i.n = made /\ prev \in 0 .. made - 1
  BY <1>1, <1>3 DEF PushAims, Deref, Op, Looks
<1>6. prev \in Node /\ made \in Node /\ prev # made /\ made # tail /\ made # head
  BY <1>3, <1>5, Bounds
<1>7. link["next"][made] = Ptr(tail)
  <2>1. ~StoresNext(todo[Producer])
    <3> HIDE DEF i
    <3>1. Len(<<i>>) = 1 /\ <<i>>[1] = i
      OBVIOUS
    <3> QED BY <1>1, <1>3, <3>1 DEF StoresNext
  <2> QED BY <1>1, <1>3, <2>1 DEF LinkInv, PushInv
<1>8. /\ Cas("next", prev, Ptr(tail), Ptr(made))
      /\ Then(Producer, IF link["next"][prev] = Ptr(tail) THEN PushLinked(made, prev)
                                                          ELSE PushAgain(made, prev))
  BY <1>5, <1>7, PtrTypes, Sentinels DEF PushLink
<1> HIDE DEF i
<1>9. CASE link["next"][prev] = Ptr(tail)
  <2> DEFINE g == Op("back", made, prev)
             new == <<Release(tail), Retain(made), g>>
  <2>0. PICK a : a = Aim(Consumer)
    OBVIOUS
  <2>1. Then(Producer, new)
    BY <1>8, <1>9 DEF PushLinked
  <2>2. link' = [link EXCEPT !["next"][prev] = Ptr(made)]
    BY <1>8, <1>9 DEF Cas
  <2>3. new \in Seq({Release(tail), Retain(made), g})
    OBVIOUS
  <2>4. todo'[Producer] = new /\ todo'[Consumer] = todo[Consumer] /\ DOMAIN todo' = Threads
    BY <1>1, <1>2, <2>1, <2>3, LastDone DEF i, Threads, Producer, Consumer
  <2>5. Release(tail) \in Counting /\ Retain(made) \in Counting
    BY <1>6, Sentinels, CountingType
  <2>6. Toward(todo'[Producer], Counting, g)
    BY <2>4, <2>5, TowardTuples
  <2>7. Aim(Producer)' = g /\ (InCall(Producer))' /\ todo'[Producer] # <<>>
    BY <1>1, <2>6, NewAim, CountingBefore
  <2>8. ~Unlinked' /\ Linking'
    BY <2>7 DEF Unlinked, Linking, Op, Looks
  <2>9. linked' = made /\ linked = made - 1 /\ made \in Nat
    BY <1>1, <1>4, <2>8, Bounds DEF linked
  <2>10. Aim(Consumer)' = a /\ (InCall(Consumer))'
    BY <2>0, <2>4, ConsumerStays
  <2>11. /\ link' \in [{"next", "prev"} -> [Node -> Ptrs]]
         /\ link'["next"][prev] = Ptr(made)
         /\ \A x \in Node : x # prev => link'["next"][x] = link["next"][x]
         /\ link'["prev"] = link["prev"]
    <3>1. Ptr(made) \in Ptrs
      BY <1>6, PtrTypes
    <3> HIDE DEF prev
    <3> QED BY <1>6, <2>2, <3>1, LinkChanged
  <2>12. link["prev"][tail] = Ptr(prev)
    BY <1>4, <1>6, <1>9 DEF LinkInv, ChainInv
  <2> HIDE DEF prev
  <2>13. PushInv'
    <3>1. g \in PushAims' /\ g.op = "back" /\ g.m = prev
      BY <1>1, <1>5 DEF PushAims, Op
    <3>2. link'["next"][prev].to # tail
      BY <1>6, <2>11, PtrTypes
    <3> HIDE DEF g
    <3> QED BY <1>1, <1>3, <2>7, <2>11, <2>12, <3>1, <3>2 DEF PushInv
  <2>14. PopInv'
    <3> SUFFICES ASSUME todo'[Consumer] # <<>> PROVE (PopAt(a))'
      BY <2>10 DEF PopInv
    <3>0. PopAt(a)
      BY <2>0, <2>4 DEF LinkInv, PopInv
    <3>1. a \in PopAims'
      <4>1. 1 .. linked \subseteq 1 .. linked'
        BY <2>9
      <4>2. a \in PopAims
        BY <3>0 DEF PopAt
      <4> QED BY <4>1, <4>2 DEF PopAims
    <3>2. \A e \in Entries : Taking(a, e) => link'["next"][head] = Ptr(e)
      <4>1. \A e \in Entries : Ptr(e) # Ptr(tail)
        BY PtrTypes, MaxPushAssumption DEF Entries, tail
      <4> QED BY <1>9, <2>11, <3>0, <4>1, Sentinels DEF PopAt
    <3>3. \A e \in Entries : Marked(a, e) => e # prev /\ link'["next"][e] = link["next"][e]
      <4>1. \A e \in Entries : e \in Node
        BY DEF Node
      <4>2. ~link["next"][prev].mark
        BY <1>9, PtrTypes
      <4> QED BY <2>11, <3>0, <4>1, <4>2 DEF PopAt
    <3>4. \A e \in Entries, n \in Node \cup {NULL} : Succ(a, e, n) => Marked(a, e)
      BY DEF Succ, Marked
    <3>5. ~(a.op = "unlink" /\ a.m = tail)
      <4> SUFFICES ASSUME a.op = "unlink", a.m = tail PROVE FALSE
        OBVIOUS
      <4>1. a.n \in Entries
        <5>1. a.n \in 1 .. linked
          BY <3>0 DEF PopAt, PopAims, Deref, Looks
        <5> QED BY <5>1, <2>9, Bounds
      <4>2. link["next"][head] = Ptr(a.n)
        BY <3>0, <4>1 DEF PopAt, Taking
      <4>3. link["prev"][tail] = Ptr(head)
        BY <3>0 DEF PopAt
      <4>4. prev = head
        BY <2>12, <4>3, PtrTypes
      <4>5. a.n = tail
        BY <1>9, <4>2, <4>4, PtrTypes
      <4> QED BY <4>1, <4>5, MaxPushAssumption DEF Entries, tail
    <3>6. /\ a.op = "marknext" => a.m # NULL
          /\ \A e \in Entries : Marked(a, e) => link["next"][e].mark /\ link["next"][e].to # NULL
          /\ \A e \in Entries, n \in Node \cup {NULL} : Succ(a, e, n) => link["next"][e] = MarkOn(Ptr(n))
      BY <3>0 DEF PopAt
    <3> QED BY <3>1, <3>2, <3>3, <3>4, <3>5, <3>6 DEF PopAt
  <2>15. ChainInv'
    <3>0. /\ link["next"][head] \in {Ptr(n) : n \in 1 .. linked \cup {tail}}
          /\ \A n \in Node : link["next"][n].to \in 1 .. linked \cup {tail, NULL}
          /\ link["prev"][tail] \in {Ptr(n) : n \in 0 .. linked}
          /\ \A n \in Node : link["next"][n] = Ptr(tail) => n = made \/ link["prev"][tail] = Ptr(n)
      BY DEF LinkInv, ChainInv
    <3>1. 1 .. linked \subseteq 1 .. linked' /\ 0 .. linked \subseteq 0 .. linked' /\ made \in 1 .. linked'
      BY <1>3, <2>9
    <3>2. link'["next"][head] \in {Ptr(n) : n \in 1 .. linked' \cup {tail}}
      BY <2>11, <3>0, <3>1, Sentinels
    <3>3. \A n \in Node : link'["next"][n].to \in 1 .. linked' \cup {tail, NULL}
      BY <2>11, <3>0, <3>1, PtrTypes
    <3>4. link'["prev"][tail] \in {Ptr(n) : n \in 0 .. linked'}
      BY <2>11, <3>0, <3>1
    <3>5. \A n \in Node : link'["next"][n] = Ptr(tail) => n = made
      BY <1>6, <2>11, <2>12, <3>0, PtrTypes
    <3> QED BY <1>1, <2>8, <3>2, <3>3, <3>4, <3>5 DEF ChainInv
  <2> QED BY <1>1, <2>4, <2>7, <2>10, <2>11, <2>13, <2>14, <2>15 DEF LinkInv, Threads
<1>10. CASE link["next"][prev] # Ptr(tail)
  <2> DEFINE g == Deref("prev", tail, "push", made)
             s1 == Store("next", made, NULL)
             s2 == Store("prev", made, NULL)
             r == Release(prev)
             B == {r, s1, s2}
  <2>1. UNCHANGED <<link, made>>
    BY <1>1, <1>8, <1>10 DEF Cas
  <2>2. Then(Producer, <<r, s1, s2, g>>)
    <3>1. PushAgain(made, prev) = <<r, s1, s2>> \o <<g>>
      BY DEF PushAgain, PushLoop
    <3> HIDE DEF r, s1, s2, g
    <3>2. Append(<<r, s1, s2>>, g) = <<r, s1, s2, g>>
      <4> DEFINE S == {r, s1, s2}
      <4>1. r \in S /\ s1 \in S /\ s2 \in S
        OBVIOUS
      <4> HIDE DEF S
      <4>2. <<r, s1, s2, g>> = Append(<<r, s1, s2>>, g)
        BY <4>1, AppendedTuple
      <4> QED BY <4>2
    <3>3. Append(<<r, s1, s2>>, g) = <<r, s1, s2>> \o <<g>>
      <4>1. <<r, s1, s2>> \in Seq({r, s1, s2, g}) /\ g \in {r, s1, s2, g}
        OBVIOUS
      <4> QED BY <4>1, AppendIsConcat
    <3> QED BY <1>8, <1>10, <3>1, <3>2, <3>3
  <2>3. <<r, s1, s2, g>> \in Seq({r, s1, s2, g})
    OBVIOUS
  <2>4. todo'[Producer] = <<r, s1, s2, g>> /\ todo'[Consumer] = todo[Consumer] /\ DOMAIN todo' = Threads
    BY <1>1, <1>2, <2>2, <2>3, LastDone DEF i, Threads, Producer, Consumer
  <2>5. Toward(todo'[Producer], B, g)
    BY <2>4, TowardTuples, ZenonT(60)
  <2>6. g \in PushAims /\ g.op = "deref"
    BY DEF PushAims, Deref
  <2>7. Aim(Producer)' = g
    BY <1>1, <2>5, NewAim
  <2>8. B \subseteq Before(Producer)'
    <3>1. s1 \in Storing("next", made, {NULL}) /\ s2 \in Storing("prev", made, {NULL}) /\ r \in Counting
      BY <1>6, CountingType DEF Storing, Store
    <3>2. Unlinked'
      BY <2>6, <2>7 DEF Unlinked
    <3>3. Before(Producer)' = Counting \cup Storing("next", made, {NULL}) \cup Storing("prev", made, {NULL})
      BY <2>1, <2>6, <2>7, <3>2 DEF Before, Storing, Counting
    <3> QED BY <3>1, <3>3
  <2> HIDE DEF B, g
  <2> QED BY <1>4, <2>1, <2>4, <2>5, <2>6, <2>8, PushMoves
<1> QED BY <1>9, <1>10

\* tail->prev still leads to prev: the CAS succeeds.
LEMMA PushBackStep == ASSUME LinkInv, PushBack PROVE LinkInv'
<1> DEFINE i == It(Producer)
           prev == i.m
           g == Op("grow", made, made)
           new == <<Release(prev), Retain(made), Release(prev), g>>
<1>1. todo[Producer] # <<>> /\ i.op = "back" /\ made' = made /\ Producer \in Threads
  BY DEF PushBack, At, It, Threads
<1>2. i \notin Before(Producer)
  BY <1>1, BeforeOps, CountingOps DEF Looks, Producer, Consumer
<1>3. i = Aim(Producer) /\ todo[Producer] = <<i>> /\ i \in PushAims /\ made >= 1
  BY <1>1, <1>2, PushHead
<1>4. ~Unlinked /\ Linking
  BY <1>1, <1>3 DEF Unlinked, Linking, Looks
<1>5. i.n = made /\ prev \in 0 .. made - 1
  BY <1>1, <1>3 DEF PushAims, Deref, Op, Looks
<1>6. prev \in Node /\ made \in Node /\ prev # made /\ made # tail /\ made # head
  BY <1>3, <1>5, Bounds
<1>7. link["prev"][tail] = Ptr(prev)
  BY <1>1, <1>3, <1>4 DEF LinkInv, PushInv
<1>8. Then(Producer, new) /\ link' = [link EXCEPT !["prev"][tail] = Ptr(made)]
  BY <1>5, <1>7 DEF PushBack, Cas, PushEnd
<1>9. new \in Seq({Release(prev), Retain(made), g})
  OBVIOUS
<1>10. todo'[Producer] = new /\ todo'[Consumer] = todo[Consumer] /\ DOMAIN todo' = Threads
  BY <1>1, <1>2, <1>8, <1>9, LastDone DEF Threads, Producer, Consumer
<1>11. Toward(todo'[Producer], Counting, g)
  <2>1. Release(prev) \in Counting /\ Retain(made) \in Counting
    BY <1>6, CountingType
  <2> QED BY <1>10, <2>1, TowardTuples
<1>12. Aim(Producer)' = g /\ (InCall(Producer))' /\ todo'[Producer] # <<>>
  BY <1>1, <1>11, NewAim, CountingBefore
<1>13. ~Unlinked' /\ ~Linking'
  BY <1>12 DEF Unlinked, Linking, Op, Looks
<1>14. linked' = made /\ linked = made
  BY <1>1, <1>4, <1>13 DEF linked
<1>15. Aim(Consumer)' = Aim(Consumer) /\ (InCall(Consumer))'
  BY <1>10, ConsumerStays
<1>16. /\ link' \in [{"next", "prev"} -> [Node -> Ptrs]]
       /\ link'["prev"][tail] = Ptr(made)
       /\ link'["next"] = link["next"]
  <2>1. Ptr(made) \in Ptrs
    BY <1>6, PtrTypes
  <2> QED BY <1>8, <2>1, Sentinels, LinkChanged
<1>17. PushInv'
  <2>1. g \in PushAims' /\ g.op = "grow"
    BY <1>1 DEF PushAims, Op
  <2> HIDE DEF g
  <2> QED BY <1>1, <1>3, <1>12, <1>13, <2>1 DEF PushInv
<1>18. PopInv'
  <2>1. PopAims' = PopAims
    BY <1>14 DEF PopAims
  <2>2. todo[Consumer] # <<>> => ~(Aim(Consumer).op = "unlink" /\ Aim(Consumer).m = tail)
    BY <1>4 DEF LinkInv, PopInv, PopAt
  <2> QED BY <1>10, <1>15, <1>16, <2>1, <2>2 DEF LinkInv, PopInv, PopAt
<1>19. ChainInv'
  <2>0. /\ link["next"][head] \in {Ptr(n) : n \in 1 .. linked \cup {tail}}
        /\ \A n \in Node : link["next"][n].to \in 1 .. linked \cup {tail, NULL}
        /\ \A n \in Node : link["next"][n] = Ptr(tail) => n = made
    BY <1>4 DEF LinkInv, ChainInv
  <2>1. made \in 0 .. linked'
    BY <1>14, Bounds
  <2>2. link'["prev"][tail] \in {Ptr(n) : n \in 0 .. linked'}
    BY <1>16, <2>1
  <2> QED BY <1>13, <1>14, <1>16, <2>0, <2>2 DEF ChainInv
<1> QED BY <1>1, <1>10, <1>12, <1>15, <1>16, <1>17, <1>18, <1>19 DEF LinkInv, Threads

\* The call of push ends, or a new one begins.
LEMMA PushEnds ==
  ASSUME LinkInv, UNCHANGED link, todo'[Consumer] = todo[Consumer], DOMAIN todo' = Threads,
         ~Unlinked, ~Linking, linked' = linked, ~Linking', made' \in 0 .. MaxPush,
         PushInv', (InCall(Producer))',
         Unlinked' => made' = made + 1, ~Unlinked' => made' = made
  PROVE  LinkInv'
<1>1. Aim(Consumer)' = Aim(Consumer) /\ (InCall(Consumer))'
  BY ConsumerStays
<1>2. PopAims' = PopAims
  BY DEF PopAims
<1>3. PopInv'
  BY <1>1, <1>2 DEF LinkInv, PopInv, PopAt
<1>4. ChainInv'
  BY DEF LinkInv, ChainInv
<1> QED BY <1>1, <1>3, <1>4 DEF LinkInv, Threads

LEMMA PushGrowStep == ASSUME LinkInv, PushGrow PROVE LinkInv'
<1> DEFINE i == It(Producer)
<1>1. todo[Producer] # <<>> /\ i.op = "grow" /\ made' = made /\ Producer \in Threads /\ UNCHANGED link
  BY DEF PushGrow, At, It, Threads
<1>2. i \notin Before(Producer)
  BY <1>1, BeforeOps, CountingOps DEF Looks, Producer, Consumer
<1>3. i = Aim(Producer)
  BY <1>1, <1>2, PushHead
<1>4. <<>> \in Seq({}) /\ Then(Producer, <<>>)
  BY DEF PushGrow
<1>5. todo'[Producer] = <<>> /\ todo'[Consumer] = todo[Consumer] /\ DOMAIN todo' = Threads
  BY <1>1, <1>2, <1>4, LastDone DEF Threads, Producer, Consumer
<1>6. ~Unlinked /\ ~Linking /\ ~Unlinked' /\ ~Linking'
  BY <1>1, <1>3, <1>5 DEF Unlinked, Linking, Looks, Aim, Op
<1>7. linked' = linked /\ made' \in 0 .. MaxPush
  BY <1>1, <1>6 DEF linked, LinkInv
<1>8. PushInv' /\ (InCall(Producer))'
  BY <1>5 DEF PushInv, InCall
<1> QED BY <1>1, <1>5, <1>6, <1>7, <1>8, PushEnds

LEMMA PushBegins == ASSUME LinkInv, Push PROVE LinkInv'
<1> DEFINE g == Deref("prev", tail, "push", made + 1)
<1>1. todo[Producer] = <<>> /\ made' = made + 1 /\ Producer \in Threads /\ UNCHANGED link
  BY DEF Push, Threads
<1>2. todo'[Producer] = <<g>> /\ todo'[Consumer] = todo[Consumer] /\ DOMAIN todo' = Threads
  BY DEF Push, PushLoop, LinkInv, Threads, Producer, Consumer
<1>3. Toward(todo'[Producer], Counting, g)
  BY <1>2, TowardTuples
<1>4. Aim(Producer)' = g /\ (InCall(Producer))' /\ todo'[Producer] # <<>>
  BY <1>1, <1>3, NewAim, CountingBefore
<1>5. g \in PushAims' /\ g.op = "deref"
  BY <1>1 DEF PushAims, Deref
<1>6. ~Unlinked /\ ~Linking
  BY <1>1 DEF Unlinked, Linking, Looks, Aim, Op
<1> HIDE DEF g
<1>7. Unlinked' /\ ~Linking'
  BY <1>4, <1>5 DEF Unlinked, Linking
<1>8. linked' = linked /\ made' \in 0 .. MaxPush /\ made' >= 1
  BY <1>1, <1>6, <1>7, MaxPushAssumption DEF linked, LinkInv, Push
<1>9. PushInv'
  BY <1>4, <1>5, <1>7, <1>8 DEF PushInv
<1> QED BY <1>1, <1>2, <1>4, <1>6, <1>7, <1>8, <1>9, PushEnds

-----------------------------------------------------------------------------
(* store_ref: a link of the entry that is not linked yet, or not any more. *)

Owner(t, f, e, M) ==
  \/ t = Producer /\ Unlinked /\ e = made /\ made >= 1
     /\ (f = "next" => M = IF Aim(Producer).op = "link" THEN {tail} ELSE {NULL})
  \/ t = Consumer /\ Aim(Consumer).op = "return" /\ e \in 1 .. linked /\ M = {NULL}

LEMMA StoreHead ==
  ASSUME LinkInv, NEW t \in Threads, todo[t] # <<>>, It(t).op \in {"store", "swap"}
  PROVE  /\ It(t) # Aim(t)
         /\ \E f \in {"next", "prev"}, e \in Entries, M \in SUBSET (Node \cup {NULL}) :
              /\ Storing(f, e, M) \subseteq Before(t) /\ It(t) \in Storing(f, e, M)
              /\ Owner(t, f, e, M)
<1>1. It(t) # Aim(t)
  BY AimOps DEF Threads, Looks
<1>2. It(t) \in Before(t)
  BY <1>1, HeadCases
<1>3. It(t) \notin Counting
  BY CountingOps DEF Looks
<1>4. CASE t = Producer
  <2>1. made >= 1 /\ made \in Entries
    BY <1>4, Bounds DEF LinkInv, PushInv
  <2>2. CASE Aim(Producer).op = "link"
    <3>1. Unlinked /\ Before(t) = Counting \cup (Storing("next", made, {tail}) \cup Storing("prev", made, Node))
      BY <1>4, <2>2 DEF Before, Unlinked
    <3>2. Owner(t, "next", made, {tail}) /\ Owner(t, "prev", made, Node)
      BY <1>4, <2>1, <2>2, <3>1 DEF Owner
    <3>3. {tail} \in SUBSET (Node \cup {NULL}) /\ Node \in SUBSET (Node \cup {NULL})
      BY Sentinels
    <3> QED BY <1>1, <1>2, <1>3, <2>1, <3>1, <3>2, <3>3
  <2>3. CASE Aim(Producer).op # "link"
    <3>1. Unlinked /\ Before(t) = Counting \cup (Storing("next", made, {NULL}) \cup Storing("prev", made, {NULL}))
      BY <1>2, <1>3, <1>4, <2>3 DEF Before
    <3>2. Owner(t, "next", made, {NULL}) /\ Owner(t, "prev", made, {NULL})
      BY <1>4, <2>1, <2>3, <3>1 DEF Owner
    <3> QED BY <1>1, <1>2, <1>3, <2>1, <3>1, <3>2
  <2> QED BY <2>2, <2>3
<1>5. CASE t = Consumer
  <2>1. PICK a : a = Aim(Consumer)
    OBVIOUS
  <2>2. /\ a.op = "return" /\ a.n # NULL
        /\ Before(t) = Counting \cup ({Op("shrink", a.n, a.n)} \cup Storing("next", a.n, {NULL})
                                        \cup Storing("prev", a.n, {NULL}))
    BY <1>2, <1>3, <1>5, <2>1 DEF Before, Producer, Consumer
  <2>3. It(t) \in Storing("next", a.n, {NULL}) \/ It(t) \in Storing("prev", a.n, {NULL})
    BY <1>2, <1>3, <2>2 DEF Op
  <2>4. a.n \in 1 .. linked
    <3>1. a \in PopAims
      BY <1>5, <2>1 DEF LinkInv, PopInv, PopAt
    <3> QED BY <2>2, <3>1 DEF PopAims, Deref, Looks
  <2>5. a.n \in Entries
    BY <2>4, Bounds
  <2>6. Owner(t, "next", a.n, {NULL}) /\ Owner(t, "prev", a.n, {NULL})
    BY <1>5, <2>1, <2>2, <2>4 DEF Owner
  <2> QED BY <1>1, <2>2, <2>3, <2>5, <2>6
<1> QED BY <1>4, <1>5 DEF Threads

\* Rewriting what comes first keeps what the invariant says of todo.
LEMMA StoreStep ==
  ASSUME LinkInv, NEW t \in Threads, todo[t] # <<>>, It(t) # Aim(t), made' = made,
         NEW new \in Seq(Before(t)), Then(t, new),
         link' \in [{"next", "prev"} -> [Node -> Ptrs]],
         PushInv' /\ PopInv' /\ ChainInv'
  PROVE  LinkInv'
<1>1. (\A u \in Threads : (InCall(u))') /\ DOMAIN todo' = Threads
  BY FirstDone
<1>2. made' \in 0 .. MaxPush
  BY DEF LinkInv
<1> QED BY <1>1, <1>2 DEF LinkInv

LEMMA StoresRest ==
  ASSUME LinkInv, NEW t \in Threads, todo[t] # <<>>, It(t) # Aim(t), made' = made,
         NEW new \in Seq(Before(t)), Then(t, new), StoresNext(todo[Producer]),
         t = Producer /\ It(t).op \in {"store", "swap"} /\ It(t).f = "next" => StoresNext(new)
  PROVE  StoresNext(todo'[Producer])
<1>1. /\ todo'[t] = new \o Tail(todo[t])
      /\ \A u \in Threads \ {t} : todo'[u] = todo[u]
  BY FirstDone
<1>2. CASE t = Producer
  <2> DEFINE S == Before(t) \cup {Aim(t)}
  <2>1. todo[t] \in Seq(S)
    <3>1. PICK u \in Seq(Before(t)) : todo[t] = Append(u, Aim(t))
      BY DEF LinkInv, InCall, Toward
    <3> QED BY <3>1, AppendProperties
  <2>2. new \in Seq(S)
    OBVIOUS
  <2> HIDE DEF S
  <2>3. ~(Head(todo[t]).op \in {"store", "swap"} /\ Head(todo[t]).f = "next") \/ StoresNext(new)
    BY <1>2 DEF It
  <2>4. StoresNext(new \o Tail(todo[t]))
    BY <1>2, <2>1, <2>2, <2>3, StoresKept
  <2> QED BY <1>1, <1>2, <2>4
<1>3. CASE t # Producer
  BY <1>1, <1>3 DEF Threads
<1> QED BY <1>2, <1>3

\* store_ref without effect: it reads the link, or finds it changed.
LEMMA StoreTries ==
  ASSUME LinkInv, NEW t \in Threads, todo[t] # <<>>, It(t) # Aim(t), UNCHANGED <<link, made>>,
         NEW s \in Before(t), s.op \in {"store", "swap"}, s.f = It(t).f, Then(t, <<s>>)
  PROVE  LinkInv'
<1>1. <<s>> \in Seq(Before(t))
  OBVIOUS
<1>2. StoresNext(todo[Producer]) => StoresNext(todo'[Producer])
  <2>1. s.f = "next" => StoresNext(<<s>>)
    <3>1. Len(<<s>>) = 1 /\ <<s>>[1] = s
      OBVIOUS
    <3> QED BY <3>1 DEF StoresNext
  <2> QED BY <1>1, <2>1, StoresRest
<1>3. \A u \in Threads : Aim(u)' = Aim(u) /\ (todo'[u] = <<>> <=> todo[u] = <<>>)
  BY <1>1, FirstDone
<1>4. PushInv' /\ PopInv' /\ ChainInv'
  BY <1>2, <1>3, FactsKept
<1>5. link' \in [{"next", "prev"} -> [Node -> Ptrs]]
  BY DEF LinkInv
<1> QED BY <1>1, <1>4, <1>5, StoreStep

LEMMA StoreReads == ASSUME LinkInv, NEW t \in Threads, StoreRead(t) PROVE LinkInv'
<1>1. todo[t] # <<>> /\ It(t).op = "store" /\ UNCHANGED <<link, made>>
  BY DEF StoreRead, At, It
<1>2. It(t) # Aim(t)
  BY <1>1, StoreHead
<1>3. PICK f \in {"next", "prev"}, e \in Entries, M \in SUBSET (Node \cup {NULL}) :
        Storing(f, e, M) \subseteq Before(t) /\ It(t) \in Storing(f, e, M)
  BY <1>1, StoreHead
<1>4. It(t) \in [op : {"store"}, f : {f}, n : {e}, m : M]
  BY <1>1, <1>3 DEF Storing
<1>5. PICK s : s = [op |-> "swap", f |-> It(t).f, n |-> It(t).n, m |-> It(t).m, old |-> link[It(t).f][It(t).n]]
  OBVIOUS
<1>6. Then(t, <<s>>)
  BY <1>5 DEF StoreRead
<1>7. link[f][e] \in Ptrs
  BY DEF LinkInv, Node
<1>8. s.op = "swap" /\ s.f = It(t).f /\ s \in Storing(f, e, M)
  BY <1>4, <1>5, <1>7 DEF Storing
<1> QED BY <1>1, <1>2, <1>3, <1>6, <1>8, StoreTries

\* store_ref changes the link: nothing that the invariant says is about it.
LEMMA StoreFacts ==
  ASSUME LinkInv, NEW t \in Threads, todo[t] # <<>>, made' = made,
         \A u \in Threads : Aim(u)' = Aim(u) /\ (todo'[u] = <<>> <=> todo[u] = <<>>),
         NEW f \in {"next", "prev"}, NEW e \in Entries, NEW M, NEW m \in M, Owner(t, f, e, M),
         link'[f][e] = Ptr(m),
         \A x \in Node : x # e => link'[f][x] = link[f][x],
         \A g \in {"next", "prev"} : g # f => link'[g] = link[g],
         f = "prev" /\ StoresNext(todo[Producer]) => StoresNext(todo'[Producer]),
         t = Consumer /\ StoresNext(todo[Producer]) => StoresNext(todo'[Producer])
  PROVE  PushInv' /\ PopInv' /\ ChainInv'
<1>1. /\ Aim(Producer)' = Aim(Producer) /\ Aim(Consumer)' = Aim(Consumer)
      /\ todo'[Producer] = <<>> <=> todo[Producer] = <<>>
      /\ todo'[Consumer] = <<>> <=> todo[Consumer] = <<>>
  BY DEF Threads
<1>2. Unlinked' = Unlinked /\ Linking' = Linking
  BY <1>1 DEF Unlinked, Linking
<1>3. linked' = linked
  BY <1>2 DEF linked
<1>4. PushAims' = PushAims /\ PopAims' = PopAims
  BY <1>3 DEF PushAims, PopAims
<1>5. Unlinked => ~Linking /\ linked = made - 1
  BY Bounds DEF Unlinked, Linking, Looks
<1>6. e \in Node /\ e # tail /\ e # head /\ made \in Nat /\ 0 .. made \subseteq Node
  BY MaxPushAssumption, Bounds DEF Entries, Node, tail, head
<1>7. e = made \/ e \in 1 .. linked
  BY DEF Owner
<1>8. link'["prev"][tail] = link["prev"][tail] /\ link'["next"][head] = link["next"][head]
  BY <1>6, Sentinels
<1>9. ASSUME f = "next"
      PROVE  \/ t = Producer /\ Unlinked /\ e = made
                /\ Ptr(m) = IF Aim(Producer).op = "link" THEN Ptr(tail) ELSE Ptr(NULL)
             \/ t = Consumer /\ e \in 1 .. linked /\ Aim(Consumer).op = "return" /\ Ptr(m) = Ptr(NULL)
  BY <1>9 DEF Owner
<1>10. Ptr(tail).to = tail /\ Ptr(NULL).to = NULL /\ NULL # tail /\ Ptr(NULL) # Ptr(tail)
  BY PtrTypes, Sentinels
<1>11. PushInv'
  <2> SUFFICES ASSUME todo[Producer] # <<>>
               PROVE  /\ made >= 1 /\ Aim(Producer) \in PushAims
                      /\ Aim(Producer).op = "link" =>
                           link'["next"][made] = Ptr(tail) \/ StoresNext(todo'[Producer])
                      /\ Linking => /\ link'["prev"][tail] = Ptr(Aim(Producer).m)
                                    /\ link'["next"][Aim(Producer).m].to # tail
    BY <1>1, <1>2, <1>4 DEF PushInv
  <2>1. /\ made >= 1 /\ Aim(Producer) \in PushAims
        /\ Aim(Producer).op = "link" => link["next"][made] = Ptr(tail) \/ StoresNext(todo[Producer])
        /\ Linking => /\ link["prev"][tail] = Ptr(Aim(Producer).m)
                      /\ link["next"][Aim(Producer).m].to # tail
    BY DEF LinkInv, PushInv
  <2>2. ASSUME Aim(Producer).op = "link" PROVE link'["next"][made] = Ptr(tail) \/ StoresNext(todo'[Producer])
    <3>1. Unlinked /\ linked = made - 1 /\ made \in Node
      BY <1>5, <1>6, <2>1, <2>2 DEF Unlinked
    <3>2. CASE f = "prev"
      BY <2>1, <2>2, <3>2
    <3>3. CASE f = "next" /\ t = Producer
      BY <1>9, <2>2, <3>3 DEF Producer, Consumer
    <3>4. CASE f = "next" /\ t = Consumer
      <4>1. e # made
        BY <1>6, <1>9, <3>1, <3>4 DEF Producer, Consumer
      <4> QED BY <2>1, <2>2, <3>1, <3>4, <4>1
    <3> QED BY <3>2, <3>3, <3>4 DEF Threads
  <2>3. ASSUME Linking PROVE link'["next"][Aim(Producer).m].to # tail
    <3>1. Aim(Producer).m \in Node
      <4>1. Aim(Producer).m \in 0 .. made - 1
        BY <2>1, <2>3 DEF Linking, PushAims, Deref, Op, Looks
      <4> QED BY <1>6, <4>1
    <3>2. f = "next" => Ptr(m) = Ptr(NULL)
      BY <1>5, <1>9, <2>3
    <3> QED BY <1>10, <2>1, <2>3, <3>1, <3>2
  <2> QED BY <1>8, <2>1, <2>2, <2>3
<1>12. PopInv'
  <2> SUFFICES ASSUME todo[Consumer] # <<>> PROVE (PopAt(Aim(Consumer)))'
    BY <1>1 DEF PopInv
  <2>1. PICK a : a = Aim(Consumer)
    OBVIOUS
  <2>2. PopAt(a) /\ a \in PopAims
    BY <2>1 DEF LinkInv, PopInv, PopAt
  <2>3. \A d \in Entries : Marked(a, d) => link'["next"][d] = link["next"][d]
    <3>0. Entries \subseteq Node
      BY DEF Node
    <3> SUFFICES ASSUME NEW d \in Entries, Marked(a, d), f = "next" PROVE d # e
      BY <3>0
    <3>1. d \in 1 .. linked
      BY <2>2 DEF Marked, PopAims, Deref, Looks
    <3>2. a.op # "return"
      BY DEF Marked, Looks
    <3> QED BY <1>5, <1>6, <1>9, <2>1, <3>1, <3>2
  <2>4. \A d \in Entries, n \in Node \cup {NULL} : Succ(a, d, n) => Marked(a, d)
    BY DEF Succ, Marked
  <2>5. (PopAt(a))'
    BY <1>2, <1>4, <1>8, <2>2, <2>3, <2>4 DEF PopAt
  <2> QED BY <1>1, <2>1, <2>5
<1>13. ChainInv'
  <2>0. /\ link["next"][head] \in {Ptr(n) : n \in 1 .. linked \cup {tail}}
        /\ \A n \in Node : link["next"][n].to \in 1 .. linked \cup {tail, NULL}
        /\ link["prev"][tail] \in {Ptr(n) : n \in 0 .. linked}
        /\ \A n \in Node : link["next"][n] = Ptr(tail) =>
             \/ n = made /\ (Unlinked \/ Linking)
             \/ link["prev"][tail] = Ptr(n) /\ ~Linking
    BY DEF LinkInv, ChainInv
  <2>1. f = "next" => Ptr(m).to \in {tail, NULL} /\ (Ptr(m) = Ptr(tail) => e = made /\ Unlinked)
    BY <1>9, <1>10
  <2>2. \A n \in Node : link'["next"][n].to \in 1 .. linked \cup {tail, NULL}
    BY <2>0, <2>1
  <2>3. \A n \in Node : link'["next"][n] = Ptr(tail) =>
          \/ n = made /\ (Unlinked \/ Linking)
          \/ link'["prev"][tail] = Ptr(n) /\ ~Linking
    BY <1>8, <2>0, <2>1
  <2> QED BY <1>2, <1>3, <1>8, <2>0, <2>2, <2>3 DEF ChainInv
<1> QED BY <1>11, <1>12, <1>13

LEMMA StoreSwaps == ASSUME LinkInv, NEW t \in Threads, StoreSwap(t) PROVE LinkInv'
<1>1. todo[t] # <<>> /\ It(t).op = "swap" /\ made' = made
  BY DEF StoreSwap, At, It
<1>2. It(t) # Aim(t)
  BY <1>1, StoreHead
<1>3. PICK f \in {"next", "prev"}, e \in Entries, M \in SUBSET (Node \cup {NULL}) :
        /\ Storing(f, e, M) \subseteq Before(t) /\ It(t) \in Storing(f, e, M)
        /\ Owner(t, f, e, M)
  BY <1>1, StoreHead
<1>4. PICK i : i = It(t)
  OBVIOUS
<1>5. i \in [op : {"swap"}, f : {f}, n : {e}, m : M, old : Ptrs]
  BY <1>1, <1>3, <1>4 DEF Storing
<1>6. /\ i.f = f /\ i.n = e /\ i.m \in M /\ i.m \in Node \cup {NULL} /\ i.old \in Ptrs
      /\ i.old.to \in Node \cup {NULL}
  BY <1>5 DEF Ptrs
<1>7. CASE link[f][e] = i.old
  <2> DEFINE retain == IF i.m = NULL THEN <<>> ELSE <<Retain(i.m)>>
             release == IF i.old.to = NULL THEN <<>> ELSE <<Release(i.old.to)>>
  <2>1. link' = [link EXCEPT ![f][e] = Ptr(i.m)] /\ Then(t, retain \o release)
    BY <1>4, <1>6, <1>7 DEF StoreSwap
  <2>2. retain \in Seq(Counting) /\ release \in Seq(Counting)
    BY <1>6, CountingType
  <2>3. PICK new : new = retain \o release
    OBVIOUS
  <2>4. new \in Seq(Counting)
    BY <2>2, <2>3, ConcatProperties
  <2>5. new \in Seq(Before(t))
    BY <2>4, CountingBefore
  <2>6. Then(t, new)
    BY <2>1, <2>3
  <2> HIDE DEF retain, release
  <2>7. Ptr(i.m) \in Ptrs /\ e \in Node
    BY <1>6, PtrTypes DEF Node
  <2>8. /\ link' \in [{"next", "prev"} -> [Node -> Ptrs]]
        /\ link'[f][e] = Ptr(i.m)
        /\ \A x \in Node : x # e => link'[f][x] = link[f][x]
        /\ \A g \in {"next", "prev"} : g # f => link'[g] = link[g]
    BY <2>1, <2>7, LinkChanged
  <2>9. \A u \in Threads : Aim(u)' = Aim(u) /\ (todo'[u] = <<>> <=> todo[u] = <<>>)
    BY <1>1, <1>2, <2>5, <2>6, FirstDone
  <2>10. (f = "prev" \/ t = Consumer) /\ StoresNext(todo[Producer]) => StoresNext(todo'[Producer])
    BY <1>1, <1>2, <1>4, <1>6, <2>5, <2>6, StoresRest DEF Producer, Consumer
  <2>11. PushInv' /\ PopInv' /\ ChainInv'
    <3>1. PICK m \in M : m = i.m
      BY <1>6
    <3> QED BY <1>1, <1>3, <2>8, <2>9, <2>10, <3>1, StoreFacts
  <2> QED BY <1>1, <1>2, <2>5, <2>6, <2>8, <2>11, StoreStep
<1>8. CASE link[f][e] # i.old
  <2>1. UNCHANGED link /\ Then(t, <<Store(f, e, i.m)>>)
    BY <1>4, <1>6, <1>8 DEF StoreSwap
  <2>2. PICK s : s = Store(f, e, i.m)
    OBVIOUS
  <2>3. s.op = "store" /\ s.f = It(t).f /\ s \in Storing(f, e, M)
    BY <1>4, <1>6, <2>2 DEF Store, Storing
  <2> QED BY <1>1, <1>2, <1>3, <2>1, <2>2, <2>3, StoreTries
<1> QED BY <1>7, <1>8

-----------------------------------------------------------------------------
(* queue_pop_left: the steps that change no link. *)

LEMMA PopHead ==
  ASSUME LinkInv, todo[Consumer] # <<>>, It(Consumer) \notin Before(Consumer)
  PROVE  It(Consumer) = Aim(Consumer) /\ PopAt(It(Consumer)) /\ It(Consumer) \in PopAims
<1>1. It(Consumer) = Aim(Consumer)
  BY HeadCases DEF Threads
<1> QED BY <1>1 DEF LinkInv, PopInv, PopAt

LEMMA PopSteps ==
  ASSUME LinkInv, todo[Consumer] # <<>>, It(Consumer) \notin Before(Consumer), UNCHANGED <<link, made>>,
         NEW new, NEW g, Then(Consumer, new), Toward(new, Counting, g), PopAt(g)
  PROVE  LinkInv'
<1>1. new \in Seq(Counting \cup {g})
  <2>1. PICK u \in Seq(Counting) : new = Append(u, g)
    BY DEF Toward
  <2> QED BY <2>1, AppendProperties
<1>2. todo'[Consumer] = new /\ todo'[Producer] = todo[Producer] /\ DOMAIN todo' = Threads
  BY <1>1, LastDone DEF Threads, Producer, Consumer
<1> QED BY <1>2, PopMoves

\* Where pop may be before it has marked an entry.
LEMMA PopStarts ==
  ASSUME LinkInv
  PROVE  /\ PopAt(Deref("next", head, "pop", head))
         /\ PopAt(Op("return", NULL, NULL))
         /\ \A e \in 1 .. linked : link["next"][head] = Ptr(e) =>
              /\ \A o \in Looks : PopAt([op |-> o, n |-> e, as |-> "pop", m |-> head])
              /\ PopAt(Op("first", e, e)) /\ PopAt(Op("peek", e, e))
              /\ \A n \in Node : PopAt(Op("marknext", e, n))
         /\ \A o \in Looks : PopAt([op |-> o, n |-> tail, as |-> "pop", m |-> head])
<1>1. /\ PopAt(Deref("next", head, "pop", head))
      /\ PopAt(Op("return", NULL, NULL))
  BY DEF PopAt, PopAims, Taking, Marked, Succ, Deref, Op, Looks
<1>2. ASSUME NEW e \in 1 .. linked, link["next"][head] = Ptr(e), NEW o \in Looks
      PROVE  PopAt([op |-> o, n |-> e, as |-> "pop", m |-> head])
  BY <1>2 DEF PopAt, PopAims, Taking, Marked, Succ, Looks
<1>3. ASSUME NEW e \in 1 .. linked, link["next"][head] = Ptr(e)
      PROVE  PopAt(Op("first", e, e)) /\ PopAt(Op("peek", e, e))
  <2>1. e \in Node
    BY Bounds
  <2> QED BY <1>3, <2>1 DEF PopAt, PopAims, Taking, Marked, Succ, Op, Looks
<1>4. ASSUME NEW e \in 1 .. linked, link["next"][head] = Ptr(e), NEW n \in Node
      PROVE  PopAt(Op("marknext", e, n))
  BY <1>4, Sentinels DEF PopAt, PopAims, Taking, Marked, Succ, Op, Looks
<1>5. ASSUME NEW o \in Looks PROVE PopAt([op |-> o, n |-> tail, as |-> "pop", m |-> head])
  <2>1. tail \notin Entries
    BY MaxPushAssumption DEF tail, Entries
  <2> QED BY <2>1 DEF PopAt, PopAims, Taking, Marked, Succ, Looks
<1> QED BY <1>1, <1>2, <1>3, <1>4, <1>5

\* Where it may be once it has.
Out(e) == /\ e \in 1 .. linked /\ link["next"][head] = Ptr(e)
          /\ link["next"][e].mark /\ link["next"][e].to # NULL

LEMMA PopTakes ==
  ASSUME LinkInv, NEW e, Out(e)
  PROVE  /\ \A n \in Node \cup {NULL} : PopAt(Op("prev", e, n)) /\ PopAt(Op("markprev", e, n))
         /\ PopAt(Deref("next", e, "succ", e))
         /\ \A n \in 1 .. linked \cup {tail} : link["next"][e] = MarkOn(Ptr(n)) =>
              /\ \A o \in Looks : PopAt([op |-> o, n |-> n, as |-> "succ", m |-> e])
              /\ PopAt(Op("unprev", e, n))
<1>1. e \in 1 .. linked /\ e \in Node
  BY Bounds DEF Out
<1>2. ASSUME NEW n \in Node \cup {NULL} PROVE PopAt(Op("prev", e, n)) /\ PopAt(Op("markprev", e, n))
  BY <1>1 DEF Out, PopAt, PopAims, Taking, Marked, Succ, Op, Looks
<1>3. PopAt(Deref("next", e, "succ", e))
  BY <1>1 DEF Out, PopAt, PopAims, Taking, Marked, Succ, Deref, Looks
<1>4. ASSUME NEW n \in 1 .. linked \cup {tail}, link["next"][e] = MarkOn(Ptr(n)), NEW o \in Looks
      PROVE  PopAt([op |-> o, n |-> n, as |-> "succ", m |-> e])
  BY <1>1, <1>4 DEF Out, PopAt, PopAims, Taking, Marked, Succ, Looks
<1>5. ASSUME NEW n \in 1 .. linked \cup {tail}, link["next"][e] = MarkOn(Ptr(n))
      PROVE  PopAt(Op("unprev", e, n))
  <2>1. n \in Node
    BY Bounds, Sentinels
  <2> QED BY <1>1, <1>5, <2>1 DEF Out, PopAt, PopAims, Taking, Marked, Succ, Op, Looks
<1> QED BY <1>2, <1>3, <1>4, <1>5

\* The same, read off where it is.
LEMMA PopPlaces ==
  ASSUME LinkInv, NEW a, PopAt(a)
  PROVE  /\ a.op = "deref" => \/ a = Deref("next", head, "pop", head)
                              \/ a = Deref("next", a.m, "succ", a.m) /\ Out(a.m)
         /\ a.op \in Looks =>
              \/ /\ a = [op |-> a.op, n |-> a.n, as |-> "pop", m |-> head]
                 /\ a.n = tail \/ (a.n \in 1 .. linked /\ link["next"][head] = Ptr(a.n))
              \/ /\ a = [op |-> a.op, n |-> a.n, as |-> "succ", m |-> a.m] /\ Out(a.m)
                 /\ a.n \in 1 .. linked \cup {tail} /\ link["next"][a.m] = MarkOn(Ptr(a.n))
         /\ a.op \in {"first", "peek", "marknext"} =>
              a.n \in 1 .. linked /\ link["next"][head] = Ptr(a.n)
         /\ a.op = "marknext" => a.m \in Node
         /\ a.op \in {"prev", "markprev", "unprev", "unlink"} => Out(a.n)
         /\ a.op \in {"unprev", "unlink"} =>
              a.m \in 1 .. linked \cup {tail} /\ link["next"][a.n] = MarkOn(Ptr(a.m))
<1>0. a \in PopAims /\ 1 .. linked \subseteq Entries /\ Entries \subseteq Node
  BY Bounds DEF PopAt
<1>1. a.op = "deref" => \/ a = Deref("next", head, "pop", head)
                        \/ a = Deref("next", a.m, "succ", a.m) /\ Out(a.m)
  <2> SUFFICES ASSUME a.op = "deref", a # Deref("next", head, "pop", head)
               PROVE  a = Deref("next", a.m, "succ", a.m) /\ Out(a.m)
    OBVIOUS
  <2>1. PICK e \in 1 .. linked : a = Deref("next", e, "succ", e)
    BY <1>0 DEF PopAims, Looks
  <2>2. a.m = e /\ Taking(a, e) /\ Marked(a, e) /\ e \in Entries
    BY <1>0, <2>1 DEF Deref, Taking, Marked
  <2> QED BY <2>1, <2>2 DEF PopAt, Out
<1>2. a.op \in Looks =>
        \/ /\ a = [op |-> a.op, n |-> a.n, as |-> "pop", m |-> head]
           /\ a.n = tail \/ (a.n \in 1 .. linked /\ link["next"][head] = Ptr(a.n))
        \/ /\ a = [op |-> a.op, n |-> a.n, as |-> "succ", m |-> a.m] /\ Out(a.m)
           /\ a.n \in 1 .. linked \cup {tail} /\ link["next"][a.m] = MarkOn(Ptr(a.n))
  <2> SUFFICES ASSUME a.op \in Looks
               PROVE  \/ /\ a = [op |-> a.op, n |-> a.n, as |-> "pop", m |-> head]
                         /\ a.n = tail \/ (a.n \in 1 .. linked /\ link["next"][head] = Ptr(a.n))
                      \/ /\ a = [op |-> a.op, n |-> a.n, as |-> "succ", m |-> a.m] /\ Out(a.m)
                         /\ a.n \in 1 .. linked \cup {tail} /\ link["next"][a.m] = MarkOn(Ptr(a.n))
    OBVIOUS
  <2>1. \/ a \in [op : Looks, n : 1 .. linked \cup {tail}, as : {"pop"}, m : {head}]
        \/ a \in [op : Looks, n : 1 .. linked \cup {tail}, as : {"succ"}, m : 1 .. linked]
    BY <1>0 DEF PopAims, Looks, Deref
  <2>2. CASE a \in [op : Looks, n : 1 .. linked \cup {tail}, as : {"pop"}, m : {head}]
    <3>1. a = [op |-> a.op, n |-> a.n, as |-> "pop", m |-> head] /\ a.n \in 1 .. linked \cup {tail}
      BY <2>2
    <3>2. a.as = "pop"
      BY <2>2
    <3>3. a.n \in 1 .. linked => link["next"][head] = Ptr(a.n)
      BY <1>0, <3>2 DEF PopAt, Taking
    <3> QED BY <3>1, <3>3
  <2>3. CASE a \in [op : Looks, n : 1 .. linked \cup {tail}, as : {"succ"}, m : 1 .. linked]
    <3>1. /\ a = [op |-> a.op, n |-> a.n, as |-> "succ", m |-> a.m]
          /\ a.n \in 1 .. linked \cup {tail} /\ a.m \in 1 .. linked /\ a.as = "succ"
      BY <2>3
    <3>2. a.m \in Entries /\ a.n \in Node
      BY <1>0, <3>1, Sentinels
    <3>3. Taking(a, a.m) /\ Marked(a, a.m) /\ Succ(a, a.m, a.n)
      BY <3>1 DEF Taking, Marked, Succ
    <3>4. Out(a.m)
      BY <3>1, <3>2, <3>3 DEF PopAt, Out
    <3>5. link["next"][a.m] = MarkOn(Ptr(a.n))
      BY <3>2, <3>3 DEF PopAt
    <3> QED BY <3>1, <3>4, <3>5
  <2> QED BY <2>1, <2>2, <2>3
<1>3. ASSUME a.op \in {"first", "peek", "marknext", "prev", "markprev", "unprev", "unlink"}
      PROVE  a.n \in 1 .. linked /\ a.m \in Node \cup {NULL} /\ link["next"][head] = Ptr(a.n)
  <2>1. a.n \in 1 .. linked /\ a.m \in Node \cup {NULL}
    BY <1>0, <1>3 DEF PopAims, Looks, Deref
  <2>2. Taking(a, a.n)
    BY <1>3 DEF Taking
  <2> QED BY <1>0, <2>1, <2>2 DEF PopAt
<1>4. a.op = "marknext" => a.m \in Node
  BY <1>3 DEF PopAt
<1>5. ASSUME a.op \in {"prev", "markprev", "unprev", "unlink"} PROVE Out(a.n)
  <2>1. Marked(a, a.n)
    BY <1>5 DEF Marked
  <2> QED BY <1>0, <1>3, <1>5, <2>1 DEF PopAt, Out
<1>6. ASSUME a.op \in {"unprev", "unlink"}
      PROVE  a.m \in 1 .. linked \cup {tail} /\ link["next"][a.n] = MarkOn(Ptr(a.m))
  <2>1. Succ(a, a.n, a.m)
    BY <1>6 DEF Succ
  <2>2. link["next"][a.n] = MarkOn(Ptr(a.m))
    BY <1>0, <1>3, <1>6, <2>1 DEF PopAt
  <2>3. a.m # NULL /\ a.m = link["next"][a.n].to
    BY <1>5, <1>6, <2>2, PtrTypes DEF Out
  <2>4. a.n \in Node
    BY <1>0, <1>3, <1>6
  <2>5. link["next"][a.n].to \in 1 .. linked \cup {tail, NULL}
    BY <2>4 DEF LinkInv, ChainInv
  <2> QED BY <2>2, <2>3, <2>5
<1> QED BY <1>1, <1>2, <1>3, <1>4, <1>5, <1>6

LEMMA MarkedPtr ==
  ASSUME NEW p \in Ptrs, p.mark
  PROVE  p = MarkOn(Ptr(p.to))
BY DEF Ptrs, MarkOn, Ptr

LEMMA PopDerefs ==
  ASSUME LinkInv, \/ DerefLink(Consumer) \/ DerefDelete(Consumer)
                  \/ DerefCount(Consumer) \/ DerefClaim(Consumer),
         It(Consumer).op = "deref" \/ It(Consumer).as \in {"pop", "succ"}
  PROVE  LinkInv'
<1>0. PICK a : a = It(Consumer)
  OBVIOUS
<1>1. todo[Consumer] # <<>> /\ a.op \in {"deref"} \cup Looks /\ UNCHANGED <<link, made>>
  BY <1>0 DEF DerefLink, DerefDelete, DerefCount, DerefClaim, At, It, Looks
<1>2. a \notin Before(Consumer)
  BY <1>0, <1>1, BeforeOps, CountingOps DEF Looks, Threads, Producer, Consumer
<1>3. PopAt(a)
  BY <1>0, <1>1, <1>2, PopHead
<1>4. ASSUME NEW g, Then(Consumer, <<g>>), PopAt(g) PROVE LinkInv'
  <2>1. Toward(<<g>>, Counting, g)
    BY TowardTuples
  <2> QED BY <1>0, <1>1, <1>2, <1>4, <2>1, PopSteps
<1>5. PopAt(Deref("next", head, "pop", head)) /\ PopAt(Op("return", NULL, NULL))
  BY PopStarts
<1>6. CASE a.op = "deref"
  <2>0. DerefLink(Consumer)
    BY <1>0, <1>6 DEF DerefDelete, DerefCount, DerefClaim, At, It
  <2>1. CASE a = Deref("next", head, "pop", head)
    <3>1. PICK x \in 1 .. linked \cup {tail} : link["next"][head] = Ptr(x)
      BY DEF LinkInv, ChainInv
    <3>2. x # NULL
      BY Sentinels, Bounds DEF NULL
    <3>3. Then(Consumer, <<Look(x, "pop", head)>>)
      BY <1>0, <2>0, <2>1, <3>1, <3>2 DEF DerefLink, Ptr, Deref
    <3>4. PopAt(Look(x, "pop", head))
      BY <3>1, PopStarts DEF Look, Looks
    <3> QED BY <1>4, <3>3, <3>4
  <2>2. CASE a = Deref("next", a.m, "succ", a.m) /\ Out(a.m)
    <3>1. PICK e : e = a.m
      OBVIOUS
    <3>2. Out(e) /\ a = Deref("next", e, "succ", e)
      BY <2>2, <3>1
    <3>3. e \in Node
      BY <3>2, Bounds DEF Out
    <3>4. PICK p : p = link["next"][e]
      OBVIOUS
    <3>5. p \in Ptrs /\ p.mark /\ p.to # NULL /\ p.to \in 1 .. linked \cup {tail}
      BY <3>2, <3>3, <3>4 DEF LinkInv, ChainInv, Out
    <3>6. a.f = "next" /\ a.n = e /\ a.as = "succ" /\ a.m = e
      BY <3>2 DEF Deref
    <3>7. Then(Consumer, <<Look(p.to, "succ", e)>>)
      BY <1>0, <2>0, <3>4, <3>5, <3>6 DEF DerefLink
    <3>8. link["next"][e] = MarkOn(Ptr(p.to))
      BY <3>4, <3>5, MarkedPtr
    <3>9. PopAt(Look(p.to, "succ", e))
      BY <3>2, <3>5, <3>8, PopTakes DEF Look, Looks
    <3> QED BY <1>4, <3>7, <3>9
  <2> QED BY <1>3, <1>6, <2>1, <2>2, PopPlaces
<1>7. CASE a.op \in Looks /\ a.as = "pop"
  <2>1. /\ a = [op |-> a.op, n |-> a.n, as |-> "pop", m |-> head]
        /\ a.n = tail \/ (a.n \in 1 .. linked /\ link["next"][head] = Ptr(a.n))
    BY <1>3, <1>7, PopPlaces
  <2>2. \A o \in Looks : [a EXCEPT !.op = o] = [op |-> o, n |-> a.n, as |-> "pop", m |-> head]
    BY <2>1
  <2>3. \A o \in Looks : PopAt([a EXCEPT !.op = o])
    BY <2>1, <2>2, PopStarts
  <2>4. a.as = "pop" /\ a.m = head
    BY <2>1
  <2>5. CASE DerefDelete(Consumer)
    <3>1. (IF delete[a.n] THEN "recheck" ELSE "claim") \in Looks
      BY DEF Looks
    <3>2. Then(Consumer, <<[a EXCEPT !.op = IF delete[a.n] THEN "recheck" ELSE "claim"]>>)
      BY <1>0, <2>5 DEF DerefDelete
    <3> QED BY <1>4, <2>3, <3>1, <3>2
  <2>6. CASE DerefCount(Consumer)
    <3>1. Failed("pop", head) = <<Op("return", NULL, NULL)>> /\ "claim" \in Looks
      BY DEF Failed, Looks
    <3>2. Then(Consumer, <<Op("return", NULL, NULL)>>) \/ Then(Consumer, <<[a EXCEPT !.op = "claim"]>>)
      BY <1>0, <2>4, <2>6, <3>1 DEF DerefCount
    <3> QED BY <1>4, <1>5, <2>3, <3>1, <3>2
  <2>7. CASE DerefClaim(Consumer)
    <3>1. CASE a.n = tail
      <4>1. Then(Consumer, <<Release(tail), Op("return", NULL, NULL)>>)
        BY <1>0, <2>4, <2>7, <3>1 DEF DerefClaim, Acquired
      <4>2. Release(tail) \in Counting
        BY Sentinels, CountingType
      <4>3. Toward(<<Release(tail), Op("return", NULL, NULL)>>, Counting, Op("return", NULL, NULL))
        BY <4>2, TowardTuples
      <4> QED BY <1>0, <1>1, <1>2, <1>5, <4>1, <4>3, PopSteps
    <3>2. CASE a.n # tail
      <4>1. Then(Consumer, <<Op("first", a.n, a.n)>>)
        BY <1>0, <2>4, <2>7, <3>2 DEF DerefClaim, Acquired
      <4>2. PopAt(Op("first", a.n, a.n))
        BY <2>1, <3>2, PopStarts
      <4> QED BY <1>4, <4>1, <4>2
    <3> QED BY <3>1, <3>2
  <2> QED BY <1>0, <1>7, <2>5, <2>6, <2>7 DEF DerefLink, At, It, Looks
<1>8. CASE a.op \in Looks /\ a.as = "succ"
  <2>1. /\ a = [op |-> a.op, n |-> a.n, as |-> "succ", m |-> a.m] /\ Out(a.m)
        /\ a.n \in 1 .. linked \cup {tail} /\ link["next"][a.m] = MarkOn(Ptr(a.n))
    BY <1>3, <1>8, PopPlaces
  <2>2. \A o \in Looks : [a EXCEPT !.op = o] = [op |-> o, n |-> a.n, as |-> "succ", m |-> a.m]
    BY <2>1
  <2>3. \A o \in Looks : PopAt([a EXCEPT !.op = o])
    BY <2>1, <2>2, PopTakes
  <2>4. PopAt(Deref("next", a.m, "succ", a.m)) /\ PopAt(Op("unprev", a.m, a.n))
    BY <2>1, PopTakes
  <2>5. CASE DerefDelete(Consumer)
    <3>1. (IF delete[a.n] THEN "recheck" ELSE "claim") \in Looks
      BY DEF Looks
    <3>2. Then(Consumer, <<[a EXCEPT !.op = IF delete[a.n] THEN "recheck" ELSE "claim"]>>)
      BY <1>0, <2>5 DEF DerefDelete
    <3> QED BY <1>4, <2>3, <3>1, <3>2
  <2>6. CASE DerefCount(Consumer)
    <3>1. Failed("succ", a.m) = <<Deref("next", a.m, "succ", a.m)>> /\ "claim" \in Looks
      BY DEF Failed, PopSucc, Looks
    <3>2. \/ Then(Consumer, <<Deref("next", a.m, "succ", a.m)>>)
          \/ Then(Consumer, <<[a EXCEPT !.op = "claim"]>>)
      BY <1>0, <1>8, <2>6, <3>1 DEF DerefCount
    <3> QED BY <1>4, <2>3, <2>4, <3>1, <3>2
  <2>7. CASE DerefClaim(Consumer)
    <3>1. Then(Consumer, <<Op("unprev", a.m, a.n)>>)
      BY <1>0, <1>8, <2>7 DEF DerefClaim, Acquired
    <3> QED BY <1>4, <2>4, <3>1
  <2> QED BY <1>0, <1>8, <2>5, <2>6, <2>7 DEF DerefLink, At, It, Looks
<1> QED BY <1>0, <1>1, <1>6, <1>7, <1>8

\* pop reads, or its CAS fails.
LEMMA AgainTuple ==
  ASSUME NEW e \in Node
  PROVE  /\ Toward(PopAgain(e), Counting, Deref("next", head, "pop", head))
         /\ \A n \in Node : Toward(<<Release(n)>> \o PopSucc(e), Counting, Deref("next", e, "succ", e))
<1>1. ASSUME NEW n \in Node, NEW g PROVE Toward(<<Release(n)>> \o <<g>>, Counting, g)
  <2>1. <<Release(n)>> \in Seq(Counting)
    BY CountingType
  <2>2. Toward(<<g>>, Counting, g)
    BY TowardTuples
  <2> QED BY <2>1, <2>2, TowardConcat
<1> QED BY <1>1 DEF PopAgain, PopLoop, PopSucc

LEMMA PopReads ==
  ASSUME LinkInv, UNCHANGED link,
         \/ PopFirst \/ PopPeek \/ PopMarkNext \/ PopReadPrev \/ PopMarkPrev \/ PopUnlinkPrev,
         PopMarkNext => link["next"][It(Consumer).n] # Ptr(It(Consumer).m),
         PopMarkPrev => link["prev"][It(Consumer).n] # Ptr(It(Consumer).m),
         PopUnlinkPrev => link["prev"][It(Consumer).m] # Ptr(It(Consumer).n)
  PROVE  LinkInv'
<1>0. PICK a : a = It(Consumer)
  OBVIOUS
<1>1. /\ todo[Consumer] # <<>> /\ UNCHANGED <<link, made>>
      /\ a.op \in {"first", "peek", "marknext", "prev", "markprev", "unprev"}
  BY <1>0 DEF PopFirst, PopPeek, PopMarkNext, PopReadPrev, PopMarkPrev, PopUnlinkPrev, At, It
<1>2. a \notin Before(Consumer)
  BY <1>0, <1>1, BeforeOps, CountingOps DEF Looks, Threads, Producer, Consumer
<1>3. PopAt(a)
  BY <1>0, <1>1, <1>2, PopHead
<1>4. ASSUME NEW g, Then(Consumer, <<g>>), PopAt(g) PROVE LinkInv'
  <2>1. Toward(<<g>>, Counting, g)
    BY TowardTuples
  <2> QED BY <1>0, <1>1, <1>2, <1>4, <2>1, PopSteps
<1>5. PICK e : e = a.n
  OBVIOUS
<1>6. /\ e \in 1 .. linked
      /\ a.op \in {"first", "peek", "marknext"} => link["next"][head] = Ptr(e)
      /\ a.op \in {"prev", "markprev", "unprev"} => Out(e)
  BY <1>1, <1>3, <1>5, PopPlaces DEF Out
<1>7. e \in Node
  BY <1>6, Bounds
<1>8. ASSUME Then(Consumer, PopAgain(e)) PROVE LinkInv'
  <2>1. Toward(PopAgain(e), Counting, Deref("next", head, "pop", head))
    BY <1>7, AgainTuple
  <2>2. PopAt(Deref("next", head, "pop", head))
    BY PopStarts
  <2> QED BY <1>0, <1>1, <1>2, <1>8, <2>1, <2>2, PopSteps
<1>9. CASE PopFirst
  <2>1. Then(Consumer, <<Op("peek", e, e)>>) \/ Then(Consumer, PopAgain(e))
    BY <1>0, <1>5, <1>9 DEF PopFirst
  <2>2. a.op = "first"
    BY <1>0, <1>9 DEF PopFirst, At, It
  <2>3. PopAt(Op("peek", e, e))
    BY <1>6, <2>2, PopStarts
  <2> QED BY <1>4, <1>8, <2>1, <2>3
<1>10. CASE PopPeek
  <2>0. PICK x : x = link["next"][e].to
    OBVIOUS
  <2>1. Then(Consumer, PopAgain(e)) \/ (x # NULL /\ Then(Consumer, <<Op("marknext", e, x)>>))
    BY <1>0, <1>5, <1>10, <2>0 DEF PopPeek
  <2>2. a.op = "peek"
    BY <1>0, <1>10 DEF PopPeek, At, It
  <2>3. x # NULL => x \in Node
    <3>1. link["next"][e] \in Ptrs
      BY <1>7 DEF LinkInv
    <3> QED BY <2>0, <3>1 DEF Ptrs
  <2>4. x # NULL => PopAt(Op("marknext", e, x))
    BY <1>6, <2>2, <2>3, PopStarts
  <2> QED BY <1>4, <1>8, <2>1, <2>4
<1>11. CASE PopMarkNext
  <2>1. Then(Consumer, PopAgain(e))
    BY <1>0, <1>5, <1>11 DEF PopMarkNext
  <2> QED BY <1>8, <2>1
<1>12. CASE PopReadPrev
  <2>0. PICK x : x = link["prev"][e].to
    OBVIOUS
  <2>1. Then(Consumer, <<Op("prev", e, x)>>) \/ Then(Consumer, <<Op("markprev", e, x)>>)
    BY <1>0, <1>5, <1>12, <2>0 DEF PopReadPrev
  <2>2. a.op = "prev"
    BY <1>0, <1>12 DEF PopReadPrev, At, It
  <2>3. x \in Node \cup {NULL}
    <3>1. link["prev"][e] \in Ptrs
      BY <1>7 DEF LinkInv
    <3> QED BY <2>0, <3>1 DEF Ptrs
  <2>4. PopAt(Op("prev", e, x)) /\ PopAt(Op("markprev", e, x))
    BY <1>6, <2>2, <2>3, PopTakes
  <2> QED BY <1>4, <2>1, <2>4
<1>13. CASE PopMarkPrev
  <2>1. Then(Consumer, <<Op("prev", e, e)>>)
    BY <1>0, <1>5, <1>13 DEF PopMarkPrev
  <2>2. a.op = "markprev"
    BY <1>0, <1>13 DEF PopMarkPrev, At, It
  <2>3. PopAt(Op("prev", e, e))
    BY <1>6, <1>7, <2>2, PopTakes
  <2> QED BY <1>4, <2>1, <2>3
<1>14. CASE PopUnlinkPrev
  <2>0. PICK n : n = a.m
    OBVIOUS
  <2>1. Then(Consumer, <<Release(n)>> \o PopSucc(e))
    BY <1>0, <1>5, <1>14, <2>0 DEF PopUnlinkPrev
  <2>2. a.op = "unprev"
    BY <1>0, <1>14 DEF PopUnlinkPrev, At, It
  <2>3. n \in Node
    <3>1. n \in 1 .. linked \cup {tail}
      BY <1>3, <2>0, <2>2, PopPlaces
    <3> QED BY <3>1, Bounds, Sentinels
  <2>4. Toward(<<Release(n)>> \o PopSucc(e), Counting, Deref("next", e, "succ", e))
    BY <1>7, <2>3, AgainTuple
  <2>5. PopAt(Deref("next", e, "succ", e))
    BY <1>6, <2>2, PopTakes
  <2> QED BY <1>0, <1>1, <1>2, <2>1, <2>4, <2>5, PopSteps
<1> QED BY <1>9, <1>10, <1>11, <1>12, <1>13, <1>14

-----------------------------------------------------------------------------
(* queue_pop_left: the steps that change a link. *)

LEMMA PushKept ==
  ASSUME LinkInv, made' = made, todo'[Producer] = todo[Producer],
         Unlinked => link'["next"][made] = link["next"][made],
         Linking => /\ link'["prev"][tail] = link["prev"][tail]
                    /\ \A n \in 0 .. made - 1 : link["next"][n].to # tail => link'["next"][n].to # tail
  PROVE  PushInv'
<1>1. /\ Aim(Producer)' = Aim(Producer) /\ Unlinked' = Unlinked /\ Linking' = Linking
      /\ linked' = linked /\ PushAims' = PushAims
  BY ProducerStays
<1>2. Aim(Producer).op = "link" => Unlinked
  BY DEF Unlinked
<1>3. Aim(Producer) \in PushAims /\ Linking => Aim(Producer).m \in 0 .. made - 1
  BY DEF Linking, PushAims, Deref, Op, Looks
<1> QED BY <1>1, <1>2, <1>3 DEF LinkInv, PushInv

LEMMA PopChanges ==
  ASSUME LinkInv, todo[Consumer] # <<>>, It(Consumer) \notin Before(Consumer), made' = made,
         NEW new, NEW B, NEW g, Then(Consumer, new), Toward(new, B, g),
         Aim(Consumer)' = g => B \subseteq Before(Consumer)',
         link' \in [{"next", "prev"} -> [Node -> Ptrs]],
         todo'[Producer] = todo[Producer] => PushInv' /\ (PopAt(g))' /\ ChainInv'
  PROVE  LinkInv'
<1>1. new \in Seq(B \cup {g})
  <2>1. PICK u \in Seq(B) : new = Append(u, g)
    BY DEF Toward
  <2> QED BY <2>1, AppendProperties
<1>2. todo'[Consumer] = new /\ todo'[Producer] = todo[Producer] /\ DOMAIN todo' = Threads
  BY <1>1, LastDone DEF Threads, Producer, Consumer
<1>3. Toward(todo'[Consumer], B, g)
  BY <1>2
<1>4. Aim(Consumer)' = g /\ (InCall(Consumer))'
  BY <1>3, NewAim DEF Threads
<1>5. (InCall(Producer))'
  BY <1>2, ProducerStays
<1>6. PopInv'
  BY <1>2, <1>4 DEF PopInv
<1> QED BY <1>2, <1>4, <1>5, <1>6 DEF LinkInv, Threads

LEMMA PopMarksNext ==
  ASSUME LinkInv, PopMarkNext, link["next"][It(Consumer).n] = Ptr(It(Consumer).m)
  PROVE  LinkInv'
<1>0. PICK a : a = It(Consumer)
  OBVIOUS
<1>1. todo[Consumer] # <<>> /\ made' = made /\ a.op = "marknext"
  BY <1>0 DEF PopMarkNext, At, It
<1>2. a \notin Before(Consumer)
  BY <1>0, <1>1, BeforeOps, CountingOps DEF Looks, Threads, Producer, Consumer
<1>3. PopAt(a)
  BY <1>0, <1>1, <1>2, PopHead
<1>4. PICK e, n : e = a.n /\ n = a.m
  OBVIOUS
<1>5. e \in 1 .. linked /\ link["next"][head] = Ptr(e) /\ n \in Node
  BY <1>1, <1>3, <1>4, PopPlaces
<1>6. e \in Entries /\ e \in Node /\ e # head /\ (Unlinked => e # made)
  BY <1>5, Bounds
<1>7. link' = [link EXCEPT !["next"][e] = MarkOn(Ptr(n))] /\ Then(Consumer, <<Op("prev", e, e)>>)
  BY <1>0, <1>4 DEF PopMarkNext, Cas
<1>8. MarkOn(Ptr(n)) \in Ptrs
  BY <1>5, PtrTypes
<1>9. /\ link' \in [{"next", "prev"} -> [Node -> Ptrs]]
      /\ link'["next"][e] = MarkOn(Ptr(n))
      /\ \A x \in Node : x # e => link'["next"][x] = link["next"][x]
      /\ link'["prev"] = link["prev"]
  BY <1>6, <1>7, <1>8, LinkChanged
<1>10. link["next"][e] = Ptr(n)
  BY <1>0, <1>4
<1>11. Ptr(n).to = n /\ MarkOn(Ptr(n)).to = n /\ MarkOn(Ptr(n)).mark /\ ~Ptr(tail).mark
  BY PtrTypes
<1>12. \A x \in Node : link'["next"][x].to = link["next"][x].to
  BY <1>9, <1>10, <1>11
<1>13. PICK g : g = Op("prev", e, e)
  OBVIOUS
<1>14. ASSUME todo'[Producer] = todo[Producer] PROVE PushInv' /\ (PopAt(g))' /\ ChainInv'
  <2>1. Unlinked' = Unlinked /\ Linking' = Linking /\ linked' = linked /\ PopAims' = PopAims
    BY <1>1, <1>14, ProducerStays
  <2>2. PushInv'
    <3>1. Unlinked => made \in Node
      BY Bounds DEF LinkInv, PushInv, Unlinked, Aim, Op, Looks
    <3>2. 0 .. made - 1 \subseteq Node
      BY Bounds
    <3> QED BY <1>1, <1>6, <1>9, <1>12, <1>14, <3>1, <3>2, PushKept
  <2>3. (PopAt(g))'
    <3>1. g \in PopAims
      BY <1>5, <1>6, <1>13 DEF PopAims, Op
    <3>2. g.op = "prev" /\ g.n = e
      BY <1>13 DEF Op
    <3>3. link'["next"][head] = Ptr(e)
      BY <1>5, <1>6, <1>9, Sentinels
    <3>4. link'["next"][e].mark /\ link'["next"][e].to # NULL
      BY <1>5, <1>9, <1>11, Sentinels
    <3>5. \A d \in Entries : (Taking(g, d) => d = e) /\ (Marked(g, d) => d = e)
      BY <3>2 DEF Taking, Marked, Looks
    <3>6. \A d \in Entries, x \in Node \cup {NULL} : ~Succ(g, d, x)
      BY <3>2 DEF Succ, Looks
    <3> QED BY <2>1, <3>1, <3>2, <3>3, <3>4, <3>5, <3>6 DEF PopAt
  <2>4. ChainInv'
    <3>1. link'["next"][head] = link["next"][head]
      BY <1>6, <1>9, Sentinels
    <3>2. \A x \in Node : link'["next"][x] = Ptr(tail) => link["next"][x] = Ptr(tail)
      BY <1>9, <1>11
    <3> QED BY <1>1, <1>9, <1>12, <2>1, <3>1, <3>2 DEF LinkInv, ChainInv
  <2> QED BY <2>2, <2>3, <2>4
<1>15. Toward(<<g>>, Counting, g) /\ Counting \subseteq Before(Consumer)'
  BY TowardTuples, CountingBefore DEF Threads
<1> QED BY <1>0, <1>1, <1>2, <1>7, <1>9, <1>13, <1>14, <1>15, PopChanges

LEMMA PopMarksPrev ==
  ASSUME LinkInv, PopMarkPrev, link["prev"][It(Consumer).n] = Ptr(It(Consumer).m)
  PROVE  LinkInv'
<1>0. PICK a : a = It(Consumer)
  OBVIOUS
<1>1. todo[Consumer] # <<>> /\ made' = made /\ a.op = "markprev"
  BY <1>0 DEF PopMarkPrev, At, It
<1>2. a \notin Before(Consumer)
  BY <1>0, <1>1, BeforeOps, CountingOps DEF Looks, Threads, Producer, Consumer
<1>3. PopAt(a) /\ a \in PopAims
  BY <1>0, <1>1, <1>2, PopHead
<1>4. PICK e, n : e = a.n /\ n = a.m
  OBVIOUS
<1>5. Out(e) /\ n \in Node \cup {NULL}
  <2>1. n \in Node \cup {NULL}
    BY <1>1, <1>3, <1>4 DEF PopAims, Deref, Looks
  <2> QED BY <1>1, <1>3, <1>4, <2>1, PopPlaces
<1>6. e \in Entries /\ e \in Node /\ e # tail
  BY <1>5, Bounds DEF Out, Entries
<1>7. /\ link' = [link EXCEPT !["prev"][e] = MarkOn(Ptr(n))]
      /\ Then(Consumer, <<Deref("next", e, "succ", e)>>)
  BY <1>0, <1>4 DEF PopMarkPrev, Cas, PopSucc
<1>8. MarkOn(Ptr(n)) \in Ptrs
  BY <1>5, PtrTypes
<1>9. /\ link' \in [{"next", "prev"} -> [Node -> Ptrs]]
      /\ \A x \in Node : x # e => link'["prev"][x] = link["prev"][x]
      /\ link'["next"] = link["next"]
  BY <1>6, <1>7, <1>8, LinkChanged
<1>10. link'["prev"][tail] = link["prev"][tail]
  BY <1>6, <1>9, Sentinels
<1>11. PICK g : g = Deref("next", e, "succ", e)
  OBVIOUS
<1>12. ASSUME todo'[Producer] = todo[Producer] PROVE PushInv' /\ (PopAt(g))' /\ ChainInv'
  <2>1. Unlinked' = Unlinked /\ Linking' = Linking /\ linked' = linked /\ PopAims' = PopAims
    BY <1>1, <1>12, ProducerStays
  <2>2. PushInv'
    BY <1>1, <1>9, <1>10, <1>12, PushKept
  <2>3. (PopAt(g))'
    <3>1. PopAt(g)
      BY <1>5, <1>11, PopTakes
    <3> QED BY <1>9, <1>10, <2>1, <3>1 DEF PopAt
  <2>4. ChainInv'
    BY <1>1, <1>9, <1>10, <2>1 DEF LinkInv, ChainInv
  <2> QED BY <2>2, <2>3, <2>4
<1>13. Toward(<<g>>, Counting, g) /\ Counting \subseteq Before(Consumer)'
  BY TowardTuples, CountingBefore DEF Threads
<1> QED BY <1>0, <1>1, <1>2, <1>7, <1>9, <1>11, <1>12, <1>13, PopChanges

\* The entry taken out was the last: then no push is between its two CAS.
LEMMA PopUnlinksPrev ==
  ASSUME LinkInv, PopUnlinkPrev, link["prev"][It(Consumer).m] = Ptr(It(Consumer).n)
  PROVE  LinkInv'
<1>0. PICK a : a = It(Consumer)
  OBVIOUS
<1>1. todo[Consumer] # <<>> /\ made' = made /\ a.op = "unprev"
  BY <1>0 DEF PopUnlinkPrev, At, It
<1>2. a \notin Before(Consumer)
  BY <1>0, <1>1, BeforeOps, CountingOps DEF Looks, Threads, Producer, Consumer
<1>3. PopAt(a)
  BY <1>0, <1>1, <1>2, PopHead
<1>4. PICK e, n : e = a.n /\ n = a.m
  OBVIOUS
<1>5. Out(e) /\ n \in 1 .. linked \cup {tail} /\ link["next"][e] = MarkOn(Ptr(n))
  BY <1>1, <1>3, <1>4, PopPlaces
<1>6. e \in Entries /\ e \in Node /\ n \in Node /\ e \in 1 .. linked
  BY <1>5, Bounds, Sentinels DEF Out
<1>7. link["prev"][n] = Ptr(e)
  BY <1>0, <1>4
<1>8. /\ link' = [link EXCEPT !["prev"][n] = Ptr(head)]
      /\ Then(Consumer, PopUnlinked(e, n))
  BY <1>0, <1>4, <1>7 DEF PopUnlinkPrev, Cas
<1>9. Ptr(head) \in Ptrs /\ ~Ptr(tail).mark /\ MarkOn(Ptr(n)).mark /\ MarkOn(Ptr(n)).to = n
  BY PtrTypes, Sentinels
<1>10. /\ link' \in [{"next", "prev"} -> [Node -> Ptrs]]
       /\ link'["prev"][n] = Ptr(head)
       /\ \A x \in Node : x # n => link'["prev"][x] = link["prev"][x]
       /\ link'["next"] = link["next"]
  BY <1>6, <1>8, <1>9, LinkChanged, ZenonT(60)
<1>11. n = tail => ~Linking
  <2> SUFFICES ASSUME n = tail, Linking PROVE FALSE
    OBVIOUS
  <2>1. todo[Producer] # <<>>
    BY DEF Linking, Aim, Op
  <2>2. Ptr(Aim(Producer).m) = Ptr(e) /\ link["next"][Aim(Producer).m].to # tail
    BY <1>7, <2>1 DEF LinkInv, PushInv
  <2>3. Aim(Producer).m = e
    BY <2>2, PtrTypes
  <2> QED BY <1>5, <1>9, <2>2, <2>3
<1>12. Linking => link'["prev"][tail] = link["prev"][tail]
  BY <1>10, <1>11, Sentinels
<1>13. PICK g : g = Op("unlink", e, n)
  OBVIOUS
<1>14. ASSUME todo'[Producer] = todo[Producer] PROVE PushInv' /\ (PopAt(g))' /\ ChainInv'
  <2>1. Unlinked' = Unlinked /\ Linking' = Linking /\ linked' = linked /\ PopAims' = PopAims
    BY <1>1, <1>14, ProducerStays
  <2>2. PushInv'
    BY <1>1, <1>10, <1>12, <1>14, PushKept
  <2>3. (PopAt(g))'
    <3>1. g \in PopAims
      BY <1>6, <1>13 DEF PopAims, Op
    <3>2. g.op = "unlink" /\ g.n = e /\ g.m = n
      BY <1>13 DEF Op
    <3>3. link'["next"][head] = Ptr(e) /\ link'["next"][e].mark /\ link'["next"][e].to # NULL
      BY <1>5, <1>10 DEF Out
    <3>4. link'["next"][e] = MarkOn(Ptr(n))
      BY <1>5, <1>10
    <3>5. \A d \in Entries : (Taking(g, d) => d = e) /\ (Marked(g, d) => d = e)
      BY <3>2 DEF Taking, Marked, Looks
    <3>6. \A d \in Entries, x \in Node \cup {NULL} : Succ(g, d, x) => d = e /\ x = n
      BY <3>2 DEF Succ, Looks
    <3>7. n = tail => link'["prev"][tail] = Ptr(head) /\ ~Linking
      BY <1>10, <1>11
    <3> QED BY <2>1, <3>1, <3>2, <3>3, <3>4, <3>5, <3>6, <3>7 DEF PopAt
  <2>4. ChainInv'
    <3>0. /\ link["next"][head] \in {Ptr(x) : x \in 1 .. linked \cup {tail}}
          /\ \A x \in Node : link["next"][x].to \in 1 .. linked \cup {tail, NULL}
          /\ link["prev"][tail] \in {Ptr(x) : x \in 0 .. linked}
          /\ \A x \in Node : link["next"][x] = Ptr(tail) =>
               \/ x = made /\ (Unlinked \/ Linking)
               \/ link["prev"][tail] = Ptr(x) /\ ~Linking
      BY DEF LinkInv, ChainInv
    <3>1. link'["prev"][tail] \in {Ptr(x) : x \in 0 .. linked}
      <4>1. head \in 0 .. linked
        BY <1>6, Bounds
      <4> QED BY <1>10, <3>0, <4>1, Sentinels
    <3>2. ASSUME NEW x \in Node, link["next"][x] = Ptr(tail)
          PROVE  \/ x = made /\ (Unlinked \/ Linking)
                 \/ link'["prev"][tail] = Ptr(x) /\ ~Linking
      <4>1. CASE n # tail
        BY <1>10, <3>0, <3>2, <4>1, Sentinels
      <4>2. CASE n = tail
        <5>1. x # e
          BY <1>5, <1>9, <3>2
        <5>2. link["prev"][tail] # Ptr(x)
          BY <1>7, <4>2, <5>1, PtrTypes
        <5> QED BY <3>0, <3>2, <5>2
      <4> QED BY <4>1, <4>2
    <3> QED BY <1>1, <1>10, <2>1, <3>0, <3>1, <3>2 DEF ChainInv
  <2> QED BY <2>2, <2>3, <2>4
<1>15. Toward(PopUnlinked(e, n), Counting, g) /\ Counting \subseteq Before(Consumer)'
  <2>1. Release(e) \in Counting /\ Retain(head) \in Counting
    BY <1>6, Sentinels, CountingType
  <2>2. Toward(PopUnlinked(e, n), Counting, g)
    BY <1>13, <2>1, TowardTuples DEF PopUnlinked
  <2> QED BY <2>2, CountingBefore DEF Threads
<1> QED BY <1>0, <1>1, <1>2, <1>8, <1>10, <1>14, <1>15, PopChanges

\* head->next still leads to the entry: the CAS succeeds.
LEMMA PopUnlinksNext == ASSUME LinkInv, PopUnlinkNext PROVE LinkInv'
<1>0. PICK a : a = It(Consumer)
  OBVIOUS
<1>1. todo[Consumer] # <<>> /\ made' = made /\ a.op = "unlink"
  BY <1>0 DEF PopUnlinkNext, At, It
<1>2. a \notin Before(Consumer)
  BY <1>0, <1>1, BeforeOps, CountingOps DEF Looks, Threads, Producer, Consumer
<1>3. PopAt(a)
  BY <1>0, <1>1, <1>2, PopHead
<1>4. PICK e, n : e = a.n /\ n = a.m
  OBVIOUS
<1>5. Out(e) /\ n \in 1 .. linked \cup {tail}
  BY <1>1, <1>3, <1>4, PopPlaces
<1>6. e \in Entries /\ e \in Node /\ n \in Node /\ e \in 1 .. linked
  BY <1>5, Bounds, Sentinels DEF Out
<1>7. n = tail => link["prev"][tail] = Ptr(head) /\ ~Linking
  BY <1>1, <1>3, <1>4 DEF PopAt
<1>8. link["next"][head] = Ptr(e)
  BY <1>5 DEF Out
<1>9. /\ link' = [link EXCEPT !["next"][head] = Ptr(n)]
      /\ Then(Consumer, <<Release(e), Retain(n)>> \o PopEnd(e, n))
  BY <1>0, <1>4, <1>8 DEF PopUnlinkNext, Cas
<1>10. Ptr(n) \in Ptrs /\ Ptr(n).to = n
  BY <1>6, PtrTypes
<1>11. /\ link' \in [{"next", "prev"} -> [Node -> Ptrs]]
       /\ link'["next"][head] = Ptr(n)
       /\ \A x \in Node : x # head => link'["next"][x] = link["next"][x]
       /\ link'["prev"] = link["prev"]
  BY <1>9, <1>10, Sentinels, LinkChanged
<1>12. PICK g : g = Op("return", e, e)
  OBVIOUS
<1>13. g.op = "return" /\ g.n = e
  BY <1>12 DEF Op
<1>14. ASSUME todo'[Producer] = todo[Producer] PROVE PushInv' /\ (PopAt(g))' /\ ChainInv'
  <2>1. Unlinked' = Unlinked /\ Linking' = Linking /\ linked' = linked /\ PopAims' = PopAims
    BY <1>1, <1>14, ProducerStays
  <2>2. PushInv'
    <3>1. Unlinked => made \in Node /\ made # head
      BY Bounds DEF LinkInv, PushInv, Unlinked, Aim, Op, Looks
    <3>2. 0 .. made - 1 \subseteq Node
      BY Bounds
    <3>3. Linking => link'["next"][head].to # tail
      BY <1>7, <1>10, <1>11
    <3>4. Unlinked => link'["next"][made] = link["next"][made]
      BY <1>11, <3>1
    <3>5. Linking => \A x \in 0 .. made - 1 : link["next"][x].to # tail => link'["next"][x].to # tail
      BY <1>11, <3>2, <3>3
    <3> QED BY <1>1, <1>11, <1>14, <3>4, <3>5, PushKept
  <2>3. (PopAt(g))'
    <3>1. g \in PopAims
      BY <1>6, <1>12 DEF PopAims, Op
    <3>2. \A d \in Entries : ~Taking(g, d) /\ ~Marked(g, d)
      BY <1>13 DEF Taking, Marked, Looks
    <3>3. \A d \in Entries, x \in Node \cup {NULL} : ~Succ(g, d, x)
      BY <1>13 DEF Succ, Looks
    <3> QED BY <1>13, <2>1, <3>1, <3>2, <3>3 DEF PopAt
  <2>4. ChainInv'
    <3>0. /\ \A x \in Node : link["next"][x].to \in 1 .. linked \cup {tail, NULL}
          /\ link["prev"][tail] \in {Ptr(x) : x \in 0 .. linked}
          /\ \A x \in Node : link["next"][x] = Ptr(tail) =>
               \/ x = made /\ (Unlinked \/ Linking)
               \/ link["prev"][tail] = Ptr(x) /\ ~Linking
      BY DEF LinkInv, ChainInv
    <3>1. link'["next"][head] \in {Ptr(x) : x \in 1 .. linked \cup {tail}}
      BY <1>5, <1>11
    <3>2. \A x \in Node : link'["next"][x].to \in 1 .. linked \cup {tail, NULL}
      BY <1>5, <1>10, <1>11, <3>0
    <3>3. Ptr(n) = Ptr(tail) => n = tail
      BY PtrTypes
    <3>4. \A x \in Node : link'["next"][x] = Ptr(tail) =>
            \/ x = made /\ (Unlinked \/ Linking)
            \/ link'["prev"][tail] = Ptr(x) /\ ~Linking
      BY <1>7, <1>11, <3>0, <3>3
    <3> QED BY <1>1, <1>11, <2>1, <3>0, <3>1, <3>2, <3>4 DEF ChainInv
  <2> QED BY <2>2, <2>3, <2>4
<1> DEFINE sn == Store("next", e, NULL)
           sp == Store("prev", e, NULL)
           sh == Op("shrink", e, e)
           B == Counting \cup {sh, sn, sp}
<1>15. Toward(<<Release(e), Retain(n)>> \o PopEnd(e, n), B, g)
  <2>1. Release(e) \in B /\ Retain(n) \in B /\ Release(n) \in B
    BY <1>6, CountingType
  <2>2. sh \in B /\ sn \in B /\ sp \in B
    OBVIOUS
  <2>3. PopEnd(e, n) = <<Release(n), Release(e), sh, sn, sp, Release(e), g>>
    BY <1>12 DEF PopEnd
  <2> HIDE DEF B, sn, sp, sh
  <2>4. Toward(<<Release(n), Release(e), sh, sn, sp, Release(e), g>>, B, g)
    BY <2>1, <2>2, TowardTuples
  <2>5. <<Release(e), Retain(n)>> \in Seq(B)
    BY <2>1
  <2> QED BY <2>3, <2>4, <2>5, TowardConcat
<1>16. ASSUME Aim(Consumer)' = g PROVE B \subseteq Before(Consumer)'
  <2>1. sn \in Storing("next", e, {NULL}) /\ sp \in Storing("prev", e, {NULL})
    BY DEF Storing, Store
  <2>2. e # NULL
    BY <1>6, Sentinels
  <2>3. Before(Consumer)' = Counting \cup ({sh} \cup Storing("next", e, {NULL}) \cup Storing("prev", e, {NULL}))
    BY <1>13, <1>16, <2>2 DEF Before, Storing, Counting, Op, Producer, Consumer
  <2> QED BY <2>1, <2>3
<1> HIDE DEF B
<1> QED BY <1>0, <1>1, <1>2, <1>9, <1>11, <1>14, <1>15, <1>16, PopChanges

LEMMA PopShrinks == ASSUME LinkInv, PopShrink PROVE LinkInv'
<1>1. todo[Consumer] # <<>> /\ It(Consumer).op = "shrink" /\ UNCHANGED <<link, made>> /\ Consumer \in Threads
  BY DEF PopShrink, At, It, Threads
<1>2. It(Consumer) # Aim(Consumer)
  BY <1>1, AimOps DEF Looks
<1>3. <<>> \in Seq(Before(Consumer)) /\ Then(Consumer, <<>>)
  BY DEF PopShrink
<1>4. StoresNext(todo[Producer]) => StoresNext(todo'[Producer])
  BY <1>1, <1>2, <1>3, StoresRest DEF Producer, Consumer
<1>5. \A u \in Threads : Aim(u)' = Aim(u) /\ (todo'[u] = <<>> <=> todo[u] = <<>>)
  BY <1>1, <1>2, <1>3, FirstDone
<1>6. PushInv' /\ PopInv' /\ ChainInv'
  BY <1>1, <1>4, <1>5, FactsKept
<1>7. link' \in [{"next", "prev"} -> [Node -> Ptrs]]
  BY <1>1 DEF LinkInv
<1> QED BY <1>1, <1>2, <1>3, <1>6, <1>7, StoreStep

LEMMA PopReturns == ASSUME LinkInv, PopReturn PROVE LinkInv'
<1>1. todo[Consumer] # <<>> /\ It(Consumer).op = "return" /\ UNCHANGED <<link, made>> /\ Consumer \in Threads
  BY DEF PopReturn, At, It, Threads
<1>2. It(Consumer) \notin Before(Consumer)
  BY <1>1, BeforeOps, CountingOps DEF Looks
<1>3. <<>> \in Seq({}) /\ Then(Consumer, <<>>)
  BY DEF PopReturn
<1>4. todo'[Consumer] = <<>> /\ todo'[Producer] = todo[Producer] /\ DOMAIN todo' = Threads
  BY <1>1, <1>2, <1>3, LastDone DEF Threads, Producer, Consumer
<1>5. Unlinked' = Unlinked /\ Linking' = Linking /\ linked' = linked /\ (InCall(Producer))'
  BY <1>1, <1>4, ProducerStays
<1>6. PopInv' /\ (InCall(Consumer))'
  BY <1>4 DEF PopInv, InCall
<1>7. PushInv'
  BY <1>1, <1>4, PushKept
<1>8. ChainInv'
  BY <1>1, <1>5 DEF LinkInv, ChainInv
<1>9. link' \in [{"next", "prev"} -> [Node -> Ptrs]] /\ made' \in 0 .. MaxPush
  BY <1>1 DEF LinkInv
<1> QED BY <1>4, <1>5, <1>6, <1>7, <1>8, <1>9 DEF LinkInv, Threads

LEMMA PopBegins == ASSUME LinkInv, Pop PROVE LinkInv'
<1>1. PICK g : g = Deref("next", head, "pop", head)
  OBVIOUS
<1>2. UNCHANGED <<link, made>> /\ todo'[Producer] = todo[Producer] /\ DOMAIN todo' = Threads /\ todo'[Consumer] = <<g>>
  BY <1>1 DEF Pop, PopLoop, LinkInv, Threads, Producer, Consumer
<1>3. Toward(todo'[Consumer], Counting, g)
  BY <1>2, TowardTuples
<1>4. PopAt(g)
  BY <1>1, PopStarts
<1> QED BY <1>2, <1>3, <1>4, PopMoves

-----------------------------------------------------------------------------
(* The theorem. *)

LEMMA LinkInit == Init => LinkInv
<1> SUFFICES ASSUME Init PROVE LinkInv
  OBVIOUS
<1>1. Producer \in Threads /\ Consumer \in Threads /\ todo[Producer] = <<>> /\ todo[Consumer] = <<>>
  BY DEF Init, Threads
<1>2. ~Unlinked /\ ~Linking
  BY <1>1 DEF Unlinked, Linking, Aim, Op, Looks
<1>3. made = 0 /\ linked = 0
  BY <1>2 DEF Init, linked
<1>4. DOMAIN todo = Threads /\ \A t \in Threads : InCall(t)
  BY DEF Init, InCall
<1>5. PushInv /\ PopInv
  BY <1>1 DEF PushInv, PopInv
<1>6. /\ link["next"] = [n \in Node |-> Ptr(IF n = head THEN tail ELSE NULL)]
      /\ link["prev"] = [n \in Node |-> Ptr(IF n = tail THEN head ELSE NULL)]
      /\ link \in [{"next", "prev"} -> [Node -> Ptrs]]
  <2>1. \A n \in Node : /\ Ptr(IF n = head THEN tail ELSE NULL) \in Ptrs
                        /\ Ptr(IF n = tail THEN head ELSE NULL) \in Ptrs
    BY PtrTypes, Sentinels
  <2>2. PICK f : f = [n \in Node |-> Ptr(IF n = head THEN tail ELSE NULL)]
    OBVIOUS
  <2>3. PICK g : g = [n \in Node |-> Ptr(IF n = tail THEN head ELSE NULL)]
    OBVIOUS
  <2>4. f \in [Node -> Ptrs] /\ g \in [Node -> Ptrs]
    BY <2>1, <2>2, <2>3
  <2>5. link = [next |-> f, prev |-> g]
    BY <2>2, <2>3 DEF Init
  <2>6. link["next"] = f /\ link["prev"] = g /\ link \in [{"next", "prev"} -> [Node -> Ptrs]]
    BY <2>4, <2>5
  <2> QED BY <2>2, <2>3, <2>6
<1>7. ChainInv
  <2>1. /\ link["next"][head] = Ptr(tail) /\ link["prev"][tail] = Ptr(head)
        /\ \A n \in Node : n # head => link["next"][n] = Ptr(NULL)
    BY <1>6, Sentinels
  <2>2. /\ Ptr(tail).to = tail /\ Ptr(NULL).to = NULL /\ Ptr(NULL) # Ptr(tail)
    BY PtrTypes, Sentinels
  <2>3. 0 \in 0 .. linked /\ head = 0
    BY <1>3 DEF head
  <2> QED BY <1>2, <2>1, <2>2, <2>3 DEF ChainInv
<1> QED BY <1>3, <1>4, <1>5, <1>6, <1>7, MaxPushAssumption DEF LinkInv

LEMMA LinkRefs == ASSUME LinkInv, NEW t \in Threads, RefStep(t) PROVE LinkInv'
<1>1. CASE DerefLink(t) \/ DerefDelete(t) \/ DerefCount(t) \/ DerefClaim(t)
  <2>1. todo[t] # <<>> /\ It(t).op \in {"deref"} \cup Looks
    BY <1>1 DEF DerefLink, DerefDelete, DerefCount, DerefClaim, At, It, Looks
  <2>2. CASE It(t).op = "deref"
    <3>1. It(t) \notin Before(t)
      BY <2>2, BeforeOps, CountingOps DEF Looks
    <3>2. It(t) = Aim(t)
      BY <2>1, <3>1, HeadCases
    <3>3. CASE t = Producer
      <4>1. It(Producer).as = "push"
        BY <2>1, <2>2, <3>2, <3>3, AimOps
      <4> QED BY <1>1, <3>3, <4>1, PushDerefs
    <3>4. CASE t = Consumer
      BY <1>1, <2>2, <3>4, PopDerefs
    <3> QED BY <3>3, <3>4 DEF Threads
  <2>3. CASE It(t).op \in Looks /\ It(t).as \notin {"push", "pop", "succ"}
    <3>1. ~DerefLink(t)
      BY <2>3 DEF DerefLink, At, It, Looks
    <3> QED BY <1>1, <2>3, <3>1, RetainSteps
  <2>4. CASE It(t).op \in Looks /\ It(t).as \in {"push", "pop", "succ"}
    <3>1. It(t) \notin Before(t)
      BY <2>4, BeforeOps, CountingOps DEF Looks
    <3>2. It(t) = Aim(t)
      BY <2>1, <3>1, HeadCases
    <3>3. CASE t = Producer
      <4>1. It(Producer).as = "push"
        BY <2>1, <2>4, <3>2, <3>3, AimOps
      <4> QED BY <1>1, <3>3, <4>1, PushDerefs
    <3>4. CASE t = Consumer
      <4>1. It(Consumer).as \in {"pop", "succ"}
        BY <2>1, <2>4, <3>2, <3>4, AimOps
      <4> QED BY <1>1, <3>4, <4>1, PopDerefs
    <3> QED BY <3>3, <3>4 DEF Threads
  <2> QED BY <2>1, <2>2, <2>3, <2>4, SMTT(40)
<1>2. CASE \/ ReleaseRead(t) \/ ReleaseDecrement(t) \/ ReleaseMark(t) \/ ReleaseTest(t)
           \/ ReleaseTerminate(t) \/ ReleaseUnmark(t) \/ ReleaseThreshold(t)
           \/ GcTest(t) \/ GcCollect(t)
  BY <1>2, ReleaseSteps
<1>3. CASE StoreRead(t)
  BY <1>3, StoreReads
<1>4. CASE StoreSwap(t)
  BY <1>4, StoreSwaps
<1> QED BY <1>1, <1>2, <1>3, <1>4 DEF RefStep

LEMMA LinkNext == LinkInv /\ [Next]_vars => LinkInv'
<1> SUFFICES ASSUME LinkInv, [Next]_vars PROVE LinkInv'
  OBVIOUS
<1>1. CASE Push
  BY <1>1, PushBegins
<1>2. CASE PushStep
  <2>1. Producer \in Threads
    BY DEF Threads
  <2> QED BY <1>2, <2>1, PushLinkStep, PushBackStep, PushGrowStep, LinkRefs DEF PushStep
<1>3. CASE Pop
  BY <1>3, PopBegins
<1>4. CASE PopStep
  <2>1. Consumer \in Threads
    BY DEF Threads
  <2>2. CASE RefStep(Consumer)
    BY <2>1, <2>2, LinkRefs
  <2>3. CASE PopFirst \/ PopPeek \/ PopReadPrev
    <3>1. UNCHANGED link /\ ~PopMarkNext /\ ~PopMarkPrev /\ ~PopUnlinkPrev
      BY <2>3 DEF PopFirst, PopPeek, PopReadPrev, PopMarkNext, PopMarkPrev, PopUnlinkPrev, At
    <3> QED BY <2>3, <3>1, PopReads
  <2>4. CASE PopMarkNext
    <3>1. CASE link["next"][It(Consumer).n] = Ptr(It(Consumer).m)
      BY <2>4, <3>1, PopMarksNext
    <3>2. CASE link["next"][It(Consumer).n] # Ptr(It(Consumer).m)
      <4>1. UNCHANGED link /\ ~PopMarkPrev /\ ~PopUnlinkPrev
        BY <2>4, <3>2 DEF PopMarkNext, PopMarkPrev, PopUnlinkPrev, At, Cas
      <4> QED BY <2>4, <3>2, <4>1, PopReads
    <3> QED BY <3>1, <3>2
  <2>5. CASE PopMarkPrev
    <3>1. CASE link["prev"][It(Consumer).n] = Ptr(It(Consumer).m)
      BY <2>5, <3>1, PopMarksPrev
    <3>2. CASE link["prev"][It(Consumer).n] # Ptr(It(Consumer).m)
      <4>1. UNCHANGED link /\ ~PopMarkNext /\ ~PopUnlinkPrev
        BY <2>5, <3>2 DEF PopMarkNext, PopMarkPrev, PopUnlinkPrev, At, Cas
      <4> QED BY <2>5, <3>2, <4>1, PopReads
    <3> QED BY <3>1, <3>2
  <2>6. CASE PopUnlinkPrev
    <3>1. CASE link["prev"][It(Consumer).m] = Ptr(It(Consumer).n)
      BY <2>6, <3>1, PopUnlinksPrev
    <3>2. CASE link["prev"][It(Consumer).m] # Ptr(It(Consumer).n)
      <4>1. UNCHANGED link /\ ~PopMarkNext /\ ~PopMarkPrev
        BY <2>6, <3>2 DEF PopMarkNext, PopMarkPrev, PopUnlinkPrev, At, Cas
      <4> QED BY <2>6, <3>2, <4>1, PopReads
    <3> QED BY <3>1, <3>2
  <2>7. CASE PopUnlinkNext \/ PopShrink \/ PopReturn
    BY <2>7, PopUnlinksNext, PopShrinks, PopReturns
  <2> QED BY <1>4, <2>2, <2>3, <2>4, <2>5, <2>6, <2>7 DEF PopStep
<1>5. CASE UNCHANGED vars
  <2>1. UNCHANGED <<link, made, todo>>
    BY <1>5 DEF vars
  <2>2. todo'[Producer] = todo[Producer] /\ todo'[Consumer] = todo[Consumer]
    BY <2>1
  <2>3. \A u \in Threads : Aim(u)' = Aim(u) /\ (InCall(u))'
    BY <2>1, <2>2, ProducerStays, ConsumerStays DEF Threads
  <2>4. PushInv' /\ PopInv' /\ ChainInv'
    BY <2>1, <2>3, FactsKept
  <2> QED BY <2>1, <2>3, <2>4 DEF LinkInv
<1> QED BY <1>1, <1>2, <1>3, <1>4, <1>5 DEF Next

LEMMA NoRetryFromLinks == LinkInv => NoRetryBack
<1> SUFFICES ASSUME LinkInv, NEW k \in 1 .. Len(todo[Producer])
             PROVE  todo[Producer][k].op # "segfault" /\ ~(todo[Producer][k].op = "deref" /\ todo[Producer][k].as = "back")
  BY DEF NoRetryBack
<1>1. PICK o : o = todo[Producer][k]
  OBVIOUS
<1>2. Producer \in Threads
  BY DEF Threads
<1>3. todo[Producer] # <<>>
  OBVIOUS
<1>4. PICK u \in Seq(Before(Producer)) : todo[Producer] = Append(u, Aim(Producer))
  BY <1>2, <1>3 DEF LinkInv, InCall, Toward
<1>5. o \in Before(Producer) \/ o = Aim(Producer)
  <2> DEFINE S == Before(Producer) \cup {Aim(Producer)}
  <2>1. u \in Seq(S) /\ Aim(Producer) \in S
    OBVIOUS
  <2> HIDE DEF S
  <2>2. Append(u, Aim(Producer)) \in Seq(S)
    BY <2>1, AppendProperties
  <2>3. todo[Producer] \in Seq(S)
    BY <1>4, <2>2
  <2>4. o \in S
    BY <1>1, <2>3
  <2> QED BY <2>4 DEF S
<1>6. CASE o \in Before(Producer)
  <2>1. o.op \notin {"segfault", "deref"}
    BY <1>2, <1>6, BeforeOps, CountingOps DEF Looks
  <2> QED BY <1>1, <2>1
<1>7. CASE o = Aim(Producer)
  BY <1>1, <1>3, <1>7, AimOps DEF Looks
<1> QED BY <1>5, <1>6, <1>7

\* queue_push_right (queue.c) never comes to its retry at tail->prev, where it would use
\* what deref_link returns without a look whether it is NULL: for any number of pushes, any
\* threshold of gc, and whatever the reference counts and the collector do in between, the
\* CAS of tail->prev by the push that has linked its entry succeeds at once.
THEOREM NoRetry == Spec => []NoRetryBack
<1>1. Spec => []LinkInv
  BY LinkInit, LinkNext, PTL DEF Spec
<1> QED BY <1>1, NoRetryFromLinks, PTL

=============================================================================
