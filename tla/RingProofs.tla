----------------------------- MODULE RingProofs ------------------------------
(***************************************************************************)
(* What holds of the ring of rqueue.c for any number of threads, pages and  *)
(* calls, also when it is full and writers overwrite and free values: its   *)
(* links stay a ring, and no value is read twice.                           *)
(***************************************************************************)
EXTENDS Ring, SequenceTheorems, WellFoundedInduction, TLAPS

-----------------------------------------------------------------------------
(* The invariant. *)

Links(n) == [to : 0 .. n, flag : {HEAD, UPDATE, Plain}]
Buffers(n) ==
  [head : 0 .. n, tail : 0 .. n, commit : 0 .. n, reader : 0 .. n, next : [0 .. n -> Links(n)],
   prev : [0 .. n -> 0 .. n], value : [0 .. n -> Nat], writes : Int, reads : Int,
   read_sync : BOOLEAN, num_writers : Int]
Places ==
  {"idle", "tail", "commit", "next", "head", "full?", "reads", "alone?", "claim", "lost", "flag", "old",
   "value", "unflag", "count", "last?", "refused", "rbtail", "publish", "leave", "lock", "rcommit",
   "rtail", "rnext", "rold", "empty?", "detach", "swap", "move", "take", "clear", "rcount", "again",
   "unlock"}
Calls(n) ==
  [pc : Places, value : Nat, was : Nat, temp : 0 .. n, commit : 0 .. n, next : Links(n),
   head : 0 .. n, writes : Int, tail : 0 .. n, retries : Int, did_update : BOOLEAN,
   old : Links(n), lag : Int]

\* What rqueue_write and rqueue_read work on are pages of this ring.
PagesInv ==
  /\ use \in Rings /\ rb \in Buffers(use.size) /\ call \in [Threads -> Calls(use.size)]
  /\ started \in Nat /\ got \in Seq(Nat)

\* read_sync lets one read in at a time.
Reading ==
  {"rcommit", "rtail", "rnext", "rold", "empty?", "detach", "swap", "move", "take", "clear",
   "rcount", "again", "unlock"}
LockInv ==
  /\ \A t \in Threads : call[t].pc \in Reading => rb.read_sync
  /\ \A t, u \in Threads : call[t].pc \in Reading /\ call[u].pc \in Reading => t = u

\* The ring of n pages is o[0], o[1], ...: h is the head, r is outside; nx and pv are the links.
Ordered(n, o, h, r, nx, pv) ==
  /\ o \in [0 .. n - 1 -> 0 .. n]
  /\ \A i, j \in 0 .. n - 1 : o[i] = o[j] => i = j
  /\ \A p \in 0 .. n : (p # r) <=> \E i \in 0 .. n - 1 : o[i] = p
  /\ o[0] = h /\ nx[o[n - 1]].to = h /\ pv[h] = o[n - 1]
  /\ nx[o[n - 1]].flag # Plain
  /\ \A i \in 1 .. n - 1 : nx[o[i - 1]].to = o[i] /\ pv[o[i]] = o[i - 1] /\ nx[o[i - 1]].flag = Plain
Circle(n, h, r, nx, pv) == \E o : Ordered(n, o, h, r, nx, pv)

\* The links form a ring at every moment: between the swap of a read and its move it is the
\* ring that the move is going to make known.
Moving(t) == call[t].pc = "move"
CircleInv ==
  /\ (\A t \in Threads : ~Moving(t)) => Circle(use.size, rb.head, rb.reader, rb.next, rb.prev)
  /\ \A t \in Threads : Moving(t) =>
       Circle(use.size, call[t].next.to, rb.head, rb.next, [rb.prev EXCEPT ![call[t].next.to] = rb.reader])

\* What the read under way has found out still holds: only it changes links of the head, and
\* of the reader page once that is linked.
Before(c, h, r, nx, pv) ==
  /\ c.pc \in {"rcommit", "rtail", "rnext", "rold", "empty?", "detach", "swap", "move"} => c.head = h
  /\ c.pc \in {"rold", "empty?", "detach", "swap", "move"} => c.next.to = nx[h].to
  /\ c.pc = "swap" => nx[r].to = c.next.to /\ nx[r].flag # Plain /\ pv[r] = pv[h]
ReadInv == \A t \in Threads : Before(call[t], rb.head, rb.reader, rb.next, rb.prev)

\* A changed flag is going to be changed back.
Updating(c, p, q) == c.pc \in {"old", "value", "unflag"} /\ c.did_update /\ c.tail = p /\ c.next.to = q
FlagInv == \A p \in Pages : rb.next[p].flag = UPDATE => \E t \in Threads : Updating(call[t], p, rb.next[p].to)

RingInv == PagesInv /\ LockInv /\ CircleInv /\ ReadInv /\ FlagInv

-----------------------------------------------------------------------------
(* Rings. *)

LEMMA Sizes == ASSUME use \in Rings PROVE use.size \in Nat /\ use.size >= 3 /\ Pages = 0 .. use.size
BY RingsAssumption DEF Pages

\* g is f but for the value v at p.
Put(n, f, g, p, v) == \A q \in 0 .. n : g[q] = IF q = p THEN v ELSE f[q]
Agree(n, f, g, p) == \A q \in 0 .. n : q # p => g[q] = f[q]

LEMMA Indices ==
  ASSUME NEW n \in Nat, n >= 3
  PROVE  /\ 0 \in 0 .. n - 1 /\ 1 \in 1 .. n - 1 /\ 1 \in 0 .. n - 1 /\ n - 1 \in 0 .. n - 1 /\ n - 1 \in 1 .. n - 1
         /\ n - 1 # 0 /\ 1 # n - 1 /\ 1 - 1 = 0 /\ 0 \in 0 .. n - 2
         /\ \A i \in 1 .. n - 1 : i \in 0 .. n - 1 /\ i - 1 \in 0 .. n - 1 /\ i - 1 \in 0 .. n - 2 /\ (i - 1) + 1 = i
         /\ \A i \in 0 .. n - 2 : i + 1 \in 1 .. n - 1 /\ i + 1 \in 0 .. n - 1 /\ i \in 0 .. n - 1 /\ i + 1 # 0
                                  /\ (i + 1) - 1 = i
         /\ \A i \in 0 .. n - 1 : i = n - 1 \/ i \in 0 .. n - 2
OBVIOUS

\* A flag that is not plain is changed: only the one before the head is not plain.
LEMMA CircleFlag ==
  ASSUME NEW n \in Nat, n >= 3, NEW h, NEW r, NEW nx \in [0 .. n -> Links(n)], NEW pv,
         Circle(n, h, r, nx, pv), NEW p \in 0 .. n, nx[p].flag # Plain,
         NEW l \in Links(n), l.to = nx[p].to, l.flag # Plain, NEW nx2, Put(n, nx, nx2, p, l)
  PROVE  Circle(n, h, r, nx2, pv)
<1>1. PICK o : Ordered(n, o, h, r, nx, pv)
  BY DEF Circle
<1>2. o \in [0 .. n - 1 -> 0 .. n] /\ n - 1 \in 0 .. n - 1 /\ \A i \in 1 .. n - 1 : i \in 0 .. n - 1 /\ i - 1 \in 0 .. n - 1
  BY <1>1, Indices DEF Ordered
<1>4. \A q \in 0 .. n : nx2[q].to = nx[q].to /\ (nx2[q].flag = Plain <=> nx[q].flag = Plain)
  BY DEF Put
<1>5. nx2[o[n - 1]].to = h /\ nx2[o[n - 1]].flag # Plain
  BY <1>1, <1>2, <1>4 DEF Ordered
<1>6. \A i \in 1 .. n - 1 : nx2[o[i - 1]].to = o[i] /\ nx2[o[i - 1]].flag = Plain
  BY <1>1, <1>2, <1>4 DEF Ordered
<1>7. Ordered(n, o, h, r, nx2, pv)
  BY <1>1, <1>5, <1>6 DEF Ordered
<1> QED BY <1>7 DEF Circle

\* The links of the page outside do not matter.
LEMMA CircleOutside ==
  ASSUME NEW n \in Nat, n >= 3, NEW h, NEW r \in 0 .. n, NEW nx \in [0 .. n -> Links(n)],
         NEW pv \in [0 .. n -> 0 .. n], Circle(n, h, r, nx, pv), NEW nx2, NEW pv2,
         Agree(n, nx, nx2, r), Agree(n, pv, pv2, r)
  PROVE  Circle(n, h, r, nx2, pv2)
<1>1. PICK o : Ordered(n, o, h, r, nx, pv)
  BY DEF Circle
<1>2. o \in [0 .. n - 1 -> 0 .. n] /\ n - 1 \in 0 .. n - 1 /\ 0 \in 0 .. n - 1 /\ \A i \in 1 .. n - 1 : i \in 0 .. n - 1 /\ i - 1 \in 0 .. n - 1
  BY <1>1, Indices DEF Ordered
<1>3. \A i \in 0 .. n - 1 : o[i] \in 0 .. n /\ o[i] # r
  BY <1>1, <1>2 DEF Ordered
<1>4. \A i \in 0 .. n - 1 : nx2[o[i]] = nx[o[i]] /\ pv2[o[i]] = pv[o[i]]
  BY <1>3 DEF Agree
<1>5. nx2[o[n - 1]].to = h /\ nx2[o[n - 1]].flag # Plain /\ pv2[h] = o[n - 1]
  BY <1>1, <1>2, <1>4 DEF Ordered
<1>6. \A i \in 1 .. n - 1 : nx2[o[i - 1]].to = o[i] /\ pv2[o[i]] = o[i - 1] /\ nx2[o[i - 1]].flag = Plain
  BY <1>1, <1>2, <1>4 DEF Ordered
<1>7. Ordered(n, o, h, r, nx2, pv2)
  BY <1>1, <1>5, <1>6 DEF Ordered
<1> QED BY <1>7 DEF Circle

\* The page r outside has the links of h.
Joins(h, r, nx, pv) == nx[r].to = nx[h].to /\ nx[r].flag # Plain /\ pv[r] = pv[h]

\* The swap of a read: the page r comes in where h, the head, leaves.
LEMMA CircleSwap ==
  ASSUME NEW n \in Nat, n >= 3, NEW h \in 0 .. n, NEW r \in 0 .. n, NEW nx \in [0 .. n -> Links(n)],
         NEW pv \in [0 .. n -> 0 .. n], Circle(n, h, r, nx, pv),
         Joins(h, r, nx, pv), NEW nx2, Put(n, nx, nx2, pv[h], Ptr(r, Plain)), NEW pv2, Put(n, pv, pv2, nx[h].to, r)
  PROVE  Circle(n, nx[h].to, h, nx2, pv2)
<1>1. PICK o : Ordered(n, o, h, r, nx, pv)
  BY DEF Circle
<1>2. /\ o \in [0 .. n - 1 -> 0 .. n] /\ n - 1 \in 1 .. n - 1 /\ 0 \in 0 .. n - 1 /\ 1 \in 1 .. n - 1
      /\ 1 \in 0 .. n - 1 /\ n - 1 \in 0 .. n - 1 /\ n - 1 # 0 /\ 1 # n - 1 /\ 1 - 1 = 0
      /\ \A i \in 1 .. n - 1 : i \in 0 .. n - 1 /\ i - 1 \in 0 .. n - 1
  BY <1>1, Indices DEF Ordered
<1>3. /\ \A i, j \in 0 .. n - 1 : o[i] = o[j] => i = j
      /\ \A p \in 0 .. n : (p # r) <=> \E i \in 0 .. n - 1 : o[i] = p
      /\ o[0] = h /\ nx[o[n - 1]].to = h /\ pv[h] = o[n - 1]
      /\ \A i \in 1 .. n - 1 : nx[o[i - 1]].to = o[i] /\ pv[o[i]] = o[i - 1] /\ nx[o[i - 1]].flag = Plain
  BY <1>1 DEF Ordered
<1>4. \A i \in 0 .. n - 1 : o[i] \in 0 .. n /\ o[i] # r
  BY <1>2, <1>3
<1>5. nx[h].to = o[1] /\ pv[h] = o[n - 1] /\ o[n - 1] # h /\ o[1] # h /\ o[1] # o[n - 1] /\ r # h
  <2>1. nx[o[0]].to = o[1]
    BY <1>2, <1>3
  <2>2. o[n - 1] # o[0] /\ o[1] # o[0] /\ o[1] # o[n - 1]
    <3>1. PICK k : k = n - 1
      OBVIOUS
    <3>2. k \in 0 .. n - 1 /\ k # 0 /\ k # 1 /\ 1 # 0 /\ 1 \in 0 .. n - 1 /\ 0 \in 0 .. n - 1
      BY <3>1, <1>2
    <3>3. \A i, j \in 0 .. n - 1 : o[i] = o[j] => i = j
      BY <1>3
    <3>4. o[k] # o[0] /\ o[1] # o[0] /\ o[1] # o[k]
      BY <3>2, <3>3, Zenon
    <3> QED BY <3>1, <3>4, Zenon
  <2> QED BY <2>1, <2>2, <1>2, <1>3, <1>4
<1>6. /\ \A p \in 0 .. n : p # o[n - 1] => nx2[p] = nx[p]
      /\ nx2[o[n - 1]].to = r /\ nx2[o[n - 1]].flag = Plain
      /\ \A p \in 0 .. n : p # o[1] => pv2[p] = pv[p]
      /\ pv2[o[1]] = r
  <2>1. o[1] \in 0 .. n /\ o[n - 1] \in 0 .. n
    BY <1>2, <1>4
  <2>2. \A p \in 0 .. n : nx2[p] = IF p = o[n - 1] THEN Ptr(r, Plain) ELSE nx[p]
    BY <1>5 DEF Put
  <2>3. \A p \in 0 .. n : pv2[p] = IF p = o[1] THEN r ELSE pv[p]
    BY <1>5 DEF Put
  <2>4. Ptr(r, Plain).to = r /\ Ptr(r, Plain).flag = Plain
    BY DEF Ptr
  <2> QED BY <2>1, <2>2, <2>3, <2>4
<1> DEFINE w == [i \in 0 .. n - 1 |-> IF i = n - 1 THEN r ELSE o[i + 1]]
<1>7. w[n - 1] = r /\ \A i \in 0 .. n - 2 : w[i] = o[i + 1] /\ i + 1 \in 1 .. n - 1 /\ i \in 0 .. n - 1
  BY <1>2
<1>8. w \in [0 .. n - 1 -> 0 .. n]
  <2>1. \A i \in 0 .. n - 1 : i # n - 1 => o[i + 1] \in 0 .. n
    BY <1>4, Indices
  <2> QED BY <2>1
<1> HIDE DEF w
<1>9. \A i \in 0 .. n - 1 : i = n - 1 \/ i \in 0 .. n - 2
  OBVIOUS
<1>10. \A i, j \in 0 .. n - 1 : w[i] = w[j] => i = j
  <2> TAKE i, j \in 0 .. n - 1
  <2>1. CASE i = n - 1 /\ j \in 0 .. n - 2
    BY <2>1, <1>2, <1>4, <1>7
  <2>2. CASE j = n - 1 /\ i \in 0 .. n - 2
    BY <2>2, <1>2, <1>4, <1>7
  <2>3. CASE i \in 0 .. n - 2 /\ j \in 0 .. n - 2
    <3>1. w[i] = w[j] => i + 1 = j + 1
      BY <2>3, <1>2, <1>3, <1>7
    <3> QED BY <2>3, <3>1
  <2> QED BY <1>9, <2>1, <2>2, <2>3
<1>11. \A p \in 0 .. n : (p # h) <=> \E i \in 0 .. n - 1 : w[i] = p
  <2> TAKE p \in 0 .. n
  <2>1. ASSUME p # h PROVE \E i \in 0 .. n - 1 : w[i] = p
    <3>1. CASE p = r
      BY <3>1, <1>2, <1>7
    <3>2. CASE p # r
      <4>1. PICK i \in 0 .. n - 1 : o[i] = p
        BY <3>2, <1>3
      <4>2. i # 0
        BY <4>1, <2>1, <1>3
      <4>3. i - 1 \in 0 .. n - 2 /\ (i - 1) + 1 = i /\ i - 1 \in 0 .. n - 1
        <5>1. i \in 1 .. n - 1
          BY <4>2
        <5> QED BY <5>1, Indices
      <4>4. w[i - 1] = p
        BY <4>1, <4>3, <1>7
      <4> QED BY <4>3, <4>4
    <3> QED BY <3>1, <3>2
  <2>2. ASSUME NEW i \in 0 .. n - 1, w[i] = p PROVE p # h
    <3>1. CASE i = n - 1
      BY <3>1, <2>2, <1>5, <1>7
    <3>2. CASE i \in 0 .. n - 2
      <4>1. i + 1 \in 0 .. n - 1 /\ i + 1 # 0 /\ w[i] = o[i + 1]
        BY <3>2, <1>7, Indices
      <4> QED BY <4>1, <2>2, <1>2, <1>3
    <3> QED BY <1>9, <3>1, <3>2
  <2> QED BY <2>1, <2>2
<1>12. w[0] = o[1] /\ w[n - 1] = r
  <2>1. 0 \in 0 .. n - 2
    OBVIOUS
  <2> QED BY <2>1, <1>7
<1>13. nx2[r] = nx[r] /\ pv2[o[1]] = r
  BY <1>2, <1>4, <1>6
<1>14. ASSUME NEW i \in 1 .. n - 1
       PROVE  nx2[w[i - 1]].to = w[i] /\ pv2[w[i]] = w[i - 1] /\ nx2[w[i - 1]].flag = Plain
  <2>1. i - 1 \in 0 .. n - 2 /\ (i - 1) + 1 = i
    BY Indices
  <2>2. w[i - 1] = o[i]
    BY <2>1, <1>7
  <2>3. CASE i = n - 1
    <3>1. pv2[r] = o[n - 1]
      BY <1>2, <1>4, <1>5, <1>6 DEF Joins
    <3> QED BY <2>2, <2>3, <3>1, <1>6, <1>7
  <2>4. CASE i # n - 1
    <3>1. i \in 0 .. n - 2 /\ i + 1 \in 1 .. n - 1 /\ (i + 1) - 1 = i /\ i + 1 # 1 /\ i + 1 \in 0 .. n - 1 /\ i \in 0 .. n - 1
      BY <2>4
    <3>2. w[i] = o[i + 1]
      BY <3>1, <1>7
    <3>3. nx[o[i]].to = o[i + 1] /\ pv[o[i + 1]] = o[i] /\ nx[o[i]].flag = Plain
      <4>1. PICK k : k = i + 1
        OBVIOUS
      <4>2. k \in 1 .. n - 1 /\ k - 1 = i
        BY <3>1, <4>1
      <4>3. \A j \in 1 .. n - 1 : nx[o[j - 1]].to = o[j] /\ pv[o[j]] = o[j - 1] /\ nx[o[j - 1]].flag = Plain
        BY <1>3
      <4>4. nx[o[k - 1]].to = o[k] /\ pv[o[k]] = o[k - 1] /\ nx[o[k - 1]].flag = Plain
        BY <4>2, <4>3, Zenon
      <4> QED BY <4>1, <4>2, <4>4, Zenon
    <3>4. o[i] # o[n - 1] /\ o[i + 1] # o[1]
      BY <1>2, <1>3, <2>4, <3>1
    <3>5. o[i] \in 0 .. n /\ o[i + 1] \in 0 .. n
      BY <1>4, <3>1
    <3>6. nx2[o[i]] = nx[o[i]] /\ pv2[o[i + 1]] = pv[o[i + 1]]
      BY <1>6, <3>4, <3>5
    <3> QED BY <2>2, <3>2, <3>3, <3>6, Zenon
  <2> QED BY <2>3, <2>4
<1>15. Ordered(n, w, nx[h].to, h, nx2, pv2)
  BY <1>5, <1>8, <1>10, <1>11, <1>12, <1>13, <1>14 DEF Ordered, Joins
<1> QED BY <1>15 DEF Circle

-----------------------------------------------------------------------------
(* What a step does to its thread and to the others. *)

\* What the invariants look at in a call.
SameLocals(c, d) ==
  /\ c.head = d.head /\ c.next = d.next /\ c.tail = d.tail /\ c.did_update = d.did_update
  /\ c.value = d.value /\ c.was = d.was
Others(t) == \A u \in Threads : u # t => call[u].pc = call'[u].pc /\ SameLocals(call[u], call'[u])
Becomes(t, d) == call' = [call EXCEPT ![t] = d]

\* The call c with the place pc, and with v in the field f.
With(c, pc, f, v) == [c EXCEPT !.pc = pc, ![f] = v]
Gone(c, pc) == [c EXCEPT !.pc = pc]

LEMMA SetBecomes == ASSUME NEW t, NEW pc, NEW f, NEW v, Set(t, pc, f, v), call = [u \in Threads |-> call[u]] PROVE Becomes(t, With(call[t], pc, f, v))
<1>1. call' = [call EXCEPT ![t] = [@ EXCEPT !.pc = pc, ![f] = v]]
  BY DEF Set
<1> QED BY <1>1 DEF With, Becomes

LEMMA GoBecomes == ASSUME NEW t, NEW pc, Go(t, pc), call = [u \in Threads |-> call[u]] PROVE Becomes(t, Gone(call[t], pc))
<1>1. call' = [call EXCEPT ![t] = [@ EXCEPT !.pc = pc]]
  BY DEF Go
<1> QED BY <1>1 DEF Gone, Becomes

LEMMA BecomesTyped ==
  ASSUME NEW n, call \in [Threads -> Calls(n)], NEW t \in Threads, NEW d \in Calls(n), Becomes(t, d)
  PROVE  call' \in [Threads -> Calls(n)] /\ Others(t) /\ call'[t] = d
BY DEF Becomes, Others, SameLocals

LEMMA WithOther ==
  ASSUME NEW n \in Nat, NEW c \in Calls(n), NEW pc \in Places, NEW d,
         \/ \E v \in 0 .. n : d = With(c, pc, "temp", v)
         \/ \E v \in 0 .. n : d = With(c, pc, "commit", v)
         \/ \E v \in Int : d = With(c, pc, "writes", v)
         \/ \E v \in Int : d = With(c, pc, "retries", v)
         \/ \E v \in Links(n) : d = With(c, pc, "old", v)
         \/ d = Gone(c, pc)
  PROVE  d \in Calls(n) /\ d.pc = pc /\ SameLocals(c, d)
<1>1. ASSUME NEW v \in 0 .. n, d = With(c, pc, "temp", v) PROVE d \in Calls(n) /\ d.pc = pc /\ SameLocals(c, d)
  BY <1>1 DEF Calls, With, SameLocals
<1>2. ASSUME NEW v \in 0 .. n, d = With(c, pc, "commit", v) PROVE d \in Calls(n) /\ d.pc = pc /\ SameLocals(c, d)
  BY <1>2 DEF Calls, With, SameLocals
<1>3. ASSUME NEW v \in Int, d = With(c, pc, "writes", v) PROVE d \in Calls(n) /\ d.pc = pc /\ SameLocals(c, d)
  BY <1>3 DEF Calls, With, SameLocals
<1>4. ASSUME NEW v \in Int, d = With(c, pc, "retries", v) PROVE d \in Calls(n) /\ d.pc = pc /\ SameLocals(c, d)
  BY <1>4 DEF Calls, With, SameLocals
<1>5. ASSUME NEW v \in Links(n), d = With(c, pc, "old", v) PROVE d \in Calls(n) /\ d.pc = pc /\ SameLocals(c, d)
  BY <1>5 DEF Calls, With, SameLocals
<1>6. CASE d = Gone(c, pc)
  BY <1>6 DEF Calls, Gone, SameLocals
<1> QED BY <1>1, <1>2, <1>3, <1>4, <1>5, <1>6

LEMMA WithNext ==
  ASSUME NEW n \in Nat, NEW c \in Calls(n), NEW pc \in Places, NEW v \in Links(n), NEW d, d = With(c, pc, "next", v)
  PROVE  /\ d \in Calls(n) /\ d.pc = pc /\ d.next = v /\ d.head = c.head /\ d.tail = c.tail
         /\ d.did_update = c.did_update /\ d.value = c.value /\ d.was = c.was
BY DEF Calls, With
LEMMA WithHead ==
  ASSUME NEW n \in Nat, NEW c \in Calls(n), NEW pc \in Places, NEW v \in 0 .. n, NEW d, d = With(c, pc, "head", v)
  PROVE  /\ d \in Calls(n) /\ d.pc = pc /\ d.head = v /\ d.next = c.next /\ d.tail = c.tail
         /\ d.did_update = c.did_update /\ d.value = c.value /\ d.was = c.was
BY DEF Calls, With
LEMMA WithTail ==
  ASSUME NEW n \in Nat, NEW c \in Calls(n), NEW pc \in Places, NEW v \in 0 .. n, NEW d, d = With(c, pc, "tail", v)
  PROVE  /\ d \in Calls(n) /\ d.pc = pc /\ d.tail = v /\ d.next = c.next /\ d.head = c.head
         /\ d.did_update = c.did_update /\ d.value = c.value /\ d.was = c.was
BY DEF Calls, With
LEMMA WithWas ==
  ASSUME NEW n \in Nat, NEW c \in Calls(n), NEW pc \in Places, NEW v \in Nat, NEW d, d = With(c, pc, "was", v)
  PROVE  /\ d \in Calls(n) /\ d.pc = pc /\ d.was = v /\ d.next = c.next /\ d.head = c.head
         /\ d.did_update = c.did_update /\ d.value = c.value /\ d.tail = c.tail
BY DEF Calls, With

LEMMA LocalTyped == ASSUME NEW n \in Nat PROVE Local \in Calls(n) /\ Local.pc = "idle"
<1>1. Ptr(0, Plain) \in Links(n)
  BY DEF Ptr, Links
<1>0. "idle" \in Places
  BY DEF Places
<1>2. PICK l, b : l = Ptr(0, Plain) /\ b = FALSE
  OBVIOUS
<1>3. l \in Links(n) /\ b \in BOOLEAN
  BY <1>1, <1>2
<1>4. Local = [pc |-> "idle", value |-> 0, was |-> 0, temp |-> 0, commit |-> 0, next |-> l, head |-> 0,
               writes |-> 0, tail |-> 0, retries |-> 0, did_update |-> b, old |-> l, lag |-> 0]
  BY <1>2 DEF Local, None
<1>5. PICK k : k = Local
  OBVIOUS
<1>6. k = [pc |-> "idle", value |-> 0, was |-> 0, temp |-> 0, commit |-> 0, next |-> l, head |-> 0,
           writes |-> 0, tail |-> 0, retries |-> 0, did_update |-> b, old |-> l, lag |-> 0]
  BY <1>4, <1>5
<1>7. k \in Calls(n) /\ k.pc = "idle"
  BY ONLY n \in Nat, <1>0, <1>3, <1>6 DEF Calls
<1> QED BY <1>5, <1>7

-----------------------------------------------------------------------------
(* Values. *)

\* A value that is still to be written is nowhere; a page and the result of a read have a
\* value in common only while the read is about to clear the page.
Unwritten == Placing \cup {"flag", "old", "value"}
FreshInv ==
  \A t \in Threads : call[t].pc \in Unwritten =>
    /\ call[t].value \in 1 .. started
    /\ \A i \in 1 .. Len(got) : got[i] # call[t].value
    /\ \A p \in Pages : rb.value[p] # call[t].value
    /\ \A u \in Threads : call[u].pc \in Unwritten /\ call[u].value = call[t].value => u = t
TakenInv ==
  \A p \in Pages, i \in 1 .. Len(got) :
    rb.value[p] = got[i] =>
      p = rb.reader /\ \E t \in Threads : call[t].pc = "clear" /\ call[t].was = rb.value[p]
ValueInv ==
  /\ \A p, q \in Pages : rb.value[p] = rb.value[q] /\ rb.value[p] # None => p = q
  /\ \A p \in Pages : rb.value[p] <= started
  /\ \A i \in 1 .. Len(got) : got[i] \in 1 .. started
OnceInv == FreshInv /\ TakenInv /\ ValueInv /\ ReadOnce

-----------------------------------------------------------------------------
(* Steps that leave the links and the values alone. *)

LinksSame == rb'.head = rb.head /\ rb'.reader = rb.reader /\ rb'.next = rb.next /\ rb'.prev = rb.prev
ValuesSame == rb'.value = rb.value /\ got' = got /\ started' = started

\* A step outside the lock of rqueue_read.
WritesOn(t) ==
  /\ PagesInv' /\ use' = use /\ LinksSame /\ ValuesSame /\ rb'.read_sync = rb.read_sync /\ Others(t)
  /\ call[t].pc \notin Reading /\ call'[t].pc \notin Reading
  /\ \A p, q : Updating(call[t], p, q) => Updating(call'[t], p, q)
  /\ call'[t].pc \in Unwritten => call[t].pc \in Unwritten /\ call'[t].value = call[t].value

\* A step of a read within it.
ReadsOn(t) ==
  /\ PagesInv' /\ use' = use /\ LinksSame /\ ValuesSame /\ rb'.read_sync = rb.read_sync /\ Others(t)
  /\ call[t].pc \in Reading /\ call'[t].pc \in Reading
  /\ "move" \notin {call[t].pc, call'[t].pc} /\ "clear" \notin {call[t].pc, call'[t].pc}
  /\ Before(call'[t], rb.head, rb.reader, rb.next, rb.prev)

\* Others stay what they are.
LEMMA OthersSame ==
  ASSUME NEW t \in Threads, Others(t), NEW u \in Threads, u # t
  PROVE  /\ call'[u].pc = call[u].pc /\ call'[u].value = call[u].value /\ call'[u].was = call[u].was
         /\ call'[u].next = call[u].next /\ call'[u].head = call[u].head
         /\ \A p, q : Updating(call'[u], p, q) <=> Updating(call[u], p, q)
         /\ \A h, r, nx, pv : Before(call'[u], h, r, nx, pv) <=> Before(call[u], h, r, nx, pv)
BY DEF Others, SameLocals, Updating, Before

LEMMA FlagKept ==
  ASSUME FlagInv, PagesInv, NEW t \in Threads, Others(t), use' = use, rb'.next = rb.next,
         \A p, q : Updating(call[t], p, q) => Updating(call'[t], p, q)
  PROVE  FlagInv'
<1>1. Pages' = Pages
  BY DEF Pages
<1> SUFFICES ASSUME NEW p \in Pages, rb.next[p].flag = UPDATE
             PROVE  \E u \in Threads : Updating(call'[u], p, rb.next[p].to)
  BY <1>1 DEF FlagInv, UPDATE
<1>2. PICK u \in Threads : Updating(call[u], p, rb.next[p].to)
  BY DEF FlagInv
<1> QED BY <1>2, OthersSame

LEMMA LockKept ==
  ASSUME LockInv, NEW t \in Threads, Others(t), rb'.read_sync = rb.read_sync,
         call'[t].pc \in Reading => call[t].pc \in Reading
  PROVE  LockInv'
<1>1. \A u \in Threads : call'[u].pc \in Reading => call[u].pc \in Reading
  BY OthersSame
<1> QED BY <1>1 DEF LockInv, Reading

LEMMA CircleKept ==
  ASSUME CircleInv, NEW t \in Threads, Others(t), use' = use, LinksSame, ~Moving(t), ~Moving(t)'
  PROVE  CircleInv'
<1>1. \A u \in Threads : Moving(u)' <=> Moving(u)
  BY OthersSame DEF Moving
<1>2. \A u \in Threads : Moving(u) => call'[u].next = call[u].next
  BY OthersSame
<1>3. CASE \A u \in Threads : ~Moving(u)
  <2>1. Circle(use.size, rb.head, rb.reader, rb.next, rb.prev)
    BY <1>3 DEF CircleInv
  <2> QED BY <1>1, <1>3, <2>1 DEF CircleInv, LinksSame
<1>4. CASE \E u \in Threads : Moving(u)
  <2>1. ASSUME NEW u \in Threads, Moving(u)
        PROVE  Circle(use'.size, call'[u].next.to, rb'.head, rb'.next, [rb'.prev EXCEPT ![call'[u].next.to] = rb'.reader])
    BY <2>1, <1>2 DEF CircleInv, LinksSame
  <2> QED BY <1>1, <1>4, <2>1 DEF CircleInv
<1> QED BY <1>3, <1>4

LEMMA ReadKept ==
  ASSUME ReadInv, NEW t \in Threads, Others(t), LinksSame,
         Before(call'[t], rb.head, rb.reader, rb.next, rb.prev)
  PROVE  ReadInv'
<1> SUFFICES ASSUME NEW u \in Threads PROVE Before(call'[u], rb.head, rb.reader, rb.next, rb.prev)
  BY DEF ReadInv, LinksSame
<1> QED BY OthersSame DEF ReadInv

LEMMA OnceKept ==
  ASSUME OnceInv, NEW t \in Threads, Others(t), use' = use, ValuesSame, rb'.reader = rb.reader,
         call[t].pc # "clear", call'[t].pc \in Unwritten => call[t].pc \in Unwritten /\ call'[t].value = call[t].value
  PROVE  OnceInv'
<1>0. Pages' = Pages /\ rb'.value = rb.value /\ got' = got /\ started' = started
  BY DEF Pages, ValuesSame
<1>1. \A u \in Threads : call'[u].pc \in Unwritten => call[u].pc \in Unwritten /\ call'[u].value = call[u].value
  BY OthersSame
<1>2. \A u \in Threads : call[u].pc = "clear" => call'[u].pc = "clear" /\ call'[u].was = call[u].was
  BY OthersSame
<1>3. FreshInv'
  <2> SUFFICES ASSUME NEW u \in Threads, call'[u].pc \in Unwritten
               PROVE  /\ call'[u].value \in 1 .. started
                      /\ \A i \in 1 .. Len(got) : got[i] # call'[u].value
                      /\ \A p \in Pages : rb.value[p] # call'[u].value
                      /\ \A v \in Threads : call'[v].pc \in Unwritten /\ call'[v].value = call'[u].value => v = u
    BY <1>0 DEF FreshInv, Unwritten, Placing
  <2> QED BY <1>1 DEF OnceInv, FreshInv
<1>4. TakenInv'
  <2> SUFFICES ASSUME NEW p \in Pages, NEW i \in 1 .. Len(got), rb.value[p] = got[i]
               PROVE  p = rb.reader /\ \E u \in Threads : call'[u].pc = "clear" /\ call'[u].was = rb.value[p]
    BY <1>0 DEF TakenInv
  <2> QED BY <1>2 DEF OnceInv, TakenInv
<1>5. ValueInv' /\ ReadOnce'
  BY <1>0 DEF OnceInv, ValueInv, ReadOnce, None
<1> QED BY <1>3, <1>4, <1>5 DEF OnceInv

LEMMA WriteKeeps ==
  ASSUME RingInv, OnceInv, NEW t \in Threads, WritesOn(t)
  PROVE  RingInv' /\ OnceInv'
<1>1. call[t].pc \notin Reading /\ call'[t].pc \notin Reading /\ Others(t) /\ use' = use /\ LinksSame /\ ValuesSame /\ PagesInv'
  BY DEF WritesOn
<1>2. ~Moving(t) /\ ~Moving(t)' /\ call[t].pc # "clear" /\ Before(call'[t], rb.head, rb.reader, rb.next, rb.prev)
  BY <1>1 DEF Moving, Reading, Before
<1>3. FlagInv' /\ LockInv' /\ CircleInv' /\ ReadInv'
  BY <1>1, <1>2, FlagKept, LockKept, CircleKept, ReadKept DEF RingInv, WritesOn, LinksSame
<1>4. OnceInv'
  BY <1>1, <1>2, OnceKept DEF WritesOn, LinksSame
<1> QED BY <1>1, <1>3, <1>4 DEF RingInv

LEMMA ReadKeeps ==
  ASSUME RingInv, OnceInv, NEW t \in Threads, ReadsOn(t)
  PROVE  RingInv' /\ OnceInv'
<1>1. call[t].pc \in Reading /\ call'[t].pc \in Reading /\ Others(t) /\ use' = use /\ LinksSame /\ ValuesSame /\ PagesInv'
  BY DEF ReadsOn
<1>2. ~Moving(t) /\ ~Moving(t)' /\ call[t].pc # "clear" /\ Before(call'[t], rb.head, rb.reader, rb.next, rb.prev)
  BY DEF Moving, ReadsOn
<1>3. \A p, q : ~Updating(call[t], p, q)
  BY <1>1 DEF Updating, Reading
<1>4. call'[t].pc \notin Unwritten
  BY <1>1 DEF Unwritten, Placing, Reading
<1>5. FlagInv' /\ LockInv' /\ CircleInv' /\ ReadInv'
  BY <1>1, <1>2, <1>3, FlagKept, LockKept, CircleKept, ReadKept DEF RingInv, ReadsOn, LinksSame
<1>6. OnceInv'
  BY <1>1, <1>2, <1>4, OnceKept DEF LinksSame
<1> QED BY <1>1, <1>5, <1>6 DEF RingInv

-----------------------------------------------------------------------------
(* The steps of rqueue_write that do so. *)

LEMMA Typed ==
  ASSUME PagesInv
  PROVE  /\ use.size \in Nat /\ use.size >= 3 /\ Pages = 0 .. use.size
         /\ call \in [Threads -> Calls(use.size)] /\ call = [u \in Threads |-> call[u]]
         /\ rb \in Buffers(use.size)
         /\ rb.head \in Pages /\ rb.tail \in Pages /\ rb.commit \in Pages /\ rb.reader \in Pages
         /\ rb.next \in [Pages -> Links(use.size)] /\ rb.prev \in [Pages -> Pages] /\ rb.value \in [Pages -> Nat]
         /\ rb.writes \in Int /\ rb.writes + 1 \in Int /\ rb.reads + 1 \in Int /\ rb.read_sync \in BOOLEAN
         /\ rb.num_writers + 1 \in Int /\ rb.num_writers - 1 \in Int
<1>1. use.size \in Nat /\ use.size >= 3 /\ Pages = 0 .. use.size
  BY Sizes DEF PagesInv
<1>2. call \in [Threads -> Calls(use.size)] /\ rb \in Buffers(use.size)
  BY DEF PagesInv
<1>3. call = [u \in Threads |-> call[u]]
  BY <1>2
<1>4. rb.writes \in Int /\ rb.reads \in Int /\ rb.num_writers \in Int
  BY <1>2 DEF Buffers
<1>5. \A i \in Int : i + 1 \in Int /\ i - 1 \in Int
  OBVIOUS
<1>6. rb.writes + 1 \in Int /\ rb.reads + 1 \in Int /\ rb.num_writers + 1 \in Int /\ rb.num_writers - 1 \in Int
  BY <1>4, <1>5
<1> QED BY <1>1, <1>2, <1>3, <1>4, <1>6 DEF Buffers

LEMMA CallTyped ==
  ASSUME PagesInv, NEW t \in Threads
  PROVE  /\ call[t] \in Calls(use.size) /\ call[t].temp \in Pages /\ call[t].tail \in Pages /\ call[t].head \in Pages
         /\ call[t].next \in Links(use.size) /\ call[t].next.to \in Pages /\ call[t].commit \in Pages
         /\ call[t].value \in Nat /\ call[t].was \in Nat /\ call[t].retries + 1 \in Int
         /\ call[t].pc \in Places /\ call[t].did_update \in BOOLEAN
<1>1. Pages = 0 .. use.size /\ call[t] \in Calls(use.size)
  BY Typed
<1>2. call[t].retries \in Int
  BY <1>1 DEF Calls
<1>3. \A i \in Int : i + 1 \in Int
  OBVIOUS
<1>4. call[t].retries + 1 \in Int
  BY <1>2, <1>3
<1> QED BY <1>1, <1>4 DEF Calls, Links

LEMMA Aside ==
  ASSUME PagesInv, NEW t \in Threads, NEW d \in Calls(use.size), Becomes(t, d),
         UNCHANGED <<use, started, got>>, rb' \in Buffers(use.size), LinksSame,
         rb'.value = rb.value, rb'.read_sync = rb.read_sync, call[t].pc \notin Reading, d.pc \notin Reading,
         \A p, q : Updating(call[t], p, q) => Updating(d, p, q),
         d.pc \in Unwritten => call[t].pc \in Unwritten /\ d.value = call[t].value
  PROVE  WritesOn(t)
<1>1. call' \in [Threads -> Calls(use.size)] /\ Others(t) /\ call'[t] = d
  BY BecomesTyped DEF PagesInv
<1>2. PagesInv'
  BY <1>1 DEF PagesInv, Buffers, Calls, Links, Places, HEAD, UPDATE, Plain
<1> QED BY <1>1, <1>2 DEF WritesOn, ValuesSame

\* The writer gets no page yet, or is done with it.
LEMMA AsidePlainly ==
  ASSUME PagesInv, NEW t \in Threads, NEW d \in Calls(use.size), Becomes(t, d), NEW pc, pc = d.pc,
         UNCHANGED <<use, started, got>>, rb' \in Buffers(use.size), LinksSame,
         rb'.value = rb.value, rb'.read_sync = rb.read_sync,
         call[t].pc \notin Reading, call[t].pc \notin {"old", "value", "unflag"}, pc \notin Reading,
         pc \in Unwritten => call[t].pc \in Unwritten /\ d.value = call[t].value
  PROVE  WritesOn(t)
<1>1. \A p, q : ~Updating(call[t], p, q)
  BY DEF Updating
<1> QED BY <1>1, Aside

LEMMA WriteLooks ==
  ASSUME PagesInv, NEW t \in Threads,
         WriteTail(t) \/ WriteCommit(t) \/ WriteNext(t) \/ WriteHead(t) \/ WriteWrites(t) \/ WriteFull(t)
  PROVE  WritesOn(t)
<1>0. /\ call[t] \in Calls(use.size) /\ use.size \in Nat /\ call = [u \in Threads |-> call[u]]
      /\ rb.tail \in 0 .. use.size /\ rb.commit \in 0 .. use.size /\ rb.head \in 0 .. use.size /\ rb.writes \in Int
  BY Typed, CallTyped
<1>1. /\ UNCHANGED <<use, started, got>> /\ rb' \in Buffers(use.size) /\ LinksSame
      /\ rb'.value = rb.value /\ rb'.read_sync = rb.read_sync
  BY Typed DEF WriteTail, WriteCommit, WriteNext, WriteHead, WriteWrites, WriteFull, History, LinksSame
<1>2. call[t].pc \in Unwritten /\ call[t].pc \notin Reading /\ call[t].pc \notin {"old", "value", "unflag"}
  BY DEF WriteTail, WriteCommit, WriteNext, WriteHead, WriteWrites, WriteFull, At, Unwritten, Placing, Reading
<1>3. ASSUME NEW pc \in {"commit", "next", "head", "claim", "full?", "alone?", "reads", "refused"}, NEW d,
             Becomes(t, d), d \in Calls(use.size), d.pc = pc, d.value = call[t].value
      PROVE  WritesOn(t)
  <2>1. pc \notin Reading
    BY DEF Reading
  <2> QED BY <1>1, <1>2, <1>3, <2>1, AsidePlainly
<1>4. ASSUME NEW pc \in {"commit", "next", "head", "claim", "full?", "alone?", "reads", "refused"}, NEW d,
             Becomes(t, d), d \in Calls(use.size) /\ d.pc = pc /\ SameLocals(call[t], d)
      PROVE  WritesOn(t)
  BY <1>3, <1>4 DEF SameLocals
<1>5. \A pc \in {"commit", "next", "head", "claim", "full?", "alone?", "reads", "refused"} : pc \in Places
  BY DEF Places
<1>6. CASE WriteTail(t)
  <2> DEFINE d == With(call[t], "commit", "temp", rb.tail)
  <2>1. Becomes(t, d)
    BY <1>0, <1>6, SetBecomes DEF WriteTail
  <2>2. d \in Calls(use.size) /\ d.pc = "commit" /\ SameLocals(call[t], d)
    BY <1>0, <1>5, WithOther
  <2> QED BY <1>4, <2>1, <2>2
<1>7. CASE WriteCommit(t)
  <2> DEFINE d == With(call[t], "next", "commit", rb.commit)
  <2>1. Becomes(t, d)
    BY <1>0, <1>7, SetBecomes DEF WriteCommit
  <2>2. d \in Calls(use.size) /\ d.pc = "next" /\ SameLocals(call[t], d)
    BY <1>0, <1>5, WithOther
  <2> QED BY <1>4, <2>1, <2>2
<1>8. CASE WriteNext(t)
  <2> DEFINE l == Ptr(rb.next[call[t].temp].to, Plain)
             d == With(call[t], "head", "next", l)
  <2>1. Becomes(t, d)
    BY <1>0, <1>8, SetBecomes DEF WriteNext
  <2>2. rb.next[call[t].temp] \in Links(use.size)
    BY Typed, CallTyped
  <2>3. l \in Links(use.size)
    BY <2>2 DEF Links, Ptr
  <2> HIDE DEF l
  <2>4. d \in Calls(use.size) /\ d.pc = "head" /\ d.value = call[t].value
    BY <1>0, <1>5, <2>3, WithNext
  <2> QED BY <1>3, <2>1, <2>4
<1>9. CASE WriteHead(t)
  <2>1. PICK pc \in {"claim", "full?", "alone?"} : Set(t, pc, "head", rb.head)
    BY <1>9 DEF WriteHead
  <2> DEFINE d == With(call[t], pc, "head", rb.head)
  <2>2. Becomes(t, d)
    BY <1>0, <2>1, SetBecomes
  <2>3. d \in Calls(use.size) /\ d.pc = pc /\ d.value = call[t].value
    <3>1. pc \in Places
      BY <1>5
    <3> HIDE DEF d
    <3>2. d = With(call[t], pc, "head", rb.head)
      BY DEF d
    <3> QED BY <1>0, <3>1, <3>2, WithHead
  <2> QED BY <1>3, <2>2, <2>3
<1>10. CASE WriteWrites(t)
  <2> DEFINE d == With(call[t], "reads", "writes", rb.writes)
  <2>1. Becomes(t, d)
    BY <1>0, <1>10, SetBecomes DEF WriteWrites
  <2>2. d \in Calls(use.size) /\ d.pc = "reads" /\ SameLocals(call[t], d)
    BY <1>0, <1>5, WithOther
  <2> QED BY <1>4, <2>1, <2>2
<1>11. CASE WriteFull(t)
  <2>1. PICK pc \in {"refused", "claim"} : Go(t, pc)
    BY <1>11 DEF WriteFull
  <2> DEFINE d == Gone(call[t], pc)
  <2>2. Becomes(t, d)
    BY <1>0, <2>1, GoBecomes
  <2>3. d \in Calls(use.size) /\ d.pc = pc /\ SameLocals(call[t], d)
    BY <1>0, <1>5, WithOther
  <2> QED BY <1>4, <2>2, <2>3
<1> QED BY <1>6, <1>7, <1>8, <1>9, <1>10, <1>11

LEMMA WriteFindsPage ==
  ASSUME PagesInv, NEW t \in Threads, WriteAlone(t) \/ WriteClaim(t) \/ WriteLost(t)
  PROVE  WritesOn(t)
<1>0. /\ call[t] \in Calls(use.size) /\ use.size \in Nat /\ call = [u \in Threads |-> call[u]]
      /\ rb.tail \in 0 .. use.size /\ call[t].temp \in 0 .. use.size /\ call[t].next.to \in 0 .. use.size
      /\ call[t].retries + 1 \in Int
  BY Typed, CallTyped
<1>1. \/ rb' = rb
      \/ rb' = [rb EXCEPT !.tail = call[t].next.to]
  BY DEF WriteAlone, WriteClaim, WriteLost
<1>2. rb' \in Buffers(use.size) /\ LinksSame /\ rb'.value = rb.value /\ rb'.read_sync = rb.read_sync
  BY <1>0, <1>1, Typed DEF LinksSame, Buffers
<1>3. UNCHANGED <<use, started, got>>
  BY DEF WriteAlone, WriteClaim, WriteLost
<1>4. call[t].pc \in Unwritten /\ call[t].pc \notin Reading /\ call[t].pc \notin {"old", "value", "unflag"}
  BY DEF WriteAlone, WriteClaim, WriteLost, At, Unwritten, Placing, Reading
<1>5. ASSUME NEW pc \in {"flag", "refused", "lost", "tail"}, NEW d,
             Becomes(t, d), d \in Calls(use.size), d.pc = pc, d.value = call[t].value
      PROVE  WritesOn(t)
  <2>1. pc \notin Reading
    BY DEF Reading
  <2> QED BY <1>2, <1>3, <1>4, <1>5, <2>1, AsidePlainly
<1>6. \/ \E v \in 0 .. use.size, pc \in {"flag", "lost"} : Set(t, pc, "tail", v)
      \/ \E pc \in {"flag", "refused"} : Go(t, pc)
      \/ Set(t, "tail", "retries", call[t].retries + 1)
  BY <1>0 DEF WriteAlone, WriteClaim, WriteLost
<1>7. \A pc \in {"flag", "refused", "lost", "tail"} : pc \in Places
  BY DEF Places
<1>8. ASSUME NEW v \in 0 .. use.size, NEW pc \in {"flag", "lost"}, Set(t, pc, "tail", v) PROVE WritesOn(t)
  <2>1. PICK d : d = With(call[t], pc, "tail", v)
    OBVIOUS
  <2>2. Becomes(t, d)
    BY <1>0, <1>8, <2>1, SetBecomes
  <2>3. d \in Calls(use.size) /\ d.pc = pc /\ d.value = call[t].value
    <3>1. pc \in Places
      BY <1>7
    <3> QED BY <1>0, <2>1, <3>1, WithTail
  <2> QED BY <1>5, <2>2, <2>3
<1>9. ASSUME NEW pc \in {"flag", "refused"}, Go(t, pc) PROVE WritesOn(t)
  <2>1. PICK d : d = Gone(call[t], pc)
    OBVIOUS
  <2>2. Becomes(t, d)
    BY <1>0, <1>9, <2>1, GoBecomes
  <2>3. d \in Calls(use.size) /\ d.pc = pc /\ SameLocals(call[t], d)
    <3>1. pc \in Places
      BY <1>7
    <3> QED BY <1>0, <2>1, <3>1, WithOther
  <2> QED BY <1>5, <2>2, <2>3 DEF SameLocals
<1>10. ASSUME Set(t, "tail", "retries", call[t].retries + 1) PROVE WritesOn(t)
  <2>1. PICK d : d = With(call[t], "tail", "retries", call[t].retries + 1)
    OBVIOUS
  <2>2. Becomes(t, d)
    BY <1>0, <1>10, <2>1, SetBecomes
  <2>3. d \in Calls(use.size) /\ d.pc = "tail" /\ SameLocals(call[t], d)
    BY <1>0, <1>7, <2>1, WithOther
  <2> QED BY <1>5, <2>2, <2>3 DEF SameLocals
<1> QED BY <1>6, <1>8, <1>9, <1>10

LEMMA WriteReadsOld == ASSUME PagesInv, NEW t \in Threads, WriteOld(t) PROVE WritesOn(t)
<1>0. /\ call[t] \in Calls(use.size) /\ use.size \in Nat /\ call = [u \in Threads |-> call[u]]
      /\ rb.value[call[t].tail] \in Nat /\ rb \in Buffers(use.size)
  BY Typed, CallTyped
<1>1. rb' = rb /\ UNCHANGED <<use, started, got>> /\ call[t].pc = "old"
  BY DEF WriteOld, History, At
<1>2. PICK d : d = With(call[t], "value", "was", rb.value[call[t].tail])
  OBVIOUS
<1>3. Becomes(t, d)
  BY <1>0, <1>2, SetBecomes DEF WriteOld
<1>4. "value" \in Places /\ "value" \notin Reading /\ "old" \notin Reading /\ "old" \in Unwritten
  BY DEF Places, Reading, Unwritten
<1>5. /\ d \in Calls(use.size) /\ d.pc = "value" /\ d.next = call[t].next /\ d.value = call[t].value
      /\ d.tail = call[t].tail /\ d.did_update = call[t].did_update
  BY <1>0, <1>2, <1>4, WithWas
<1>6. \A p, q : Updating(call[t], p, q) => Updating(d, p, q)
  BY <1>5 DEF Updating
<1>7. LinksSame /\ rb' \in Buffers(use.size) /\ rb'.value = rb.value /\ rb'.read_sync = rb.read_sync
  BY <1>0, <1>1 DEF LinksSame
<1> QED BY <1>1, <1>3, <1>4, <1>5, <1>6, <1>7, Aside

LEMMA WriteEnds ==
  ASSUME PagesInv, NEW t \in Threads,
         \/ WriteCount(t) \/ WriteLast(t) \/ WriteRefused(t) \/ WriteRefusedTail(t) \/ WritePublish(t)
         \/ WriteReturn(t)
  PROVE  WritesOn(t)
<1>0. /\ call[t] \in Calls(use.size) /\ use.size \in Nat /\ call = [u \in Threads |-> call[u]]
      /\ rb.tail \in 0 .. use.size /\ call[t].tail \in 0 .. use.size
      /\ rb.writes + 1 \in Int /\ rb.num_writers - 1 \in Int
  BY Typed, CallTyped
<1>1. \/ rb' = rb
      \/ rb' = [rb EXCEPT !.writes = rb.writes + 1]
      \/ rb' = [rb EXCEPT !.commit = call[t].tail]
      \/ rb' = [rb EXCEPT !.num_writers = rb.num_writers - 1]
  BY DEF WriteCount, WriteLast, WriteRefused, WriteRefusedTail, WritePublish, WriteReturn
<1>2. rb' \in Buffers(use.size) /\ LinksSame /\ rb'.value = rb.value /\ rb'.read_sync = rb.read_sync
  BY <1>0, <1>1, Typed DEF LinksSame, Buffers
<1>3. UNCHANGED <<use, started, got>>
  BY DEF WriteCount, WriteLast, WriteRefused, WriteRefusedTail, WritePublish, WriteReturn, History
<1>4. call[t].pc \notin Reading /\ call[t].pc \notin {"old", "value", "unflag"}
  BY DEF WriteCount, WriteLast, WriteRefused, WriteRefusedTail, WritePublish, WriteReturn, At, Reading
<1>5. ASSUME NEW pc \in {"last?", "publish", "leave", "rbtail", "idle"}, NEW d,
             Becomes(t, d), d \in Calls(use.size), d.pc = pc
      PROVE  WritesOn(t)
  <2>1. pc \notin Reading /\ pc \notin Unwritten
    BY DEF Reading, Unwritten, Placing
  <2> QED BY <1>2, <1>3, <1>4, <1>5, <2>1, AsidePlainly
<1>6. \/ \E pc \in {"last?", "publish", "leave", "rbtail"} : Go(t, pc)
      \/ Set(t, "publish", "tail", rb.tail)
      \/ Becomes(t, Local)
  BY DEF WriteCount, WriteLast, WriteRefused, WriteRefusedTail, WritePublish, WriteReturn, Becomes
<1>7. \A pc \in {"last?", "publish", "leave", "rbtail", "idle"} : pc \in Places
  BY DEF Places
<1>8. ASSUME NEW pc \in {"last?", "publish", "leave", "rbtail"}, Go(t, pc) PROVE WritesOn(t)
  <2>1. PICK d : d = Gone(call[t], pc)
    OBVIOUS
  <2>2. Becomes(t, d)
    BY <1>0, <1>8, <2>1, GoBecomes
  <2>3. d \in Calls(use.size) /\ d.pc = pc
    <3>1. pc \in Places
      BY <1>7
    <3> QED BY <1>0, <2>1, <3>1, WithOther
  <2> QED BY <1>5, <2>2, <2>3
<1>9. ASSUME Set(t, "publish", "tail", rb.tail) PROVE WritesOn(t)
  <2>1. PICK d : d = With(call[t], "publish", "tail", rb.tail)
    OBVIOUS
  <2>2. Becomes(t, d)
    BY <1>0, <1>9, <2>1, SetBecomes
  <2>3. d \in Calls(use.size) /\ d.pc = "publish"
    <3>1. "publish" \in Places /\ call[t] \in Calls(use.size) /\ use.size \in Nat /\ rb.tail \in 0 .. use.size
      BY <1>0, <1>7
    <3> QED BY <3>1, <2>1, WithTail
  <2> QED BY <1>5, <2>2, <2>3
<1>10. ASSUME Becomes(t, Local) PROVE WritesOn(t)
  BY <1>0, <1>5, <1>10, LocalTyped
<1> QED BY <1>6, <1>8, <1>9, <1>10

LEMMA ReadBegins ==
  ASSUME PagesInv, NEW t \in Threads, Read(t) \/ (ReadLock(t) /\ rb.read_sync)
  PROVE  WritesOn(t)
<1>0. call[t] \in Calls(use.size) /\ use.size \in Nat /\ call = [u \in Threads |-> call[u]] /\ rb \in Buffers(use.size)
  BY Typed, CallTyped
<1>1. rb' = rb /\ UNCHANGED <<use, started, got>> /\ call[t].pc \in {"idle", "lock"}
  BY DEF Read, ReadLock, History, At
<1>2. rb' \in Buffers(use.size) /\ LinksSame /\ rb'.value = rb.value /\ rb'.read_sync = rb.read_sync
  BY <1>0, <1>1 DEF LinksSame
<1>3. call[t].pc \notin Reading /\ call[t].pc \notin {"old", "value", "unflag"}
  BY <1>1 DEF Reading
<1>4. Becomes(t, Local) \/ Becomes(t, Gone(Local, "lock"))
  BY DEF Read, ReadLock, Becomes, Gone
<1>5. Local \in Calls(use.size) /\ Local.pc = "idle"
  BY <1>0, LocalTyped
<1>6. "lock" \in Places /\ {"idle", "lock"} \cap Reading = {} /\ {"idle", "lock"} \cap Unwritten = {}
  BY DEF Places, Reading, Unwritten, Placing
<1>7. Gone(Local, "lock") \in Calls(use.size) /\ Gone(Local, "lock").pc = "lock"
  BY <1>0, <1>5, <1>6, WithOther
<1> QED BY <1>1, <1>2, <1>3, <1>4, <1>5, <1>6, <1>7, AsidePlainly

-----------------------------------------------------------------------------
(* The steps of rqueue_read that leave links and values alone. *)

LEMMA Within ==
  ASSUME PagesInv, NEW t \in Threads, NEW d \in Calls(use.size), Becomes(t, d), NEW pc, pc = d.pc,
         UNCHANGED <<use, started, got>>, rb' \in Buffers(use.size), LinksSame,
         rb'.value = rb.value, rb'.read_sync = rb.read_sync, call[t].pc \in Reading, pc \in Reading,
         "move" \notin {call[t].pc, pc}, "clear" \notin {call[t].pc, pc},
         Before(d, rb.head, rb.reader, rb.next, rb.prev)
  PROVE  ReadsOn(t)
<1>1. call' \in [Threads -> Calls(use.size)] /\ Others(t) /\ call'[t] = d
  BY BecomesTyped DEF PagesInv
<1>2. PagesInv'
  BY <1>1 DEF PagesInv, Buffers, Calls, Links, Places, HEAD, UPDATE, Plain
<1> QED BY <1>1, <1>2 DEF ReadsOn, ValuesSame

LEMMA ReadLooks ==
  ASSUME RingInv, NEW t \in Threads, ReadCommit(t) \/ ReadTail(t) \/ ReadNext(t) \/ ReadOld(t)
  PROVE  ReadsOn(t)
<1>0. /\ call[t] \in Calls(use.size) /\ use.size \in Nat /\ call = [u \in Threads |-> call[u]]
      /\ rb.tail \in 0 .. use.size /\ rb.commit \in 0 .. use.size /\ call[t].head \in 0 .. use.size
      /\ rb.reader \in 0 .. use.size /\ rb \in Buffers(use.size)
  BY Typed, CallTyped DEF RingInv
<1>1. rb' = rb /\ UNCHANGED <<use, started, got>> /\ call[t].pc \in {"rcommit", "rtail", "rnext", "rold"}
  BY DEF ReadCommit, ReadTail, ReadNext, ReadOld, History, At
<1>2. rb' \in Buffers(use.size) /\ LinksSame /\ rb'.value = rb.value /\ rb'.read_sync = rb.read_sync
  BY <1>0, <1>1 DEF LinksSame
<1>3. /\ call[t].head = rb.head
      /\ call[t].pc = "rold" => call[t].next.to = rb.next[rb.head].to
  BY <1>1 DEF RingInv, ReadInv, Before
<1>4. ASSUME NEW pc \in {"rtail", "rnext", "rold", "empty?"}, NEW d, Becomes(t, d), d \in Calls(use.size), d.pc = pc,
             d.head = call[t].head, pc \in {"rold", "empty?"} => d.next.to = rb.next[rb.head].to
      PROVE  ReadsOn(t)
  <2>1. pc \in Reading /\ call[t].pc \in Reading
    BY <1>1 DEF Reading
  <2>2. Before(d, rb.head, rb.reader, rb.next, rb.prev)
    BY <1>3, <1>4 DEF Before
  <2>3. "move" \notin {call[t].pc, pc} /\ "clear" \notin {call[t].pc, pc} /\ PagesInv
    BY <1>1 DEF RingInv
  <2> QED BY <1>1, <1>2, <1>4, <2>1, <2>2, <2>3, Within
<1>5. "rtail" \in Places /\ "rnext" \in Places /\ "rold" \in Places /\ "empty?" \in Places
  BY DEF Places
<1>6. CASE ReadCommit(t)
  <2>1. PICK d : d = With(call[t], "rtail", "commit", rb.commit)
    OBVIOUS
  <2>2. Becomes(t, d)
    BY <1>0, <1>6, <2>1, SetBecomes DEF ReadCommit
  <2>3. d \in Calls(use.size) /\ d.pc = "rtail" /\ SameLocals(call[t], d)
    BY <1>0, <1>5, <2>1, WithOther
  <2> QED BY <1>4, <2>2, <2>3 DEF SameLocals
<1>7. CASE ReadTail(t)
  <2>1. PICK d : d = With(call[t], "rnext", "tail", rb.tail)
    OBVIOUS
  <2>2. Becomes(t, d)
    BY <1>0, <1>7, <2>1, SetBecomes DEF ReadTail
  <2>3. d \in Calls(use.size) /\ d.pc = "rnext" /\ d.head = call[t].head
    <3>1. "rnext" \in Places /\ call[t] \in Calls(use.size) /\ use.size \in Nat /\ rb.tail \in 0 .. use.size
      BY <1>0, <1>5
    <3> QED BY <2>1, <3>1, WithTail
  <2> QED BY <1>4, <2>2, <2>3
<1>8. CASE ReadNext(t)
  <2>1. PICK l : l = rb.next[call[t].head]
    OBVIOUS
  <2>2. PICK d : d = With(call[t], "rold", "next", l)
    OBVIOUS
  <2>3. Becomes(t, d)
    BY <1>0, <1>8, <2>1, <2>2, SetBecomes DEF ReadNext
  <2>4. l \in Links(use.size)
    BY <1>0, <2>1 DEF Buffers
  <2>5. d \in Calls(use.size) /\ d.pc = "rold" /\ d.head = call[t].head /\ d.next = l
    BY <1>0, <1>5, <2>2, <2>4, WithNext
  <2>6. d.next.to = rb.next[rb.head].to
    BY <2>1, <2>5, <1>3
  <2> QED BY <1>4, <2>3, <2>5, <2>6
<1>9. CASE ReadOld(t)
  <2>1. PICK l : l = rb.next[rb.reader]
    OBVIOUS
  <2>2. PICK d : d = With(call[t], "empty?", "old", l)
    OBVIOUS
  <2>3. Becomes(t, d)
    BY <1>0, <1>9, <2>1, <2>2, SetBecomes DEF ReadOld
  <2>4. l \in Links(use.size)
    BY <1>0, <2>1 DEF Buffers
  <2>5. d \in Calls(use.size) /\ d.pc = "empty?" /\ SameLocals(call[t], d)
    BY <1>0, <1>5, <2>2, <2>4, WithOther
  <2>6. d.next.to = rb.next[rb.head].to
    BY <1>9, <2>5, <1>3 DEF SameLocals, ReadOld, At
  <2> QED BY <1>4, <2>3, <2>5, <2>6 DEF SameLocals
<1> QED BY <1>6, <1>7, <1>8, <1>9

\* A read that gives up or goes on.
LEMMA ReadGoes ==
  ASSUME RingInv, NEW t \in Threads,
         \/ ReadEmpty(t) \/ ReadCount(t)
         \/ ReadDetach(t) /\ rb.next[rb.reader] # call[t].old
         \/ ReadSwap(t) /\ rb.next[rb.prev[call[t].head]] # Ptr(call[t].head, HEAD)
  PROVE  ReadsOn(t)
<1>0. /\ call[t] \in Calls(use.size) /\ use.size \in Nat /\ call = [u \in Threads |-> call[u]]
      /\ rb \in Buffers(use.size) /\ rb.reads + 1 \in Int
  BY Typed, CallTyped DEF RingInv
<1>1. UNCHANGED <<use, started, got>> /\ call[t].pc \in {"empty?", "rcount", "detach", "swap"}
  BY DEF ReadEmpty, ReadCount, ReadDetach, ReadSwap, History, At
<1>2. rb' = rb \/ rb' = [rb EXCEPT !.reads = rb.reads + 1]
  BY DEF ReadEmpty, ReadCount, ReadDetach, ReadSwap
<1>3. rb' \in Buffers(use.size) /\ LinksSame /\ rb'.value = rb.value /\ rb'.read_sync = rb.read_sync
  BY <1>0, <1>2 DEF LinksSame, Buffers
<1>4. PICK pc \in {"unlock", "detach", "again"} : Go(t, pc) /\ (pc = "detach" => call[t].pc = "empty?")
  BY DEF ReadEmpty, ReadCount, ReadDetach, ReadSwap, At
<1>5. PICK d : d = Gone(call[t], pc)
  OBVIOUS
<1>6. Becomes(t, d)
  BY <1>0, <1>4, <1>5, GoBecomes
<1>7. pc \in Places /\ pc \in Reading /\ call[t].pc \in Reading
  BY <1>1 DEF Places, Reading
<1>8. d \in Calls(use.size) /\ d.pc = pc /\ SameLocals(call[t], d)
  BY <1>0, <1>5, <1>7, WithOther
<1>9. Before(d, rb.head, rb.reader, rb.next, rb.prev)
  BY <1>4, <1>8 DEF RingInv, ReadInv, Before, SameLocals
<1>10. "move" \notin {call[t].pc, pc} /\ "clear" \notin {call[t].pc, pc} /\ PagesInv
  BY <1>1 DEF RingInv
<1> QED BY <1>1, <1>3, <1>6, <1>7, <1>8, <1>9, <1>10, Within

-----------------------------------------------------------------------------
(* The lock of rqueue_read. *)

LEMMA ReadLocks ==
  ASSUME RingInv, OnceInv, NEW t \in Threads, ReadLock(t), ~rb.read_sync
  PROVE  RingInv' /\ OnceInv'
<1>0. /\ call[t] \in Calls(use.size) /\ use.size \in Nat /\ call = [u \in Threads |-> call[u]]
      /\ rb \in Buffers(use.size) /\ rb.head \in 0 .. use.size /\ PagesInv
  BY Typed, CallTyped DEF RingInv
<1>1. UNCHANGED <<use, started, got>> /\ call[t].pc = "lock" /\ rb' = [rb EXCEPT !.read_sync = TRUE]
  BY DEF ReadLock, History, At
<1>2. PICK d : d = With(call[t], "rcommit", "head", rb.head)
  OBVIOUS
<1>3. Becomes(t, d)
  BY <1>0, <1>2, SetBecomes DEF ReadLock
<1>4. "rcommit" \in Places /\ "rcommit" \notin Unwritten /\ "lock" \notin Reading
  BY DEF Places, Unwritten, Placing, Reading
<1>5. d \in Calls(use.size) /\ d.pc = "rcommit" /\ d.head = rb.head
  BY <1>0, <1>2, <1>4, WithHead
<1>6. call' \in [Threads -> Calls(use.size)] /\ Others(t) /\ call'[t] = d
  BY <1>3, <1>5, BecomesTyped, <1>0 DEF PagesInv
<1>7. rb' \in Buffers(use.size) /\ LinksSame /\ rb'.value = rb.value /\ rb'.read_sync
  BY <1>0, <1>1 DEF LinksSame, Buffers
<1>8. PagesInv'
  BY <1>0, <1>1, <1>6, <1>7 DEF PagesInv, Buffers, Calls, Links, Places, HEAD, UPDATE, Plain
<1>9. \A p, q : ~Updating(call[t], p, q)
  BY <1>1 DEF Updating
<1>10. LockInv'
  <2>1. \A u \in Threads : call[u].pc \notin Reading
    BY DEF RingInv, LockInv
  <2>2. \A u \in Threads : u # t => call'[u].pc \notin Reading
    BY <2>1, <1>6, OthersSame
  <2> QED BY <2>2, <1>7 DEF LockInv, Reading
<1>11. ~Moving(t) /\ ~Moving(t)' /\ Before(call'[t], rb.head, rb.reader, rb.next, rb.prev)
  BY <1>1, <1>5, <1>6 DEF Moving, Before
<1>12. FlagInv' /\ CircleInv' /\ ReadInv'
  BY <1>0, <1>1, <1>6, <1>7, <1>9, <1>11, FlagKept, CircleKept, ReadKept DEF RingInv, LinksSame
<1>13. OnceInv'
  BY <1>1, <1>4, <1>5, <1>6, <1>7, OnceKept DEF LinksSame, ValuesSame
<1> QED BY <1>8, <1>10, <1>12, <1>13 DEF RingInv

LEMMA NoReader == ASSUME NEW c, c.pc \notin Reading PROVE \A h, r, nx, pv : Before(c, h, r, nx, pv)
BY DEF Before, Reading

\* A read lets the next one in: it returns, or begins again.
LEMMA ReadReturns ==
  ASSUME RingInv, OnceInv, NEW t \in Threads, ReadReturn(t) \/ ReadAgain(t)
  PROVE  RingInv' /\ OnceInv'
<1>0. /\ call[t] \in Calls(use.size) /\ use.size \in Nat /\ rb \in Buffers(use.size) /\ PagesInv
  BY Typed, CallTyped DEF RingInv
<1>1. /\ UNCHANGED <<use, started, got>> /\ call[t].pc \in {"unlock", "again"}
      /\ rb' = [rb EXCEPT !.read_sync = FALSE]
  BY DEF ReadReturn, ReadAgain, History, At
<1> DEFINE Free == {"idle", "lock"}
<1>2. /\ call[t].pc \in Reading /\ Free \subseteq Places
      /\ \A pc \in Free : pc \notin Reading /\ pc \notin Unwritten /\ pc # "move"
  BY <1>1 DEF Reading, Unwritten, Placing, Places
<1>l. Local \in Calls(use.size) /\ Local.pc = "idle"
  BY <1>0, LocalTyped
<1>d. PICK d : Becomes(t, d) /\ (d = Local \/ \E pc \in Free : d = Gone(Local, pc))
  <2>1. CASE ReadReturn(t)
    BY <2>1 DEF ReadReturn, Becomes
  <2>2. CASE ReadAgain(t)
    BY <2>2 DEF ReadAgain, Becomes, Gone
  <2> QED BY <2>1, <2>2
<1>3. d \in Calls(use.size) /\ d.pc \in Free
  BY <1>0, <1>2, <1>l, <1>d, WithOther
<1> HIDE DEF Free
<1>4. call' \in [Threads -> Calls(use.size)] /\ Others(t) /\ call'[t] = d
  BY <1>0, <1>d, <1>3, BecomesTyped DEF PagesInv
<1>5. rb' \in Buffers(use.size) /\ LinksSame /\ rb'.value = rb.value
  BY <1>0, <1>1 DEF LinksSame, Buffers
<1>6. PagesInv'
  BY <1>0, <1>1, <1>4, <1>5 DEF PagesInv, Buffers, Calls, Links, Places, HEAD, UPDATE, Plain
<1>7. \A p, q : ~Updating(call[t], p, q)
  BY <1>1 DEF Updating
<1>8. LockInv'
  <2>1. \A u \in Threads : u # t => call[u].pc \notin Reading
    BY <1>1, <1>2 DEF RingInv, LockInv
  <2>2. \A u \in Threads : call'[u].pc \notin Reading
    BY <2>1, <1>2, <1>3, <1>4, OthersSame
  <2> QED BY <2>2 DEF LockInv, Reading
<1>9. ~Moving(t) /\ ~Moving(t)' /\ Before(call'[t], rb.head, rb.reader, rb.next, rb.prev)
  BY <1>1, <1>2, <1>3, <1>4, NoReader DEF Moving
<1>10. FlagInv' /\ CircleInv' /\ ReadInv'
  BY <1>0, <1>1, <1>4, <1>5, <1>7, <1>9, FlagKept, CircleKept, ReadKept DEF RingInv, LinksSame
<1>11. OnceInv'
  BY <1>1, <1>2, <1>3, <1>4, <1>5, OnceKept DEF LinksSame, ValuesSame
<1> QED BY <1>6, <1>8, <1>10, <1>11 DEF RingInv

-----------------------------------------------------------------------------
(* The flag. *)

LEMMA FlagChanged ==
  ASSUME RingInv, NEW t \in Threads, Others(t), use' = use, rb'.read_sync = rb.read_sync,
         rb'.head = rb.head, rb'.reader = rb.reader, rb'.prev = rb.prev,
         NEW p \in Pages, NEW l \in Links(use.size), l.to = rb.next[p].to, l.flag # Plain, rb.next[p].flag # Plain,
         Put(use.size, rb.next, rb'.next, p, l),
         call[t].pc \notin Reading, call'[t].pc \notin Reading
  PROVE  LockInv' /\ CircleInv' /\ ReadInv'
<1>1. /\ use.size \in Nat /\ use.size >= 3 /\ Pages = 0 .. use.size /\ rb.next \in [0 .. use.size -> Links(use.size)]
      /\ rb.head \in Pages /\ rb.reader \in Pages
  BY Typed DEF RingInv
<1>2. LockInv'
  BY LockKept DEF RingInv
<1>3. \A q \in Pages : rb'.next[q].to = rb.next[q].to /\ (rb.next[q].flag # Plain => rb'.next[q].flag # Plain)
  BY <1>1 DEF Put
<1>4. ReadInv'
  <2> SUFFICES ASSUME NEW u \in Threads PROVE Before(call'[u], rb.head, rb.reader, rb'.next, rb.prev)
    BY DEF ReadInv
  <2>1. Before(call'[u], rb.head, rb.reader, rb.next, rb.prev)
    <3>1. CASE u = t
      BY <3>1 DEF Before, Reading
    <3>2. CASE u # t
      BY <3>2, OthersSame DEF RingInv, ReadInv
    <3> QED BY <3>1, <3>2
  <2> QED BY <2>1, <1>1, <1>3 DEF Before
<1>5. CircleInv'
  <2>0. \A u \in Threads : (Moving(u)' <=> Moving(u)) /\ (Moving(u) => call'[u].next = call[u].next)
    <3>1. ~Moving(t) /\ ~Moving(t)'
      BY DEF Moving, Reading
    <3> QED BY <3>1, OthersSame DEF Moving
  <2>1. ASSUME \A u \in Threads : ~Moving(u)
        PROVE  Circle(use.size, rb.head, rb.reader, rb'.next, rb.prev)
    <3>1. Circle(use.size, rb.head, rb.reader, rb.next, rb.prev)
      BY <2>1 DEF RingInv, CircleInv
    <3> QED BY <3>1, <1>1, CircleFlag
  <2>2. ASSUME NEW u \in Threads, Moving(u)
        PROVE  Circle(use.size, call[u].next.to, rb.head, rb'.next, [rb.prev EXCEPT ![call[u].next.to] = rb.reader])
    <3>1. PICK v, w : v = call[u].next.to /\ w = [rb.prev EXCEPT ![call[u].next.to] = rb.reader]
      OBVIOUS
    <3>2. Circle(use.size, v, rb.head, rb.next, w)
      BY <2>2, <3>1 DEF RingInv, CircleInv
    <3>3. Circle(use.size, v, rb.head, rb'.next, w)
      BY <3>2, <1>1, CircleFlag
    <3> QED BY <3>1, <3>3
  <2> QED BY <2>0, <2>1, <2>2 DEF CircleInv
<1> QED BY <1>2, <1>4, <1>5

LEMMA LinkIs == ASSUME NEW n \in Nat, NEW l \in Links(n) PROVE l = Ptr(l.to, l.flag) /\ l.to \in 0 .. n
BY DEF Links, Ptr

LEMMA PtrTyped ==
  ASSUME NEW n \in Nat, NEW p \in 0 .. n, NEW f \in {HEAD, UPDATE, Plain}
  PROVE  Ptr(p, f) \in Links(n) /\ Ptr(p, f).to = p /\ Ptr(p, f).flag = f
BY DEF Links, Ptr

\* The call c after it has looked at the flag.
Flagged(c, l, hit) == [c EXCEPT !.pc = "old", !.did_update = hit, !.next = l]

LEMMA FlaggedIs ==
  ASSUME NEW n \in Nat, NEW c \in Calls(n), NEW l \in Links(n), NEW hit \in BOOLEAN, NEW d, d = Flagged(c, l, hit)
  PROVE  /\ d \in Calls(n) /\ d.pc = "old" /\ d.next = l /\ d.did_update = hit
         /\ d.head = c.head /\ d.tail = c.tail /\ d.value = c.value /\ d.was = c.was
<1>1. "old" \in Places
  BY DEF Places
<1> QED BY <1>1 DEF Calls, Flagged

LEMMA WriteFlags ==
  ASSUME RingInv, OnceInv, NEW t \in Threads, WriteFlag(t)
  PROVE  RingInv' /\ OnceInv'
<1>0. /\ call[t] \in Calls(use.size) /\ use.size \in Nat /\ rb \in Buffers(use.size) /\ PagesInv /\ Pages = 0 .. use.size
      /\ rb.next \in [0 .. use.size -> Links(use.size)] /\ call[t].tail \in 0 .. use.size
      /\ call \in [Threads -> Calls(use.size)]
  BY Typed, CallTyped DEF RingInv
<1>1. PICK p, l : p = call[t].tail /\ l = rb.next[p]
  OBVIOUS
<1>2. l \in Links(use.size) /\ p \in 0 .. use.size
  BY <1>0, <1>1
<1>3. PICK hit \in BOOLEAN : hit = (l.flag = HEAD)
  OBVIOUS
<1>4. PICK d : d = Flagged(call[t], l, hit)
  OBVIOUS
<1>5. Becomes(t, d)
  BY <1>0, <1>1, <1>3, <1>4 DEF WriteFlag, Flagged, Becomes
<1>6. /\ d \in Calls(use.size) /\ d.pc = "old" /\ d.next = l /\ d.did_update = hit
      /\ d.tail = p /\ d.value = call[t].value
  BY <1>0, <1>1, <1>2, <1>4, FlaggedIs
<1>7. call' \in [Threads -> Calls(use.size)] /\ Others(t) /\ call'[t] = d
  BY <1>0, <1>5, <1>6, BecomesTyped
<1>8. /\ UNCHANGED <<use, started, got>> /\ call[t].pc = "flag"
      /\ rb' = IF l.flag = HEAD THEN [rb EXCEPT !.next[p].flag = UPDATE] ELSE rb
  BY <1>1 DEF WriteFlag, History, At
<1>9. "flag" \in Unwritten /\ "flag" \notin Reading /\ "old" \notin Reading
  BY DEF Unwritten, Reading
<1>10. \A x, q : ~Updating(call[t], x, q)
  BY <1>8 DEF Updating
<1>11. CASE l.flag # HEAD
  <2>1. rb' = rb
    BY <1>8, <1>11
  <2>2. LinksSame /\ rb'.read_sync = rb.read_sync /\ rb' \in Buffers(use.size) /\ rb'.value = rb.value
    BY <2>1, <1>0 DEF LinksSame
  <2>3. WritesOn(t)
    BY <1>0, <1>5, <1>6, <1>8, <1>9, <1>10, <2>2, Aside
  <2> QED BY <2>3, WriteKeeps
<1>12. CASE l.flag = HEAD
  <2>1. rb' = [rb EXCEPT !.next = [rb.next EXCEPT ![p] = Ptr(l.to, UPDATE)]]
    <3>1. [l EXCEPT !.flag = UPDATE] = Ptr(l.to, UPDATE)
      BY <1>2 DEF Links, Ptr
    <3>2. rb' = [rb EXCEPT !.next = [rb.next EXCEPT ![p] = [rb.next[p] EXCEPT !.flag = UPDATE]]]
      BY <1>8, <1>12
    <3> QED BY <3>1, <3>2, <1>1
  <2>2. PICK k : k = Ptr(l.to, UPDATE)
    OBVIOUS
  <2>3. k \in Links(use.size) /\ k.to = l.to /\ k.flag = UPDATE
    BY <1>0, <1>2, <2>2, LinkIs, PtrTyped
  <2>4. PICK nx : nx = [rb.next EXCEPT ![p] = k]
    OBVIOUS
  <2>5. nx \in [0 .. use.size -> Links(use.size)] /\ Put(use.size, rb.next, nx, p, k)
    BY <1>0, <1>2, <2>3, <2>4 DEF Put
  <2>6. rb' = [rb EXCEPT !.next = nx]
    BY <2>1, <2>2, <2>4
  <2>7. /\ rb' \in Buffers(use.size) /\ rb'.next = nx /\ rb'.value = rb.value /\ rb'.read_sync = rb.read_sync
        /\ rb'.head = rb.head /\ rb'.reader = rb.reader /\ rb'.prev = rb.prev
    BY <1>0, <2>5, <2>6 DEF Buffers
  <2>8. PagesInv'
    BY <1>0, <1>7, <1>8, <2>7 DEF PagesInv, Buffers, Calls, Links, Places, HEAD, UPDATE, Plain
  <2>9. HEAD # Plain /\ UPDATE # Plain
    BY DEF HEAD, UPDATE, Plain
  <2>10. LockInv' /\ CircleInv' /\ ReadInv'
    <3>1. /\ Others(t) /\ use' = use /\ rb'.read_sync = rb.read_sync
          /\ rb'.head = rb.head /\ rb'.reader = rb.reader /\ rb'.prev = rb.prev
          /\ call[t].pc \notin Reading /\ call'[t].pc \notin Reading
      BY <1>6, <1>7, <1>8, <1>9, <2>7
    <3>2. /\ p \in Pages /\ k \in Links(use.size) /\ k.to = rb.next[p].to /\ k.flag # Plain
          /\ rb.next[p].flag # Plain /\ Put(use.size, rb.next, rb'.next, p, k)
      BY <1>0, <1>1, <1>2, <1>12, <2>3, <2>5, <2>7, <2>9
    <3> QED BY ONLY RingInv, t \in Threads, <3>1, <3>2, FlagChanged
  <2>11. FlagInv'
    <3>1. Pages' = Pages
      BY <1>8 DEF Pages
    <3> SUFFICES ASSUME NEW q \in Pages, nx[q].flag = UPDATE
                 PROVE  \E u \in Threads : Updating(call'[u], q, nx[q].to)
      BY <3>1, <2>7 DEF FlagInv, UPDATE
    <3>2. CASE q = p
      <4>1. nx[q].to = l.to
        BY <3>2, <2>3, <2>5, <1>0 DEF Put
      <4>2. Updating(d, q, nx[q].to)
        BY <3>2, <4>1, <1>3, <1>6, <1>12 DEF Updating
      <4> QED BY <4>2, <1>7
    <3>3. CASE q # p
      <4>1. nx[q] = rb.next[q]
        BY <3>3, <2>5, <1>0 DEF Put
      <4>2. PICK u \in Threads : Updating(call[u], q, rb.next[q].to)
        BY <4>1 DEF RingInv, FlagInv
      <4>3. u # t
        BY <4>2, <1>10
      <4> QED BY <4>1, <4>2, <4>3, <1>7, OthersSame
    <3> QED BY <3>2, <3>3
  <2>12. OnceInv'
    BY <1>6, <1>7, <1>8, <1>9, <2>7, OnceKept DEF ValuesSame
  <2> QED BY <2>8, <2>10, <2>11, <2>12 DEF RingInv
<1> QED BY <1>11, <1>12

LEMMA WriteUnflags ==
  ASSUME RingInv, OnceInv, NEW t \in Threads, WriteUnflag(t)
  PROVE  RingInv' /\ OnceInv'
<1>0. /\ call[t] \in Calls(use.size) /\ use.size \in Nat /\ rb \in Buffers(use.size) /\ PagesInv /\ Pages = 0 .. use.size
      /\ rb.next \in [0 .. use.size -> Links(use.size)] /\ call[t].tail \in 0 .. use.size /\ call[t].next.to \in 0 .. use.size
      /\ call \in [Threads -> Calls(use.size)] /\ call = [u \in Threads |-> call[u]]
  BY Typed, CallTyped DEF RingInv
<1>1. PICK p, l, m : p = call[t].tail /\ l = rb.next[p] /\ m = call[t].next.to
  OBVIOUS
<1>2. l \in Links(use.size) /\ p \in 0 .. use.size /\ m \in 0 .. use.size
  BY <1>0, <1>1
<1>3. PICK d : d = Gone(call[t], "count")
  OBVIOUS
<1>4. Becomes(t, d)
  BY <1>0, <1>3, GoBecomes DEF WriteUnflag
<1>5. "count" \notin Unwritten /\ "count" \notin Reading /\ "unflag" \notin Reading /\ "count" \in Places
  BY DEF Unwritten, Reading, Places, Placing
<1>6. d \in Calls(use.size) /\ d.pc = "count"
  BY <1>0, <1>3, <1>5, WithOther
<1>7. call' \in [Threads -> Calls(use.size)] /\ Others(t) /\ call'[t] = d
  BY <1>0, <1>4, <1>6, BecomesTyped
<1>8. PICK k : k = IF l = Ptr(m, UPDATE) THEN Ptr(m, HEAD) ELSE l
  OBVIOUS
<1>9. PICK nx : nx = [rb.next EXCEPT ![p] = k]
  OBVIOUS
<1>10. UNCHANGED <<use, started, got>> /\ call[t].pc = "unflag" /\ rb' = [rb EXCEPT !.next = nx]
  BY <1>1, <1>8, <1>9 DEF WriteUnflag, History, At
<1>11. Ptr(m, HEAD) \in Links(use.size) /\ Ptr(m, HEAD).to = m /\ Ptr(m, HEAD).flag = HEAD /\ Ptr(m, UPDATE).to = m /\ Ptr(m, UPDATE).flag = UPDATE
  BY <1>0, <1>2, PtrTyped
<1>12. HEAD # Plain /\ UPDATE # Plain /\ HEAD # UPDATE
  BY DEF HEAD, UPDATE, Plain
<1>13. k \in Links(use.size) /\ k.to = l.to /\ (l # Ptr(m, UPDATE) => k = l)
  BY <1>2, <1>8, <1>11
<1>14. nx \in [0 .. use.size -> Links(use.size)] /\ Put(use.size, rb.next, nx, p, k)
  BY <1>0, <1>2, <1>9, <1>13 DEF Put
<1>15. /\ rb' \in Buffers(use.size) /\ rb'.next = nx /\ rb'.value = rb.value /\ rb'.read_sync = rb.read_sync
       /\ rb'.head = rb.head /\ rb'.reader = rb.reader /\ rb'.prev = rb.prev
  BY <1>0, <1>10, <1>14 DEF Buffers
<1>16. PagesInv'
  BY <1>0, <1>7, <1>10, <1>15 DEF PagesInv, Buffers, Calls, Links, Places, HEAD, UPDATE, Plain
<1>17. LockInv' /\ CircleInv' /\ ReadInv'
  <2>1. CASE l = Ptr(m, UPDATE)
    <3>1. k.flag = HEAD /\ l.flag = UPDATE
      BY <2>1, <1>8, <1>11
    <3> QED BY <3>1, <1>0, <1>1, <1>2, <1>5, <1>6, <1>7, <1>10, <1>12, <1>13, <1>14, <1>15, FlagChanged
  <2>2. CASE l # Ptr(m, UPDATE)
    <3>1. nx = rb.next
      BY <2>2, <1>0, <1>1, <1>2, <1>9, <1>13
    <3>2. LinksSame
      BY <3>1, <1>15 DEF LinksSame
    <3>3. ~Moving(t) /\ ~Moving(t)' /\ Before(call'[t], rb.head, rb.reader, rb.next, rb.prev)
      BY <1>6, <1>7, <1>10 DEF Moving, Before
    <3> QED BY <3>2, <3>3, <1>5, <1>6, <1>7, <1>10, <1>15, LockKept, CircleKept, ReadKept DEF RingInv
  <2> QED BY <2>1, <2>2
<1>18. FlagInv'
  <2>1. Pages' = Pages
    BY <1>10 DEF Pages
  <2> SUFFICES ASSUME NEW q \in Pages, nx[q].flag = UPDATE
               PROVE  \E u \in Threads : Updating(call'[u], q, nx[q].to)
    BY <2>1, <1>15 DEF FlagInv, UPDATE
  <2>2. nx[q] = rb.next[q] /\ (q = p => l # Ptr(m, UPDATE))
    <3>1. CASE q = p
      <4>1. nx[q] = k
        BY <3>1, <1>0, <1>14 DEF Put
      <4>2. k # Ptr(m, HEAD)
        BY <4>1, <1>11, <1>12
      <4> QED BY <3>1, <4>1, <4>2, <1>1, <1>8
    <3>2. CASE q # p
      BY <3>2, <1>0, <1>14 DEF Put
    <3> QED BY <3>1, <3>2
  <2>3. PICK u \in Threads : Updating(call[u], q, rb.next[q].to)
    BY <2>2 DEF RingInv, FlagInv
  <2>4. u # t
    <3>1. ASSUME u = t PROVE FALSE
      <4>1. q = p /\ m = l.to
        BY <3>1, <2>3, <1>1 DEF Updating
      <4>2. l.flag = UPDATE
        BY <4>1, <2>2, <1>1
      <4>3. l = Ptr(m, UPDATE)
        BY <4>1, <4>2, <1>0, <1>2, LinkIs
      <4> QED BY <4>1, <4>3, <2>2
    <3> QED BY <3>1
  <2> QED BY <2>2, <2>3, <2>4, <1>7, OthersSame
<1>19. OnceInv'
  BY <1>5, <1>6, <1>7, <1>10, <1>15, OnceKept DEF ValuesSame
<1> QED BY <1>16, <1>17, <1>18, <1>19 DEF RingInv

-----------------------------------------------------------------------------
(* Values come and go. *)

LEMMA LinksKeep ==
  ASSUME RingInv, NEW t \in Threads, PagesInv', use' = use, LinksSame, rb'.read_sync = rb.read_sync, Others(t),
         call'[t].pc \in Reading => call[t].pc \in Reading, call[t].pc # "move", call'[t].pc # "move",
         \A p, q : Updating(call[t], p, q) => Updating(call'[t], p, q),
         Before(call'[t], rb.head, rb.reader, rb.next, rb.prev)
  PROVE  RingInv'
<1>1. ~Moving(t) /\ ~Moving(t)'
  BY DEF Moving
<1> QED BY <1>1, FlagKept, LockKept, CircleKept, ReadKept DEF RingInv, LinksSame

\* A call of rqueue_write begins, and those of others last one more write.
Starts(c, v) == [c EXCEPT !.pc = "tail", !.value = v]
Lags(c, m) == [c EXCEPT !.lag = IF c.pc \in Placing /\ @ < m THEN @ + 1 ELSE @]

LEMMA StartsIs ==
  ASSUME NEW n \in Nat, NEW c \in Calls(n), NEW v \in Nat, NEW d, d = Starts(c, v)
  PROVE  d \in Calls(n) /\ d.pc = "tail" /\ d.value = v
<1>1. "tail" \in Places
  BY DEF Places
<1> QED BY <1>1 DEF Calls, Starts

LEMMA LagsIs ==
  ASSUME NEW n \in Nat, NEW c \in Calls(n), NEW m, NEW d, d = Lags(c, m)
  PROVE  d \in Calls(n) /\ d.pc = c.pc /\ SameLocals(c, d)
<1>1. c.lag \in Int /\ c.lag + 1 \in Int
  <2>1. c.lag \in Int
    BY DEF Calls
  <2> QED BY <2>1
<1>2. PICK k \in Int : d = [c EXCEPT !.lag = k]
  BY <1>1 DEF Lags
<1> QED BY <1>2 DEF Calls, SameLocals

LEMMA WriteStarts ==
  ASSUME RingInv, OnceInv, NEW t \in Threads, Write(t)
  PROVE  RingInv' /\ OnceInv'
<1>0. /\ use.size \in Nat /\ rb \in Buffers(use.size) /\ PagesInv /\ call \in [Threads -> Calls(use.size)]
      /\ rb.num_writers + 1 \in Int /\ started \in Nat /\ got \in Seq(Nat) /\ Local \in Calls(use.size)
      /\ rb.value \in [Pages -> Nat]
  BY Typed, LocalTyped DEF RingInv, PagesInv
<1>1. UNCHANGED <<use, got>> /\ started' = started + 1 /\ call[t].pc = "idle" /\ rb' = [rb EXCEPT !.num_writers = rb.num_writers + 1]
  BY DEF Write, At
<1>2. call' = [u \in Threads |-> IF u = t THEN Starts(Local, started + 1) ELSE Lags(call[u], use.lag)]
  BY DEF Write, Starts, Lags
<1>3. PICK s : s = started + 1
  OBVIOUS
<1>4. s \in Nat /\ started < s /\ started' = s /\ s >= 1
  BY <1>0, <1>1, <1>3
<1>5. PICK d : d = Starts(Local, s)
  OBVIOUS
<1>6. d \in Calls(use.size) /\ d.pc = "tail" /\ d.value = s
  <2>1. use.size \in Nat /\ Local \in Calls(use.size) /\ s \in Nat /\ d = Starts(Local, s)
    BY <1>0, <1>4, <1>5
  <2> QED BY ONLY <2>1, StartsIs
<1>7. \A u \in Threads : Lags(call[u], use.lag) \in Calls(use.size) /\ Lags(call[u], use.lag).pc = call[u].pc /\ SameLocals(call[u], Lags(call[u], use.lag))
  BY <1>0, LagsIs
<1>8. call'[t] = d /\ \A u \in Threads : u # t => call'[u] = Lags(call[u], use.lag)
  BY <1>2, <1>3, <1>5
<1>9. call' \in [Threads -> Calls(use.size)]
  BY <1>2, <1>3, <1>5, <1>6, <1>7
<1>10. Others(t)
  BY <1>7, <1>8 DEF Others
<1>11. rb' \in Buffers(use.size) /\ LinksSame /\ rb'.value = rb.value /\ rb'.read_sync = rb.read_sync /\ rb'.reader = rb.reader
  BY <1>0, <1>1 DEF LinksSame, Buffers
<1>12. PagesInv'
  <2>1. /\ use' = use /\ use \in Rings /\ rb' \in Buffers(use.size) /\ call' \in [Threads -> Calls(use.size)]
        /\ started' \in Nat /\ got' \in Seq(Nat)
    BY <1>0, <1>1, <1>4, <1>9, <1>11 DEF PagesInv
  <2> QED BY ONLY <2>1 DEF PagesInv, Buffers, Calls, Links, Places, HEAD, UPDATE, Plain
<1>13. RingInv'
  <2>1. \A p, q : ~Updating(call[t], p, q)
    BY <1>1 DEF Updating
  <2>2. /\ call'[t].pc \notin Reading /\ call[t].pc # "move" /\ call'[t].pc # "move"
        /\ Before(call'[t], rb.head, rb.reader, rb.next, rb.prev)
    BY <1>1, <1>6, <1>8 DEF Reading, Before
  <2> QED BY <2>1, <2>2, <1>1, <1>10, <1>11, <1>12, LinksKeep
<1>14. Pages' = Pages
  BY <1>1 DEF Pages
<1>15. \A u \in Threads : u # t => call'[u].pc = call[u].pc /\ call'[u].value = call[u].value /\ call'[u].was = call[u].was
  BY <1>10, OthersSame
<1>16. /\ \A p \in Pages : rb.value[p] \in Nat /\ rb.value[p] <= started
       /\ \A i \in 1 .. Len(got) : got[i] \in 1 .. started
  BY <1>0 DEF OnceInv, ValueInv
<1>17. \A v \in 1 .. started : v \in 1 .. s /\ v # s
  BY <1>0, <1>4
<1>18. \A v \in Nat : v <= started => v <= s /\ v # s
  BY <1>0, <1>4
<1>19. FreshInv'
  <2> SUFFICES ASSUME NEW u \in Threads, call'[u].pc \in Unwritten
               PROVE  /\ call'[u].value \in 1 .. s
                      /\ \A i \in 1 .. Len(got) : got[i] # call'[u].value
                      /\ \A p \in Pages : rb.value[p] # call'[u].value
                      /\ \A v \in Threads : call'[v].pc \in Unwritten /\ call'[v].value = call'[u].value => v = u
    BY <1>1, <1>4, <1>11, <1>14 DEF FreshInv, Unwritten, Placing
  <2>1. \A v \in Threads : v # t /\ call'[v].pc \in Unwritten => call'[v].value \in 1 .. started
    BY <1>15 DEF OnceInv, FreshInv
  <2>2. CASE u = t
    <3>1. call'[u].value = s /\ s \in 1 .. s
      BY <2>2, <1>4, <1>6, <1>8
    <3>2. \A v \in Threads : call'[v].pc \in Unwritten /\ call'[v].value = s => v = u
      BY <2>1, <2>2, <1>17
    <3>3. \A i \in 1 .. Len(got) : got[i] # s
      BY <1>16, <1>17
    <3>4. \A p \in Pages : rb.value[p] # s
      BY <1>16, <1>18
    <3> QED BY <3>1, <3>2, <3>3, <3>4
  <2>3. CASE u # t
    <3>1. /\ call'[u].value \in 1 .. started
          /\ \A i \in 1 .. Len(got) : got[i] # call'[u].value
          /\ \A p \in Pages : rb.value[p] # call'[u].value
          /\ \A v \in Threads : v # t /\ call'[v].pc \in Unwritten /\ call'[v].value = call'[u].value => v = u
      BY <2>3, <1>15 DEF OnceInv, FreshInv
    <3>2. call'[t].value # call'[u].value
      BY <3>1, <1>6, <1>8, <1>17
    <3> QED BY <3>1, <3>2, <1>17
  <2> QED BY <2>2, <2>3
<1>20. TakenInv'
  <2> SUFFICES ASSUME NEW p \in Pages, NEW i \in 1 .. Len(got), rb.value[p] = got[i]
               PROVE  p = rb.reader /\ \E u \in Threads : call'[u].pc = "clear" /\ call'[u].was = rb.value[p]
    BY <1>1, <1>11, <1>14 DEF TakenInv
  <2>1. PICK u \in Threads : call[u].pc = "clear" /\ call[u].was = rb.value[p]
    BY DEF OnceInv, TakenInv
  <2>2. u # t
    BY <2>1, <1>1
  <2> QED BY <2>1, <2>2, <1>15 DEF OnceInv, TakenInv
<1>21. ValueInv'
  <2>1. \A p, q \in Pages : rb.value[p] = rb.value[q] /\ rb.value[p] # None => p = q
    BY DEF OnceInv, ValueInv
  <2>2. \A p \in Pages : rb.value[p] <= s
    BY <1>16, <1>18
  <2>3. \A i \in 1 .. Len(got) : got[i] \in 1 .. s
    BY <1>16, <1>17
  <2> QED BY <2>1, <2>2, <2>3, <1>1, <1>4, <1>11, <1>14 DEF ValueInv, None
<1>22. ReadOnce'
  BY <1>1 DEF OnceInv, ReadOnce
<1> QED BY <1>13, <1>19, <1>20, <1>21, <1>22 DEF OnceInv

LEMMA WriteStores ==
  ASSUME RingInv, OnceInv, NEW t \in Threads, WriteValue(t)
  PROVE  RingInv' /\ OnceInv'
<1>0. /\ call[t] \in Calls(use.size) /\ use.size \in Nat /\ rb \in Buffers(use.size) /\ PagesInv
      /\ call \in [Threads -> Calls(use.size)] /\ call = [u \in Threads |-> call[u]]
      /\ call[t].tail \in Pages /\ call[t].value \in Nat /\ rb.value \in [Pages -> Nat] /\ Pages = 0 .. use.size
  BY Typed, CallTyped DEF RingInv
<1>1. PICK p, v, w : p = call[t].tail /\ v = call[t].value /\ w = rb.value[p]
  OBVIOUS
<1>2. PICK k : k = IF w = call[t].was THEN v ELSE w
  OBVIOUS
<1>3. PICK vs : vs = [rb.value EXCEPT ![p] = k]
  OBVIOUS
<1>4. UNCHANGED <<use, started, got>> /\ call[t].pc = "value" /\ rb' = [rb EXCEPT !.value = vs]
  BY <1>1, <1>2, <1>3 DEF WriteValue, History, At
<1>5. p \in Pages /\ v \in Nat /\ w \in Nat /\ k \in Nat /\ k \in {v, w}
  BY <1>0, <1>1, <1>2
<1>6. vs \in [Pages -> Nat] /\ vs[p] = k /\ \A q \in Pages : q # p => vs[q] = rb.value[q]
  BY <1>0, <1>3, <1>5
<1>7. PICK pc \in {"unflag", "count"} : Go(t, pc) /\ (call[t].did_update => pc = "unflag")
  BY DEF WriteValue
<1>8. PICK d : d = Gone(call[t], pc)
  OBVIOUS
<1>9. Becomes(t, d)
  BY <1>0, <1>7, <1>8, GoBecomes
<1>10. pc \in Places /\ pc \notin Reading /\ pc \notin Unwritten /\ "value" \in Unwritten
  BY <1>7 DEF Places, Reading, Unwritten, Placing
<1>11. d \in Calls(use.size) /\ d.pc = pc /\ SameLocals(call[t], d)
  BY <1>0, <1>8, <1>10, WithOther
<1>12. call' \in [Threads -> Calls(use.size)] /\ Others(t) /\ call'[t] = d
  BY <1>0, <1>9, <1>11, BecomesTyped
<1>13. rb' \in Buffers(use.size) /\ LinksSame /\ rb'.value = vs /\ rb'.read_sync = rb.read_sync /\ rb'.reader = rb.reader
  BY <1>0, <1>4, <1>6 DEF LinksSame, Buffers
<1>14. PagesInv'
  BY <1>0, <1>4, <1>12, <1>13 DEF PagesInv, Buffers, Calls, Links, Places, HEAD, UPDATE, Plain
<1>15. RingInv'
  <2>1. \A x, y : Updating(call[t], x, y) => Updating(call'[t], x, y)
    BY <1>7, <1>11, <1>12 DEF Updating, SameLocals
  <2>2. /\ call'[t].pc \notin Reading /\ call[t].pc # "move" /\ call'[t].pc # "move"
        /\ Before(call'[t], rb.head, rb.reader, rb.next, rb.prev)
    BY <1>4, <1>7, <1>10, <1>11, <1>12 DEF Before
  <2> QED BY <2>1, <2>2, <1>4, <1>12, <1>13, <1>14, LinksKeep
<1>16. Pages' = Pages
  BY <1>4 DEF Pages
<1>17. \A u \in Threads : u # t => call'[u].pc = call[u].pc /\ call'[u].value = call[u].value /\ call'[u].was = call[u].was
  BY <1>12, OthersSame
<1>18. /\ v \in 1 .. started
       /\ \A i \in 1 .. Len(got) : got[i] # v
       /\ \A q \in Pages : rb.value[q] # v
       /\ \A u \in Threads : u # t /\ call[u].pc \in Unwritten => call[u].value # v
  BY <1>1, <1>4, <1>10 DEF OnceInv, FreshInv
<1>19. \A q \in Pages : vs[q] = v \/ vs[q] = rb.value[q]
  BY <1>1, <1>5, <1>6
<1>20. FreshInv'
  <2> SUFFICES ASSUME NEW u \in Threads, call'[u].pc \in Unwritten
               PROVE  /\ call'[u].value \in 1 .. started
                      /\ \A i \in 1 .. Len(got) : got[i] # call'[u].value
                      /\ \A q \in Pages : vs[q] # call'[u].value
                      /\ \A x \in Threads : call'[x].pc \in Unwritten /\ call'[x].value = call'[u].value => x = u
    BY <1>4, <1>13, <1>16 DEF FreshInv, Unwritten, Placing
  <2>1. \A x \in Threads : call'[x].pc \in Unwritten => x # t /\ call[x].pc \in Unwritten /\ call'[x].value = call[x].value
    BY <1>10, <1>11, <1>12, <1>17
  <2>2. /\ call[u].value \in 1 .. started /\ call[u].value # v
        /\ \A i \in 1 .. Len(got) : got[i] # call[u].value
        /\ \A q \in Pages : rb.value[q] # call[u].value
        /\ \A x \in Threads : call[x].pc \in Unwritten /\ call[x].value = call[u].value => x = u
    BY <2>1, <1>18 DEF OnceInv, FreshInv
  <2> QED BY <2>1, <2>2, <1>19
<1>21. TakenInv'
  <2> SUFFICES ASSUME NEW q \in Pages, NEW i \in 1 .. Len(got), vs[q] = got[i]
               PROVE  q = rb.reader /\ \E u \in Threads : call'[u].pc = "clear" /\ call'[u].was = vs[q]
    BY <1>4, <1>13, <1>16 DEF TakenInv
  <2>1. rb.value[q] = got[i] /\ vs[q] = rb.value[q]
    BY <1>18, <1>19
  <2>2. PICK u \in Threads : call[u].pc = "clear" /\ call[u].was = rb.value[q]
    BY <2>1 DEF OnceInv, TakenInv
  <2>3. u # t
    BY <2>2, <1>4
  <2> QED BY <2>1, <2>2, <2>3, <1>17 DEF OnceInv, TakenInv
<1>22. ValueInv'
  <2>1. ASSUME NEW x \in Pages, NEW y \in Pages, vs[x] = vs[y], vs[x] # None PROVE x = y
    <3>1. CASE x # p /\ y # p
      BY <2>1, <3>1, <1>6 DEF OnceInv, ValueInv
    <3>2. CASE x = p \/ y = p
      <4>1. CASE k = v
        BY <2>1, <3>2, <4>1, <1>6, <1>18
      <4>2. CASE k = w
        <5>1. vs[x] = rb.value[x] /\ vs[y] = rb.value[y]
          BY <4>2, <1>1, <1>6
        <5> QED BY <2>1, <5>1 DEF OnceInv, ValueInv
      <4> QED BY <4>1, <4>2, <1>5
    <3> QED BY <3>1, <3>2
  <2>2. \A q \in Pages : vs[q] <= started
    <3>1. v <= started
      BY <1>18, <1>0 DEF PagesInv
    <3> QED BY <3>1, <1>19 DEF OnceInv, ValueInv
  <2>3. \A i \in 1 .. Len(got) : got[i] \in 1 .. started
    BY DEF OnceInv, ValueInv
  <2> QED BY <2>1, <2>2, <2>3, <1>4, <1>13, <1>16 DEF ValueInv, None
<1>23. ReadOnce'
  BY <1>4 DEF OnceInv, ReadOnce
<1> QED BY <1>15, <1>20, <1>21, <1>22, <1>23 DEF OnceInv

LEMMA ReadTakes ==
  ASSUME RingInv, OnceInv, NEW t \in Threads, ReadTake(t)
  PROVE  RingInv' /\ OnceInv'
<1>0. /\ call[t] \in Calls(use.size) /\ use.size \in Nat /\ rb \in Buffers(use.size) /\ PagesInv
      /\ call \in [Threads -> Calls(use.size)] /\ call = [u \in Threads |-> call[u]]
      /\ rb.reader \in Pages /\ rb.value \in [Pages -> Nat] /\ got \in Seq(Nat) /\ started \in Nat
  BY Typed, CallTyped DEF RingInv, PagesInv
<1>1. PICK r, v : r = rb.reader /\ v = rb.value[r]
  OBVIOUS
<1>2. /\ UNCHANGED <<use, rb, started>> /\ call[t].pc = "take"
      /\ got' = IF v = None THEN got ELSE Append(got, v)
  BY <1>1 DEF ReadTake, At
<1>3. r \in Pages /\ v \in Nat
  BY <1>0, <1>1
<1>4. PICK d : d = With(call[t], "clear", "was", v)
  OBVIOUS
<1>5. Becomes(t, d)
  BY <1>0, <1>1, <1>4, SetBecomes DEF ReadTake
<1>6. "clear" \in Places /\ "clear" \in Reading /\ "take" \in Reading /\ "clear" \notin Unwritten
  BY DEF Places, Reading, Unwritten, Placing
<1>7. d \in Calls(use.size) /\ d.pc = "clear" /\ d.was = v
  <2>1. use.size \in Nat /\ call[t] \in Calls(use.size) /\ "clear" \in Places /\ v \in Nat
    BY <1>0, <1>3, <1>6
  <2> QED BY ONLY <2>1, <1>4, WithWas
<1>8. call' \in [Threads -> Calls(use.size)] /\ Others(t) /\ call'[t] = d
  BY <1>0, <1>5, <1>7, BecomesTyped
<1>9. rb' \in Buffers(use.size) /\ LinksSame /\ rb'.value = rb.value /\ rb'.read_sync = rb.read_sync /\ rb'.reader = rb.reader
  BY <1>0, <1>2 DEF LinksSame
<1>10. got' \in Seq(Nat)
  BY <1>0, <1>2, <1>3
<1>11. PagesInv'
  BY <1>0, <1>2, <1>8, <1>9, <1>10 DEF PagesInv, Buffers, Calls, Links, Places, HEAD, UPDATE, Plain
<1>12. RingInv'
  <2>1. \A x, y : ~Updating(call[t], x, y)
    BY <1>2 DEF Updating
  <2>2. /\ call[t].pc \in Reading /\ call[t].pc # "move" /\ call'[t].pc # "move"
        /\ Before(call'[t], rb.head, rb.reader, rb.next, rb.prev)
    BY <1>2, <1>6, <1>7, <1>8 DEF Before
  <2> QED BY <2>1, <2>2, <1>2, <1>8, <1>9, <1>11, LinksKeep
<1>13. Pages' = Pages
  BY <1>2 DEF Pages
<1>14. \A u \in Threads : u # t => call'[u].pc = call[u].pc /\ call'[u].value = call[u].value /\ call'[u].was = call[u].was
  BY <1>8, OthersSame
<1>15. \A q \in Pages, i \in 1 .. Len(got) : rb.value[q] # got[i]
  <2> SUFFICES ASSUME NEW q \in Pages, NEW i \in 1 .. Len(got), rb.value[q] = got[i] PROVE FALSE
    OBVIOUS
  <2>1. PICK u \in Threads : call[u].pc = "clear"
    BY DEF OnceInv, TakenInv
  <2>2. u = t
    BY <2>1, <1>2, <1>6 DEF RingInv, LockInv
  <2> QED BY <2>1, <2>2, <1>2
<1>16. \A i \in 1 .. Len(got') : (i \in 1 .. Len(got) /\ got'[i] = got[i]) \/ (v # None /\ i = Len(got) + 1 /\ got'[i] = v)
  <2>1. CASE v = None
    BY <2>1, <1>2
  <2>2. CASE v # None
    BY <2>2, <1>0, <1>2, <1>3
  <2> QED BY <2>1, <2>2
<1>17. \A i \in 1 .. Len(got) : got[i] # v
  BY <1>1, <1>3, <1>15
<1>18. FreshInv'
  <2> SUFFICES ASSUME NEW u \in Threads, call'[u].pc \in Unwritten
               PROVE  /\ call'[u].value \in 1 .. started
                      /\ \A i \in 1 .. Len(got') : got'[i] # call'[u].value
                      /\ \A q \in Pages : rb.value[q] # call'[u].value
                      /\ \A x \in Threads : call'[x].pc \in Unwritten /\ call'[x].value = call'[u].value => x = u
    BY <1>2, <1>9, <1>13 DEF FreshInv, Unwritten, Placing
  <2>1. \A x \in Threads : call'[x].pc \in Unwritten => x # t /\ call[x].pc \in Unwritten /\ call'[x].value = call[x].value
    BY <1>6, <1>7, <1>8, <1>14
  <2>2. /\ call[u].value \in 1 .. started
        /\ \A i \in 1 .. Len(got) : got[i] # call[u].value
        /\ \A q \in Pages : rb.value[q] # call[u].value
        /\ \A x \in Threads : call[x].pc \in Unwritten /\ call[x].value = call[u].value => x = u
    BY <2>1 DEF OnceInv, FreshInv
  <2>3. v # call[u].value
    BY <2>2, <1>1, <1>3
  <2>4. \A i \in 1 .. Len(got') : got'[i] # call[u].value
    BY <2>2, <2>3, <1>16
  <2> QED BY <2>1, <2>2, <2>4
<1>19. TakenInv'
  <2> SUFFICES ASSUME NEW q \in Pages, NEW i \in 1 .. Len(got'), rb.value[q] = got'[i]
               PROVE  q = rb.reader /\ \E u \in Threads : call'[u].pc = "clear" /\ call'[u].was = rb.value[q]
    BY <1>9, <1>13 DEF TakenInv
  <2>1. v # None /\ rb.value[q] = v
    BY <1>15, <1>16
  <2>2. q = r
    BY <2>1, <1>1, <1>3 DEF OnceInv, ValueInv
  <2> QED BY <2>1, <2>2, <1>1, <1>7, <1>8
<1>20. ValueInv'
  <2>1. \A x, y \in Pages : rb.value[x] = rb.value[y] /\ rb.value[x] # None => x = y
    BY DEF OnceInv, ValueInv
  <2>2. \A q \in Pages : rb.value[q] <= started
    BY DEF OnceInv, ValueInv
  <2>3. v # None => v \in 1 .. started
    BY <2>2, <1>0, <1>1, <1>3 DEF None
  <2>4. \A i \in 1 .. Len(got') : got'[i] \in 1 .. started
    BY <2>3, <1>16 DEF OnceInv, ValueInv
  <2> QED BY <2>1, <2>2, <2>4, <1>2, <1>9, <1>13 DEF ValueInv, None
<1>21. ReadOnce'
  <2> SUFFICES ASSUME NEW i \in 1 .. Len(got'), NEW j \in 1 .. Len(got'), got'[i] = got'[j] PROVE i = j
    BY DEF ReadOnce
  <2>1. CASE i \in 1 .. Len(got) /\ got'[i] = got[i] /\ j \in 1 .. Len(got) /\ got'[j] = got[j]
    BY <2>1 DEF OnceInv, ReadOnce
  <2>2. CASE i = Len(got) + 1 /\ j = Len(got) + 1
    BY <2>2
  <2> QED BY <2>1, <2>2, <1>16, <1>17
<1> QED BY <1>12, <1>18, <1>19, <1>20, <1>21 DEF OnceInv

LEMMA ReadClears ==
  ASSUME RingInv, OnceInv, NEW t \in Threads, ReadClear(t)
  PROVE  RingInv' /\ OnceInv'
<1>0. /\ call[t] \in Calls(use.size) /\ use.size \in Nat /\ rb \in Buffers(use.size) /\ PagesInv /\ Pages = 0 .. use.size
      /\ call \in [Threads -> Calls(use.size)] /\ call = [u \in Threads |-> call[u]]
      /\ rb.reader \in Pages /\ rb.value \in [Pages -> Nat] /\ started \in Nat
  BY Typed, CallTyped DEF RingInv, PagesInv
<1>1. PICK r, w : r = rb.reader /\ w = rb.value[r]
  OBVIOUS
<1>2. PICK k : k = IF w = call[t].was THEN None ELSE w
  OBVIOUS
<1>3. PICK vs : vs = [rb.value EXCEPT ![r] = k]
  OBVIOUS
<1>4. UNCHANGED <<use, started, got>> /\ call[t].pc = "clear" /\ rb' = [rb EXCEPT !.value = vs]
  BY <1>1, <1>2, <1>3 DEF ReadClear, History, At
<1>5. r \in Pages /\ w \in Nat /\ k \in Nat /\ k \in {None, w}
  BY <1>0, <1>1, <1>2 DEF None
<1>6. vs \in [Pages -> Nat] /\ vs[r] = k /\ \A q \in Pages : q # r => vs[q] = rb.value[q]
  BY <1>0, <1>3, <1>5
<1>7. PICK d : d = Gone(call[t], "rcount")
  OBVIOUS
<1>8. Becomes(t, d)
  BY <1>0, <1>7, GoBecomes DEF ReadClear
<1>9. "rcount" \in Places /\ "rcount" \in Reading /\ "clear" \in Reading /\ "rcount" \notin Unwritten
  BY DEF Places, Reading, Unwritten, Placing
<1>10. d \in Calls(use.size) /\ d.pc = "rcount"
  BY <1>0, <1>7, <1>9, WithOther
<1>11. call' \in [Threads -> Calls(use.size)] /\ Others(t) /\ call'[t] = d
  BY <1>0, <1>8, <1>10, BecomesTyped
<1>12. rb' \in Buffers(use.size) /\ LinksSame /\ rb'.value = vs /\ rb'.read_sync = rb.read_sync /\ rb'.reader = rb.reader
  BY <1>0, <1>4, <1>6 DEF LinksSame, Buffers
<1>13. PagesInv'
  BY <1>0, <1>4, <1>11, <1>12 DEF PagesInv, Buffers, Calls, Links, Places, HEAD, UPDATE, Plain
<1>14. RingInv'
  <2>1. \A x, y : ~Updating(call[t], x, y)
    BY <1>4 DEF Updating
  <2>2. /\ call[t].pc \in Reading /\ call[t].pc # "move" /\ call'[t].pc # "move"
        /\ Before(call'[t], rb.head, rb.reader, rb.next, rb.prev)
    BY <1>4, <1>9, <1>10, <1>11 DEF Before
  <2> QED BY <2>1, <2>2, <1>4, <1>11, <1>12, <1>13, LinksKeep
<1>15. Pages' = Pages
  BY <1>4 DEF Pages
<1>16. \A u \in Threads : u # t => call'[u].pc = call[u].pc /\ call'[u].value = call[u].value
  BY <1>11, OthersSame
<1>17. \A q \in Pages : vs[q] = None \/ vs[q] = rb.value[q]
  BY <1>1, <1>5, <1>6
<1>18. None \notin 1 .. started
  BY DEF None
<1>19. FreshInv'
  <2> SUFFICES ASSUME NEW u \in Threads, call'[u].pc \in Unwritten
               PROVE  /\ call'[u].value \in 1 .. started
                      /\ \A i \in 1 .. Len(got) : got[i] # call'[u].value
                      /\ \A q \in Pages : vs[q] # call'[u].value
                      /\ \A x \in Threads : call'[x].pc \in Unwritten /\ call'[x].value = call'[u].value => x = u
    BY <1>4, <1>12, <1>15 DEF FreshInv, Unwritten, Placing
  <2>1. \A x \in Threads : call'[x].pc \in Unwritten => x # t /\ call[x].pc \in Unwritten /\ call'[x].value = call[x].value
    BY <1>9, <1>10, <1>11, <1>16
  <2>2. /\ call[u].value \in 1 .. started
        /\ \A i \in 1 .. Len(got) : got[i] # call[u].value
        /\ \A q \in Pages : rb.value[q] # call[u].value
        /\ \A x \in Threads : call[x].pc \in Unwritten /\ call[x].value = call[u].value => x = u
    BY <2>1 DEF OnceInv, FreshInv
  <2> QED BY <2>1, <2>2, <1>17, <1>18
<1>20. TakenInv'
  <2> SUFFICES ASSUME NEW q \in Pages, NEW i \in 1 .. Len(got), vs[q] = got[i] PROVE FALSE
    BY <1>4, <1>12, <1>15 DEF TakenInv
  <2>1. vs[q] # None /\ vs[q] = rb.value[q]
    BY <1>17, <1>18 DEF OnceInv, ValueInv
  <2>2. q = r /\ \E u \in Threads : call[u].pc = "clear" /\ call[u].was = rb.value[q]
    BY <2>1, <1>1 DEF OnceInv, TakenInv
  <2>3. call[t].was = w
    BY <2>2, <1>1, <1>4, <1>9 DEF RingInv, LockInv
  <2> QED BY <2>1, <2>2, <2>3, <1>2, <1>6
<1>21. ValueInv'
  <2>1. \A x, y \in Pages : vs[x] = vs[y] /\ vs[x] # None => x = y
    BY <1>17 DEF OnceInv, ValueInv
  <2>2. \A q \in Pages : vs[q] <= started
    <3>1. None <= started
      BY <1>0 DEF None
    <3> QED BY <3>1, <1>17 DEF OnceInv, ValueInv
  <2>3. \A i \in 1 .. Len(got) : got[i] \in 1 .. started
    BY DEF OnceInv, ValueInv
  <2> QED BY <2>1, <2>2, <2>3, <1>4, <1>12, <1>15 DEF ValueInv, None
<1>22. ReadOnce'
  BY <1>4 DEF OnceInv, ReadOnce
<1> QED BY <1>14, <1>19, <1>20, <1>21, <1>22 DEF OnceInv

-----------------------------------------------------------------------------
(* The head moves. *)

LEMMA CircleHead ==
  ASSUME NEW n \in Nat, n >= 3, NEW h, NEW r \in 0 .. n, NEW nx, NEW pv, Circle(n, h, r, nx, pv)
  PROVE  h # r /\ pv[h] # h
<1>1. PICK o : Ordered(n, o, h, r, nx, pv)
  BY DEF Circle
<1>2. PICK k : k = n - 1
  OBVIOUS
<1>3. k \in 0 .. n - 1 /\ 0 \in 0 .. n - 1 /\ k # 0
  BY <1>2, Indices
<1>4. /\ \A i, j \in 0 .. n - 1 : o[i] = o[j] => i = j
      /\ \A p \in 0 .. n : (p # r) <=> \E i \in 0 .. n - 1 : o[i] = p
      /\ o[0] = h /\ pv[h] = o[k]
  BY <1>1, <1>2 DEF Ordered
<1> QED BY <1>3, <1>4, Zenon

\* Within the lock the others do not read.
LEMMA OnlyReader ==
  ASSUME LockInv, NEW t \in Threads, call[t].pc \in Reading, Others(t)
  PROVE  \A u \in Threads : u # t => call[u].pc \notin Reading /\ call'[u].pc \notin Reading
BY OthersSame DEF LockInv

LEMMA ReadDetaches ==
  ASSUME RingInv, OnceInv, NEW t \in Threads, ReadDetach(t), rb.next[rb.reader] = call[t].old
  PROVE  RingInv' /\ OnceInv'
<1>0. /\ call[t] \in Calls(use.size) /\ use.size \in Nat /\ use.size >= 3 /\ rb \in Buffers(use.size) /\ PagesInv
      /\ Pages = 0 .. use.size
      /\ call \in [Threads -> Calls(use.size)] /\ call = [u \in Threads |-> call[u]]
      /\ rb.reader \in 0 .. use.size /\ rb.head \in 0 .. use.size /\ call[t].next.to \in 0 .. use.size
      /\ rb.next \in [0 .. use.size -> Links(use.size)] /\ rb.prev \in [0 .. use.size -> 0 .. use.size]
  BY Typed, CallTyped DEF RingInv
<1>1. PICK r, h, l, w : r = rb.reader /\ h = rb.head /\ l = Ptr(call[t].next.to, HEAD) /\ w = rb.prev[h]
  OBVIOUS
<1>2. PICK nx, pv : nx = [rb.next EXCEPT ![r] = l] /\ pv = [rb.prev EXCEPT ![r] = w]
  OBVIOUS
<1>3. UNCHANGED <<use, started, got>> /\ call[t].pc = "detach"
  BY DEF ReadDetach, History, At
<1>4. call[t].head = h /\ call[t].next.to = rb.next[h].to
  BY <1>1, <1>3 DEF RingInv, ReadInv, Before
<1>5. rb' = [rb EXCEPT !.next = nx, !.prev = pv]
  BY <1>1, <1>2, <1>4 DEF ReadDetach
<1>6. l \in Links(use.size) /\ l.to = call[t].next.to /\ l.flag = HEAD /\ w \in 0 .. use.size /\ r \in 0 .. use.size /\ h \in 0 .. use.size
  BY <1>0, <1>1, PtrTyped
<1>7. nx \in [0 .. use.size -> Links(use.size)] /\ nx[r] = l /\ Agree(use.size, rb.next, nx, r)
  BY <1>0, <1>2, <1>6 DEF Agree
<1>8. pv \in [0 .. use.size -> 0 .. use.size] /\ pv[r] = w /\ Agree(use.size, rb.prev, pv, r)
  BY <1>0, <1>2, <1>6 DEF Agree
<1>9. PICK d : d = Gone(call[t], "swap")
  OBVIOUS
<1>10. Becomes(t, d)
  BY <1>0, <1>9, GoBecomes DEF ReadDetach
<1>11. "swap" \in Places /\ "swap" \in Reading /\ "detach" \in Reading /\ "swap" \notin Unwritten
  BY DEF Places, Reading, Unwritten, Placing
<1>12. d \in Calls(use.size) /\ d.pc = "swap" /\ SameLocals(call[t], d)
  BY <1>0, <1>9, <1>11, WithOther
<1>13. call' \in [Threads -> Calls(use.size)] /\ Others(t) /\ call'[t] = d
  BY <1>0, <1>10, <1>12, BecomesTyped
<1>14. /\ rb' \in Buffers(use.size) /\ rb'.next = nx /\ rb'.prev = pv /\ rb'.value = rb.value
       /\ rb'.read_sync = rb.read_sync /\ rb'.reader = rb.reader /\ rb'.head = rb.head
  BY <1>0, <1>5, <1>7, <1>8 DEF Buffers
<1>15. PagesInv'
  BY <1>0, <1>3, <1>13, <1>14 DEF PagesInv, Buffers, Calls, Links, Places, HEAD, UPDATE, Plain
<1>16. LockInv'
  BY <1>3, <1>11, <1>13, <1>14, LockKept DEF RingInv
<1>17. \A u \in Threads : u # t => call[u].pc \notin Reading /\ call'[u].pc \notin Reading
  BY <1>3, <1>11, <1>13, OnlyReader DEF RingInv
<1>18. \A u \in Threads : ~Moving(u) /\ ~Moving(u)'
  <2>1. "move" \in Reading /\ call[t].pc # "move" /\ call'[t].pc # "move"
    BY <1>3, <1>12, <1>13 DEF Reading
  <2> QED BY <2>1, <1>17 DEF Moving
<1>19. Circle(use.size, h, r, rb.next, rb.prev)
  BY <1>1, <1>18 DEF RingInv, CircleInv
<1>20. h # r
  BY <1>0, <1>6, <1>19, CircleHead
<1>21. CircleInv'
  <2>1. Circle(use.size, h, r, nx, pv)
    BY <1>0, <1>6, <1>7, <1>8, <1>19, CircleOutside
  <2> QED BY <2>1, <1>1, <1>3, <1>14, <1>18 DEF CircleInv
<1>22. ReadInv'
  <2> SUFFICES ASSUME NEW u \in Threads PROVE Before(call'[u], h, r, nx, pv)
    BY <1>1, <1>14 DEF ReadInv
  <2>1. CASE u # t
    BY <2>1, <1>17, NoReader
  <2>2. CASE u = t
    <3>1. nx[h] = rb.next[h] /\ pv[h] = w
      BY <1>1, <1>6, <1>7, <1>8, <1>20 DEF Agree
    <3>2. d.head = h /\ d.next.to = nx[h].to /\ nx[r].to = d.next.to /\ nx[r].flag = HEAD /\ pv[r] = pv[h]
      BY <3>1, <1>4, <1>6, <1>7, <1>8, <1>12 DEF SameLocals
    <3>3. HEAD # Plain
      BY DEF HEAD, Plain
    <3> QED BY <2>2, <3>2, <3>3, <1>12, <1>13 DEF Before
  <2> QED BY <2>1, <2>2
<1>23. FlagInv'
  <2>1. Pages' = Pages
    BY <1>3 DEF Pages
  <2> SUFFICES ASSUME NEW q \in Pages, nx[q].flag = UPDATE
               PROVE  \E u \in Threads : Updating(call'[u], q, nx[q].to)
    BY <2>1, <1>14 DEF FlagInv, UPDATE
  <2>2. q # r
    BY <1>6, <1>7 DEF HEAD, UPDATE
  <2>3. nx[q] = rb.next[q]
    BY <2>2, <1>0, <1>7 DEF Agree
  <2>4. PICK u \in Threads : Updating(call[u], q, rb.next[q].to)
    BY <2>3 DEF RingInv, FlagInv
  <2>5. u # t
    BY <2>4, <1>3 DEF Updating
  <2> QED BY <2>3, <2>4, <2>5, <1>13, OthersSame
<1>24. OnceInv'
  BY <1>3, <1>11, <1>12, <1>13, <1>14, OnceKept DEF ValuesSame
<1> QED BY <1>15, <1>16, <1>21, <1>22, <1>23, <1>24 DEF RingInv

LEMMA ReadSwaps ==
  ASSUME RingInv, OnceInv, NEW t \in Threads, ReadSwap(t), rb.next[rb.prev[call[t].head]] = Ptr(call[t].head, HEAD)
  PROVE  RingInv' /\ OnceInv'
<1>0. /\ call[t] \in Calls(use.size) /\ use.size \in Nat /\ use.size >= 3 /\ rb \in Buffers(use.size) /\ PagesInv
      /\ Pages = 0 .. use.size
      /\ call \in [Threads -> Calls(use.size)] /\ call = [u \in Threads |-> call[u]]
      /\ rb.reader \in 0 .. use.size /\ rb.head \in 0 .. use.size /\ call[t].next.to \in 0 .. use.size
      /\ rb.next \in [0 .. use.size -> Links(use.size)] /\ rb.prev \in [0 .. use.size -> 0 .. use.size]
  BY Typed, CallTyped DEF RingInv
<1>1. PICK r, h, m : r = rb.reader /\ h = rb.head /\ m = call[t].next.to
  OBVIOUS
<1>2. PICK l, p : l = Ptr(r, Plain) /\ p = rb.prev[h]
  OBVIOUS
<1>3. UNCHANGED <<use, started, got>> /\ call[t].pc = "swap"
  BY DEF ReadSwap, History, At
<1>4. call[t].head = h /\ m = rb.next[h].to /\ Joins(h, r, rb.next, rb.prev)
  BY <1>1, <1>3 DEF RingInv, ReadInv, Before, Joins
<1>5. PICK nx, pv : nx = [rb.next EXCEPT ![p] = l] /\ pv = [rb.prev EXCEPT ![m] = r]
  OBVIOUS
<1>6. rb' = [rb EXCEPT !.next = nx]
  BY <1>1, <1>2, <1>4, <1>5 DEF ReadSwap
<1>7. l \in Links(use.size) /\ l.to = r /\ l.flag = Plain /\ p \in 0 .. use.size /\ r \in 0 .. use.size /\ h \in 0 .. use.size /\ m \in 0 .. use.size
  BY <1>0, <1>1, <1>2, PtrTyped
<1>8. nx \in [0 .. use.size -> Links(use.size)] /\ nx[p] = l /\ Put(use.size, rb.next, nx, p, l)
  BY <1>0, <1>5, <1>7 DEF Put
<1>9. Put(use.size, rb.prev, pv, m, r)
  BY <1>0, <1>5, <1>7 DEF Put
<1>10. PICK d : d = Gone(call[t], "move")
  OBVIOUS
<1>11. Becomes(t, d)
  BY <1>0, <1>10, GoBecomes DEF ReadSwap
<1>12. "move" \in Places /\ "move" \in Reading /\ "swap" \in Reading /\ "move" \notin Unwritten
  BY DEF Places, Reading, Unwritten, Placing
<1>13. d \in Calls(use.size) /\ d.pc = "move" /\ SameLocals(call[t], d)
  BY <1>0, <1>10, <1>12, WithOther
<1>14. call' \in [Threads -> Calls(use.size)] /\ Others(t) /\ call'[t] = d
  BY <1>0, <1>11, <1>13, BecomesTyped
<1>15. /\ rb' \in Buffers(use.size) /\ rb'.next = nx /\ rb'.prev = rb.prev /\ rb'.value = rb.value
       /\ rb'.read_sync = rb.read_sync /\ rb'.reader = rb.reader /\ rb'.head = rb.head
  BY <1>0, <1>6, <1>8 DEF Buffers
<1>16. PagesInv'
  BY <1>0, <1>3, <1>14, <1>15 DEF PagesInv, Buffers, Calls, Links, Places, HEAD, UPDATE, Plain
<1>17. LockInv'
  BY <1>3, <1>12, <1>14, <1>15, LockKept DEF RingInv
<1>18. \A u \in Threads : u # t => call[u].pc \notin Reading /\ call'[u].pc \notin Reading
  BY <1>3, <1>12, <1>14, OnlyReader DEF RingInv
<1>19. \A u \in Threads : ~Moving(u) /\ (Moving(u)' <=> u = t)
  BY <1>3, <1>12, <1>13, <1>14, <1>18 DEF Moving
<1>20. Circle(use.size, h, r, rb.next, rb.prev)
  BY <1>1, <1>19 DEF RingInv, CircleInv
<1>21. p # h
  BY <1>0, <1>2, <1>7, <1>20, CircleHead
<1>22. d.next.to = m /\ d.head = h
  BY <1>1, <1>4, <1>13 DEF SameLocals
<1>23. CircleInv'
  <2>1. Circle(use.size, m, h, nx, pv)
    <3>1. Put(use.size, rb.next, nx, rb.prev[h], Ptr(r, Plain)) /\ Put(use.size, rb.prev, pv, rb.next[h].to, r)
      BY <1>2, <1>4, <1>8, <1>9
    <3> QED BY <3>1, <1>0, <1>4, <1>7, <1>20, CircleSwap
  <2>2. Circle(use.size, call'[t].next.to, rb'.head, rb'.next, [rb'.prev EXCEPT ![call'[t].next.to] = rb'.reader])
    BY <2>1, <1>1, <1>5, <1>14, <1>15, <1>22
  <2> QED BY <2>2, <1>3, <1>19 DEF CircleInv
<1>24. ReadInv'
  <2> SUFFICES ASSUME NEW u \in Threads PROVE Before(call'[u], h, r, nx, rb.prev)
    BY <1>1, <1>15 DEF ReadInv
  <2>1. CASE u # t
    BY <2>1, <1>18, NoReader
  <2>2. CASE u = t
    <3>1. nx[h] = rb.next[h]
      BY <1>7, <1>8, <1>21 DEF Put
    <3> QED BY <2>2, <3>1, <1>4, <1>13, <1>14, <1>22 DEF Before
  <2> QED BY <2>1, <2>2
<1>25. FlagInv'
  <2>1. Pages' = Pages
    BY <1>3 DEF Pages
  <2> SUFFICES ASSUME NEW q \in Pages, nx[q].flag = UPDATE
               PROVE  \E u \in Threads : Updating(call'[u], q, nx[q].to)
    BY <2>1, <1>15 DEF FlagInv, UPDATE
  <2>2. q # p
    BY <1>7, <1>8 DEF Plain, UPDATE
  <2>3. nx[q] = rb.next[q]
    BY <2>2, <1>0, <1>8 DEF Put
  <2>4. PICK u \in Threads : Updating(call[u], q, rb.next[q].to)
    BY <2>3 DEF RingInv, FlagInv
  <2>5. u # t
    BY <2>4, <1>3 DEF Updating
  <2> QED BY <2>3, <2>4, <2>5, <1>14, OthersSame
<1>26. OnceInv'
  BY <1>3, <1>12, <1>13, <1>14, <1>15, OnceKept DEF ValuesSame
<1> QED BY <1>16, <1>17, <1>23, <1>24, <1>25, <1>26 DEF RingInv

LEMMA ReadMoves ==
  ASSUME RingInv, OnceInv, NEW t \in Threads, ReadMove(t)
  PROVE  RingInv' /\ OnceInv'
<1>0. /\ call[t] \in Calls(use.size) /\ use.size \in Nat /\ use.size >= 3 /\ rb \in Buffers(use.size) /\ PagesInv
      /\ Pages = 0 .. use.size
      /\ call \in [Threads -> Calls(use.size)] /\ call = [u \in Threads |-> call[u]]
      /\ rb.reader \in 0 .. use.size /\ rb.head \in 0 .. use.size /\ call[t].next.to \in 0 .. use.size
      /\ rb.prev \in [0 .. use.size -> 0 .. use.size]
  BY Typed, CallTyped DEF RingInv
<1>1. PICK r, h, m : r = rb.reader /\ h = rb.head /\ m = call[t].next.to
  OBVIOUS
<1>2. UNCHANGED <<use, started, got>> /\ call[t].pc = "move"
  BY DEF ReadMove, History, At
<1>3. call[t].head = h
  BY <1>1, <1>2 DEF RingInv, ReadInv, Before
<1>4. PICK pv : pv = [rb.prev EXCEPT ![m] = r]
  OBVIOUS
<1>5. rb' = [rb EXCEPT !.head = m, !.prev = pv, !.reader = h]
  BY <1>1, <1>3, <1>4 DEF ReadMove
<1>6. pv \in [0 .. use.size -> 0 .. use.size] /\ m \in 0 .. use.size /\ h \in 0 .. use.size
  BY <1>0, <1>1, <1>4
<1>7. PICK d : d = Gone(call[t], "take")
  OBVIOUS
<1>8. Becomes(t, d)
  BY <1>0, <1>7, GoBecomes DEF ReadMove
<1>9. "take" \in Places /\ "take" \in Reading /\ "move" \in Reading /\ "clear" \in Reading /\ "take" \notin Unwritten
  BY DEF Places, Reading, Unwritten, Placing
<1>10. d \in Calls(use.size) /\ d.pc = "take"
  BY <1>0, <1>7, <1>9, WithOther
<1>11. call' \in [Threads -> Calls(use.size)] /\ Others(t) /\ call'[t] = d
  BY <1>0, <1>8, <1>10, BecomesTyped
<1>12. /\ rb' \in Buffers(use.size) /\ rb'.next = rb.next /\ rb'.prev = pv /\ rb'.value = rb.value
       /\ rb'.read_sync = rb.read_sync /\ rb'.reader = h /\ rb'.head = m
  BY <1>0, <1>5, <1>6 DEF Buffers
<1>13. PagesInv'
  BY <1>0, <1>2, <1>11, <1>12 DEF PagesInv, Buffers, Calls, Links, Places, HEAD, UPDATE, Plain
<1>14. LockInv'
  BY <1>2, <1>9, <1>11, <1>12, LockKept DEF RingInv
<1>15. \A u \in Threads : u # t => call[u].pc \notin Reading /\ call'[u].pc \notin Reading
  BY <1>2, <1>9, <1>11, OnlyReader DEF RingInv
<1>16. \A u \in Threads : ~Moving(u)'
  BY <1>9, <1>10, <1>11, <1>15 DEF Moving
<1>17. CircleInv'
  <2>1. Circle(use.size, m, h, rb.next, pv)
    BY <1>1, <1>2, <1>4 DEF RingInv, CircleInv, Moving
  <2> QED BY <2>1, <1>2, <1>12, <1>16 DEF CircleInv
<1>18. ReadInv'
  <2> SUFFICES ASSUME NEW u \in Threads PROVE Before(call'[u], m, h, rb.next, pv)
    BY <1>12 DEF ReadInv
  <2>1. CASE u # t
    BY <2>1, <1>15, NoReader
  <2>2. CASE u = t
    BY <2>2, <1>10, <1>11 DEF Before
  <2> QED BY <2>1, <2>2
<1>19. FlagInv'
  <2>1. \A x, y : ~Updating(call[t], x, y)
    BY <1>2 DEF Updating
  <2> QED BY <2>1, <1>0, <1>2, <1>11, <1>12, FlagKept DEF RingInv
<1>20. OnceInv'
  <2>0. Pages' = Pages /\ rb'.value = rb.value /\ got' = got /\ started' = started
    BY <1>2, <1>12 DEF Pages
  <2>1. \A u \in Threads : call'[u].pc \in Unwritten => call[u].pc \in Unwritten /\ call'[u].value = call[u].value
    BY <1>9, <1>10, <1>11, OthersSame
  <2>2. FreshInv'
    <3> SUFFICES ASSUME NEW u \in Threads, call'[u].pc \in Unwritten
                 PROVE  /\ call'[u].value \in 1 .. started
                        /\ \A i \in 1 .. Len(got) : got[i] # call'[u].value
                        /\ \A p \in Pages : rb.value[p] # call'[u].value
                        /\ \A v \in Threads : call'[v].pc \in Unwritten /\ call'[v].value = call'[u].value => v = u
      BY <2>0 DEF FreshInv, Unwritten, Placing
    <3> QED BY <2>1 DEF OnceInv, FreshInv
  <2>3. TakenInv'
    <3>1. \A u \in Threads : call[u].pc # "clear"
      BY <1>2, <1>9, <1>15
    <3>2. \A p \in Pages, i \in 1 .. Len(got) : rb.value[p] # got[i]
      BY <3>1 DEF OnceInv, TakenInv
    <3> QED BY <3>2, <2>0 DEF TakenInv
  <2>4. ValueInv' /\ ReadOnce'
    BY <2>0 DEF OnceInv, ValueInv, ReadOnce, None
  <2> QED BY <2>2, <2>3, <2>4 DEF OnceInv
<1> QED BY <1>13, <1>14, <1>17, <1>18, <1>19, <1>20 DEF RingInv

-----------------------------------------------------------------------------
(* The invariant holds. *)

\* A bounded, non-empty set of numbers has a largest member.
LEMMA MaxExists ==
  ASSUME NEW N \in Nat, NEW S \in SUBSET (0 .. N), S # {}
  PROVE  \E m \in S : \A n \in S : n <= m
<1> DEFINE T == {N - s : s \in S}
           R == OpToRel(<, Nat)
<1>0. \A s \in S : s \in Int /\ N - s \in Nat
  OBVIOUS
<1>1. T \subseteq Nat /\ T # {}
  BY <1>0
<1>2. IsWellFoundedOn(R, Nat)
  BY NatLessThanWellFounded
<1>3. \E x \in T : \A y \in T : ~(<<y, x>> \in R)
  <2> HIDE DEF T, R
  <2> QED BY <1>1, <1>2, WFMin
<1>4. PICK x \in T : \A y \in T : ~(<<y, x>> \in R)
  BY <1>3
<1>5. \A y \in T : ~(y < x)
  BY <1>1, <1>4 DEF OpToRel
<1>6. PICK m \in S : x = N - m
  OBVIOUS
<1>7. \A n \in S : N - n \in T
  OBVIOUS
<1>8. \A n \in S : ~(N - n < N - m)
  BY <1>5, <1>6, <1>7
<1>9. \A n \in S : n <= m
  BY <1>0, <1>8
<1> QED BY <1>9

\* Induction up to a bound, over a set instead of a predicate.
LEMMA BoundedInduction ==
  ASSUME NEW N \in Nat, NEW S, 0 \in S, \A n \in 0 .. N - 1 : n \in S => n + 1 \in S
  PROVE  0 .. N \subseteq S
<1> DEFINE G == {n \in 0 .. N : 0 .. n \subseteq S}
<1>1. 0 \in G
  OBVIOUS
<1>2. PICK m \in G : \A n \in G : n <= m
  <2> G \in SUBSET (0 .. N) /\ G # {}
    BY <1>1
  <2> HIDE DEF G
  <2> QED BY MaxExists
<1>3. CASE m < N
  <2>1. m \in S /\ m + 1 \in S
    BY <1>3
  <2>2. 0 .. m + 1 \subseteq S
    BY <2>1
  <2>3. m + 1 \in G
    BY <1>3, <2>2
  <2> QED BY <1>2, <2>3
<1> QED BY <1>2, <1>3

LEMMA RingStep ==
  ASSUME RingInv, OnceInv, NEW t \in Threads, Write(t) \/ WriteStep(t) \/ Read(t) \/ ReadStep(t)
  PROVE  RingInv' /\ OnceInv'
<1>0. PagesInv
  BY DEF RingInv
<1>1. CASE Write(t)
  BY <1>1, WriteStarts
<1>2. CASE WriteTail(t) \/ WriteCommit(t) \/ WriteNext(t) \/ WriteHead(t) \/ WriteWrites(t) \/ WriteFull(t)
  BY <1>0, <1>2, WriteLooks, WriteKeeps
<1>3. CASE WriteAlone(t) \/ WriteClaim(t) \/ WriteLost(t)
  BY <1>0, <1>3, WriteFindsPage, WriteKeeps
<1>4. CASE WriteFlag(t)
  BY <1>4, WriteFlags
<1>5. CASE WriteOld(t)
  BY <1>0, <1>5, WriteReadsOld, WriteKeeps
<1>6. CASE WriteValue(t)
  BY <1>6, WriteStores
<1>7. CASE WriteUnflag(t)
  BY <1>7, WriteUnflags
<1>8. CASE WriteCount(t) \/ WriteLast(t) \/ WriteRefused(t) \/ WriteRefusedTail(t) \/ WritePublish(t) \/ WriteReturn(t)
  BY <1>0, <1>8, WriteEnds, WriteKeeps
<1>9. CASE Read(t)
  BY <1>0, <1>9, ReadBegins, WriteKeeps
<1>10. CASE ReadLock(t)
  <2>1. CASE rb.read_sync
    BY <1>0, <1>10, <2>1, ReadBegins, WriteKeeps
  <2>2. CASE ~rb.read_sync
    BY <1>10, <2>2, ReadLocks
  <2> QED BY <2>1, <2>2
<1>11. CASE ReadCommit(t) \/ ReadTail(t) \/ ReadNext(t) \/ ReadOld(t)
  BY <1>11, ReadLooks, ReadKeeps
<1>12. CASE ReadEmpty(t) \/ ReadCount(t)
  BY <1>12, ReadGoes, ReadKeeps
<1>13. CASE ReadDetach(t)
  <2>1. CASE rb.next[rb.reader] = call[t].old
    BY <1>13, <2>1, ReadDetaches
  <2>2. CASE rb.next[rb.reader] # call[t].old
    BY <1>13, <2>2, ReadGoes, ReadKeeps
  <2> QED BY <2>1, <2>2
<1>14. CASE ReadSwap(t)
  <2>1. CASE rb.next[rb.prev[call[t].head]] = Ptr(call[t].head, HEAD)
    BY <1>14, <2>1, ReadSwaps
  <2>2. CASE rb.next[rb.prev[call[t].head]] # Ptr(call[t].head, HEAD)
    BY <1>14, <2>2, ReadGoes, ReadKeeps
  <2> QED BY <2>1, <2>2
<1>15. CASE ReadMove(t)
  BY <1>15, ReadMoves
<1>16. CASE ReadTake(t)
  BY <1>16, ReadTakes
<1>17. CASE ReadClear(t)
  BY <1>17, ReadClears
<1>18. CASE ReadReturn(t) \/ ReadAgain(t)
  BY <1>18, ReadReturns
<1> QED BY <1>1, <1>2, <1>3, <1>4, <1>5, <1>6, <1>7, <1>8, <1>9, <1>10, <1>11, <1>12, <1>13, <1>14, <1>15, <1>16,
           <1>17, <1>18 DEF WriteStep, ReadStep

LEMMA RingSame == ASSUME RingInv, OnceInv, UNCHANGED vars PROVE RingInv' /\ OnceInv'
<1>1. use' = use /\ rb' = rb /\ call' = call /\ started' = started /\ got' = got /\ Pages' = Pages
  BY DEF vars, Pages
<1>2. PagesInv'
  BY <1>1 DEF RingInv, PagesInv, Buffers, Calls, Links, Places, HEAD, UPDATE, Plain
<1>3. LockInv' /\ ReadInv'
  BY <1>1 DEF RingInv, LockInv, ReadInv, Reading
<1>4. CircleInv'
  BY <1>1 DEF RingInv, CircleInv, Moving
<1>5. FlagInv'
  BY <1>1 DEF RingInv, FlagInv, UPDATE
<1>6. FreshInv' /\ TakenInv'
  BY <1>1 DEF OnceInv, FreshInv, TakenInv, Unwritten, Placing
<1>7. ValueInv' /\ ReadOnce'
  BY <1>1 DEF OnceInv, ValueInv, ReadOnce, None
<1> QED BY <1>2, <1>3, <1>4, <1>5, <1>6, <1>7 DEF RingInv, OnceInv

\* rqueue_create makes a ring.
LEMMA CreatedLinks ==
  ASSUME NEW n \in Nat, n >= 3, NEW nx, NEW pv,
         nx = [p \in 0 .. n |-> IF p = n - 1 THEN Ptr(0, HEAD) ELSE Ptr(IF p = n THEN 0 ELSE p + 1, Plain)],
         pv = [p \in 0 .. n |-> IF p \in {0, n} THEN n - 1 ELSE p - 1]
  PROVE  /\ nx \in [0 .. n -> Links(n)] /\ pv \in [0 .. n -> 0 .. n]
         /\ Circle(n, 0, n, nx, pv)
         /\ \A p \in 0 .. n : nx[p].flag # UPDATE
<1>0. HEAD # UPDATE /\ Plain # UPDATE /\ HEAD # Plain
  BY DEF HEAD, UPDATE, Plain
<1>1. \A p \in 0 .. n : p # n => p + 1 \in 0 .. n
  OBVIOUS
<1>2. \A p \in 0 .. n : /\ nx[p].to = IF p \in {n - 1, n} THEN 0 ELSE p + 1
                        /\ nx[p].flag = IF p = n - 1 THEN HEAD ELSE Plain
  BY DEF Ptr
<1>3. \A p \in 0 .. n : nx[p] \in Links(n)
  <2> TAKE p \in 0 .. n
  <2>1. CASE p = n - 1
    BY <2>1, PtrTyped
  <2>2. CASE p # n - 1
    <3>1. PICK k \in 0 .. n : k = IF p = n THEN 0 ELSE p + 1
      BY <1>1
    <3> QED BY <2>2, <3>1, PtrTyped
  <2> QED BY <2>1, <2>2
<1>4. \A p \in 0 .. n : pv[p] \in 0 .. n /\ pv[p] = IF p \in {0, n} THEN n - 1 ELSE p - 1
  OBVIOUS
<1>5. nx \in [0 .. n -> Links(n)] /\ pv \in [0 .. n -> 0 .. n]
  BY <1>3, <1>4
<1> DEFINE o == [i \in 0 .. n - 1 |-> i]
<1>6. Ordered(n, o, 0, n, nx, pv)
  <2>1. o \in [0 .. n - 1 -> 0 .. n] /\ \A i \in 0 .. n - 1 : o[i] = i
    OBVIOUS
  <2> HIDE DEF o
  <2>2. \A i, j \in 0 .. n - 1 : o[i] = o[j] => i = j
    BY <2>1
  <2>3. \A p \in 0 .. n : (p # n) <=> \E i \in 0 .. n - 1 : o[i] = p
    <3>1. \A p \in 0 .. n : (p # n) <=> p \in 0 .. n - 1
      OBVIOUS
    <3> QED BY <2>1, <3>1
  <2>4. o[0] = 0 /\ o[n - 1] = n - 1 /\ n - 1 \in 0 .. n /\ 0 \in 0 .. n
    BY <2>1
  <2>5. nx[n - 1].to = 0 /\ nx[n - 1].flag = HEAD /\ pv[0] = n - 1
    BY <2>4, <1>2, <1>4
  <2>6. ASSUME NEW i \in 1 .. n - 1
        PROVE  nx[o[i - 1]].to = o[i] /\ pv[o[i]] = o[i - 1] /\ nx[o[i - 1]].flag = Plain
    <3>1. i - 1 \in 0 .. n - 1 /\ i \in 0 .. n - 1 /\ i \in 0 .. n /\ i - 1 \in 0 .. n /\ i \notin {0, n}
          /\ i - 1 \notin {n - 1, n} /\ (i - 1) + 1 = i
      OBVIOUS
    <3>2. o[i] = i /\ o[i - 1] = i - 1
      BY <2>1, <3>1
    <3>3. nx[i - 1].to = i /\ nx[i - 1].flag = Plain /\ pv[i] = i - 1
      BY <3>1, <1>2, <1>4
    <3> QED BY <3>2, <3>3
  <2> QED BY <1>0, <2>1, <2>2, <2>3, <2>4, <2>5, <2>6 DEF Ordered
<1>7. Circle(n, 0, n, nx, pv)
  BY <1>6 DEF Circle
<1> QED BY <1>0, <1>2, <1>5, <1>7

LEMMA RingInit == ASSUME Init PROVE RingInv /\ OnceInv
<1>1. /\ use \in Rings /\ use.size \in Nat /\ use.size >= 3 /\ Pages = 0 .. use.size
      /\ call = [t \in Threads |-> Local] /\ started = 0 /\ got = <<>>
  BY Sizes DEF Init
<1>2. PICK n, nx, pv, vs :
        /\ n = use.size
        /\ nx = [p \in 0 .. n |-> IF p = n - 1 THEN Ptr(0, HEAD) ELSE Ptr(IF p = n THEN 0 ELSE p + 1, Plain)]
        /\ pv = [p \in 0 .. n |-> IF p \in {0, n} THEN n - 1 ELSE p - 1]
        /\ vs = [p \in 0 .. n |-> 0]
  OBVIOUS
<1>3. rb = [head |-> 0, tail |-> 0, commit |-> 0, reader |-> n, next |-> nx, prev |-> pv, value |-> vs,
            writes |-> 0, reads |-> 0, read_sync |-> FALSE, num_writers |-> 0]
  BY <1>1, <1>2 DEF Init, rqueue_create, None
<1>4. n \in Nat /\ n >= 3 /\ 0 \in 0 .. n /\ n \in 0 .. n
  BY <1>1, <1>2
<1>5. /\ nx \in [0 .. n -> Links(n)] /\ pv \in [0 .. n -> 0 .. n] /\ Circle(n, 0, n, nx, pv)
      /\ \A p \in 0 .. n : nx[p].flag # UPDATE
  BY <1>2, <1>4, CreatedLinks
<1>6. vs \in [0 .. n -> Nat] /\ \A p \in 0 .. n : vs[p] = 0
  BY <1>2
<1>7. rb \in Buffers(n)
  <2>1. PICK b \in BOOLEAN : b = FALSE
    OBVIOUS
  <2>2. rb = [head |-> 0, tail |-> 0, commit |-> 0, reader |-> n, next |-> nx, prev |-> pv, value |-> vs,
              writes |-> 0, reads |-> 0, read_sync |-> b, num_writers |-> 0]
    BY <1>3, <2>1
  <2> QED BY <2>2, <1>4, <1>5, <1>6 DEF Buffers
<1>8. Local \in Calls(n) /\ Local.pc = "idle"
  BY <1>4, LocalTyped
<1>9. call \in [Threads -> Calls(n)] /\ \A t \in Threads : call[t].pc = "idle"
  BY <1>1, <1>8
<1>10. got \in Seq(Nat) /\ Len(got) = 0 /\ 1 .. Len(got) = {}
  BY <1>1
<1>11. PagesInv
  BY <1>1, <1>2, <1>7, <1>9, <1>10 DEF PagesInv
<1>12. "idle" \notin Reading /\ "idle" \notin Unwritten /\ "idle" # "move"
  BY DEF Reading, Unwritten, Placing
<1>13. LockInv
  BY <1>9, <1>12 DEF LockInv
<1>14. rb.head = 0 /\ rb.reader = n /\ rb.next = nx /\ rb.prev = pv /\ rb.value = vs
  BY <1>3
<1>15. CircleInv
  BY <1>2, <1>5, <1>9, <1>12, <1>14 DEF CircleInv, Moving
<1>16. ReadInv
  BY <1>9, <1>12, NoReader DEF ReadInv
<1>17. FlagInv
  BY <1>1, <1>2, <1>5, <1>14 DEF FlagInv
<1>18. FreshInv /\ TakenInv /\ ReadOnce
  BY <1>9, <1>10, <1>12 DEF FreshInv, TakenInv, ReadOnce
<1>19. ValueInv
  BY <1>1, <1>2, <1>6, <1>10, <1>14 DEF ValueInv, None
<1> QED BY <1>11, <1>13, <1>15, <1>16, <1>17, <1>18, <1>19 DEF RingInv, OnceInv

LEMMA RingInductive == Spec => [](RingInv /\ OnceInv)
<1>1. Init => RingInv /\ OnceInv
  BY RingInit
<1>2. RingInv /\ OnceInv /\ [Next]_vars => (RingInv /\ OnceInv)'
  <2> SUFFICES ASSUME RingInv, OnceInv, [Next]_vars PROVE RingInv' /\ OnceInv'
    OBVIOUS
  <2>1. CASE Next
    BY <2>1, RingStep DEF Next
  <2>2. CASE UNCHANGED vars
    BY <2>2, RingSame
  <2> QED BY <2>1, <2>2
<1> QED BY <1>1, <1>2, PTL DEF Spec

\* No value that was handed to rqueue_write once is returned by two calls of rqueue_read,
\* whatever the writers and readers do at the same time.  That its caller is the only owner
\* does not follow: at a full node_pool the writer that overwrites a value frees it, also
\* when a read has taken it.
THEOREM ReadsOnce == Spec => []ReadOnce
<1>1. OnceInv => ReadOnce
  BY DEF OnceInv
<1> QED BY <1>1, RingInductive, PTL

\* Around leads through the ring and back to the head.
LEMMA AroundIs ==
  ASSUME NEW n \in Nat, n >= 3, n = use.size, NEW o, Ordered(n, o, rb.head, rb.reader, rb.next, rb.prev)
  PROVE  Around[n] = rb.head /\ \A i \in 0 .. n - 1 : Around[i] = o[i]
<1>1. PICK h, nx : h = rb.head /\ nx = rb.next
  OBVIOUS
<1>2. /\ o[0] = h /\ nx[o[n - 1]].to = h
      /\ \A i \in 1 .. n - 1 : nx[o[i - 1]].to = o[i]
  BY <1>1 DEF Ordered
<1> DEFINE Rec(c) == [i \in 0 .. n |-> IF i = 0 THEN h ELSE nx[c[i - 1]].to]
           F == [i \in 0 .. n |-> IF i = n THEN h ELSE o[i]]
           c == CHOOSE d : d = Rec(d)
<1>3. Around = c
  BY <1>1 DEF Around
<1>4. F[0] = h
  BY <1>2
<1>5. ASSUME NEW i \in 1 .. n PROVE F[i] = nx[F[i - 1]].to
  <2>1. i - 1 \in 0 .. n /\ i \in 0 .. n /\ i - 1 # n /\ (i # n => i \in 1 .. n - 1)
    OBVIOUS
  <2>2. F[i - 1] = o[i - 1] /\ F[i] = IF i = n THEN h ELSE o[i]
    BY <2>1
  <2> HIDE DEF F
  <2> QED BY <2>1, <2>2, <1>2
<1>6. F = Rec(F)
  <2>1. F = [i \in 0 .. n |-> F[i]]
    OBVIOUS
  <2> HIDE DEF F
  <2>2. \A i \in 0 .. n : i = 0 \/ i \in 1 .. n
    OBVIOUS
  <2>3. \A i \in 0 .. n : F[i] = IF i = 0 THEN h ELSE nx[F[i - 1]].to
    BY <1>4, <1>5, <2>2
  <2> QED BY <2>1, <2>3
<1>7. c = Rec(c)
  BY <1>6
<1> HIDE DEF c
<1> DEFINE T == {k \in 0 .. n : c[k] = F[k]}
<1>8. 0 \in T
  BY <1>7, <1>4
<1>9. \A k \in 0 .. n - 1 : k \in T => k + 1 \in T
  <2> TAKE k \in 0 .. n - 1
  <2> HAVE k \in T
  <2>1. k + 1 \in 1 .. n /\ (k + 1) - 1 = k /\ k + 1 \in 0 .. n /\ k + 1 # 0
    OBVIOUS
  <2>2. c[k + 1] = nx[c[k]].to
    BY <1>7, <2>1
  <2> HIDE DEF F
  <2>3. F[k + 1] = nx[F[k]].to
    BY <1>5, <2>1
  <2> QED BY <2>1, <2>2, <2>3
<1> HIDE DEF T
<1>10. 0 .. n \subseteq T
  BY <1>8, <1>9, BoundedInduction
<1>11. \A i \in 0 .. n : c[i] = IF i = n THEN h ELSE o[i]
  BY <1>10 DEF T
<1>12. n \in 0 .. n /\ \A i \in 0 .. n - 1 : i \in 0 .. n /\ i # n
  OBVIOUS
<1> QED BY <1>1, <1>3, <1>11, <1>12

LEMMA QuietIntact == ASSUME RingInv PROVE RingIntact
<1> SUFFICES ASSUME Quiet
             PROVE  /\ {Around[i] : i \in 0 .. use.size - 1} = Pages \ {rb.reader} /\ Around[use.size] = rb.head
                    /\ \A p \in Pages \ {rb.reader} :
                         /\ rb.prev[rb.next[p].to] = p
                         /\ rb.next[p].flag = (IF rb.next[p].to = rb.head THEN HEAD ELSE Plain)
  BY DEF RingIntact
<1>1. PICK n, h, r, nx, pv : n = use.size /\ h = rb.head /\ r = rb.reader /\ nx = rb.next /\ pv = rb.prev
  OBVIOUS
<1>2. n \in Nat /\ n >= 3 /\ Pages = 0 .. n /\ nx \in [0 .. n -> Links(n)]
  BY <1>1, Typed DEF RingInv
<1>3. \A t \in Threads : call[t].pc = "idle"
  BY DEF Quiet, At
<1>4. PICK o : Ordered(n, o, h, r, nx, pv)
  BY <1>1, <1>3 DEF RingInv, CircleInv, Moving, Circle
<1>5. Around[n] = h /\ \A i \in 0 .. n - 1 : Around[i] = o[i]
  BY <1>1, <1>2, <1>4, AroundIs
<1>6. /\ o \in [0 .. n - 1 -> 0 .. n]
      /\ \A i, j \in 0 .. n - 1 : o[i] = o[j] => i = j
      /\ \A p \in 0 .. n : (p # r) <=> \E i \in 0 .. n - 1 : o[i] = p
      /\ o[0] = h /\ nx[o[n - 1]].to = h /\ pv[h] = o[n - 1] /\ nx[o[n - 1]].flag # Plain
      /\ \A i \in 1 .. n - 1 : nx[o[i - 1]].to = o[i] /\ pv[o[i]] = o[i - 1] /\ nx[o[i - 1]].flag = Plain
  BY <1>4 DEF Ordered
<1>7. {Around[i] : i \in 0 .. n - 1} = Pages \ {r}
  <2>1. \A i \in 0 .. n - 1 : Around[i] \in 0 .. n /\ Around[i] # r
    BY <1>5, <1>6
  <2>2. \A p \in 0 .. n : p # r => \E i \in 0 .. n - 1 : Around[i] = p
    BY <1>5, <1>6
  <2> QED BY <2>1, <2>2, <1>2, Zenon
<1>8. \A p \in 0 .. n : nx[p].flag # UPDATE
  BY <1>1, <1>2, <1>3 DEF RingInv, FlagInv, Updating
<1>9. ASSUME NEW p \in 0 .. n, p # r
      PROVE  pv[nx[p].to] = p /\ nx[p].flag = (IF nx[p].to = h THEN HEAD ELSE Plain)
  <2>1. PICK i \in 0 .. n - 1 : o[i] = p
    BY <1>6, <1>9
  <2>2. CASE i = n - 1
    <3>1. p = o[n - 1]
      BY <2>1, <2>2
    <3>2. nx[p].to = h /\ pv[h] = p /\ nx[p].flag # Plain
      BY <3>1, <1>6
    <3>3. nx[p].flag = HEAD
      BY <3>2, <1>2, <1>8 DEF Links
    <3> QED BY <3>2, <3>3
  <2>3. CASE i # n - 1
    <3>1. i \in 0 .. n - 2 /\ 0 \in 0 .. n - 1
      BY <2>3, <1>2
    <3>2. PICK k : k = i + 1
      OBVIOUS
    <3>3. k \in 1 .. n - 1 /\ k \in 0 .. n - 1 /\ k # 0 /\ k - 1 = i
      BY <3>1, <3>2, <1>2
    <3>4. nx[p].to = o[k] /\ pv[o[k]] = p /\ nx[p].flag = Plain
      BY <2>1, <3>3, <1>6
    <3>5. o[k] # h
      <4>1. \A j \in 0 .. n - 1 : o[k] = o[j] => k = j
        BY <3>3, <1>6
      <4>2. o[k] # o[0]
        BY <3>1, <3>3, <4>1
      <4> QED BY <4>2, <1>6
    <3> QED BY <3>4, <3>5
  <2> QED BY <2>2, <2>3
<1> QED BY <1>1, <1>2, <1>5, <1>7, <1>9

\* Between calls the pages of the ring are linked in a circle of all pages but the reader
\* page, prev against next, with one flag, before the head: no interleaving of the swap of a
\* read with the flag of a writer at the end of the ring breaks the links.
THEOREM RingKept == Spec => []RingIntact
<1>1. RingInv => RingIntact
  BY QuietIntact
<1> QED BY <1>1, RingInductive, PTL

=============================================================================
