-------------------------------- MODULE Queue --------------------------------
(***************************************************************************)
(* The lock-free queue of lib/queue.c and the reference counts of           *)
(* lib/refcnt.c under it, with one thread in queue_push_right and one in    *)
(* queue_pop_left: so in_q and out_q of a map are used.                     *)
(*                                                                          *)
(* The entries form a doubly linked list between two sentinels.  The        *)
(* lowest bit of a link marks the entry that holds it as deleted.  Every    *)
(* access to memory that both threads can reach is a step.  What a thread   *)
(* has still to do is a list of instructions, todo: a step executes the     *)
(* first and may put others in its place, a call its body, a loop itself.   *)
(*                                                                          *)
(* An entry and its refcnt_node_t live and die together and have one name,  *)
(* given once.  The allocator does give memory out again, but only after    *)
(* gc, and then nothing refers to it any more: NoUseAfterFree.              *)
(*                                                                          *)
(* The ring under free_list is FIFO with atomic operations here, but a read *)
(* may find nothing though something is there: see Ring, which says when.   *)
(***************************************************************************)
EXTENDS Integers, Sequences, FiniteSets, SequencesExt

CONSTANTS
  MaxPush,        \* bound: calls of queue_push_right
  gc_threshold,   \* the argument of refcnt_create, 1<<10
  Earlier,        \* how many entries came and went before: they are on free_list
  Empty, Idle, Undecided   \* see Fifo

ASSUME MaxPushAssumption == MaxPush \in Nat \ {0}
ASSUME ThresholdAssumption == gc_threshold \in Nat \ {0}
ASSUME EarlierAssumption == Earlier \in 0 .. gc_threshold
ASSUME SignalsAssumption ==
  /\ Empty \notin {Idle, Undecided}
  /\ \A e \in 1 .. MaxPush : e \notin {Idle, Undecided}
  /\ \A e \in 1 .. MaxPush, d \in BOOLEAN : Idle # [value |-> e, done |-> d]

VARIABLES
  link,        \* link["next"][n], link["prev"][n]: the links of an entry
  count,       \* ref->count
  delete,      \* ref->delete
  free_list,   \* terminated nodes, oldest first
  freed,       \* the ones gc has given back
  length,      \* q->length
  made,        \* how many entries were created
  todo,        \* what a thread has still to do in its call
  popping,     \* history: what the call of pop will return, once that is decided
  last         \* what pop returned last

refs == <<count, delete, free_list, freed>>
vars == <<link, refs, length, made, todo, popping, last>>

-----------------------------------------------------------------------------
(* Entries, links and instructions. *)

Entries == 1 .. MaxPush
head == 0
tail == MaxPush + 1
Old == tail + 1 .. tail + Earlier
Node == Entries \cup {head, tail} \cup Old
NULL == -1

Ptr(n) == [to |-> n, mark |-> FALSE]
MarkOn(p) == [p EXCEPT !.mark = TRUE]
MarkOff(p) == [p EXCEPT !.mark = FALSE]
Ptrs == [to : Node \cup {NULL}, mark : BOOLEAN]

\* Mutant of Limit: gc(refcnt, 1), which leaves nothing on the list.
Limit_force == 0
Limit == gc_threshold \div 2

Producer == "producer"
Consumer == "consumer"
Threads == {Producer, Consumer}

\* An instruction on an entry n, and another entry m.
Op(op, n, m) == [op |-> op, n |-> n, m |-> m]

\* deref_link and deref_link_d of a link of n; as is what the caller does with the
\* result, for the entry e.  retain_ref(n) is the end of a deref_link, on its argument.
Deref(f, n, as, e) == [op |-> "deref", f |-> f, n |-> n, as |-> as, m |-> e]
Look(n, as, e) == [op |-> "look", n |-> n, as |-> as, m |-> e]
Retain(n) == Look(n, "retain", n)
Release(n) == Op("release", n, n)
Store(f, n, ref) == [op |-> "store", f |-> f, n |-> n, m |-> ref]

At(t, op) == todo[t] # <<>> /\ Head(todo[t]).op = op
It(t) == Head(todo[t])
Then(t, new) == todo' = [todo EXCEPT ![t] = new \o Tail(@)]

-----------------------------------------------------------------------------
(* The code of queue_push_right for a new entry e, from its while(1). *)

PushLoop(e) == <<Deref("prev", tail, "push", e)>>
PushTry(e, prev) == <<Store("next", e, tail), Store("prev", e, prev), Op("link", e, prev)>>
\* Mutant of PushLinked: the reference that prev->next holds is not counted.
PushLinked_uncounted(e, prev) == <<Release(tail), Op("back", e, prev)>>
PushLinked(e, prev) == <<Release(tail), Retain(e), Op("back", e, prev)>>
\* Mutant of PushAgain: prev is not read again.
PushAgain_stale(e, prev) == <<Release(prev), Store("next", e, NULL), Store("prev", e, NULL)>>
                            \o PushTry(e, prev)
PushAgain(e, prev) == <<Release(prev), Store("next", e, NULL), Store("prev", e, NULL)>>
                      \o PushLoop(e)
PushBackAgain(e, prev) == <<Release(prev), Deref("prev", tail, "back", e)>>
PushEnd(e, prev) == <<Release(prev), Retain(e), Release(prev), Op("grow", e, e)>>

(* The code of queue_pop_left. *)

PopLoop == <<Deref("next", head, "pop", head)>>
PopAgain(e) == <<Release(e)>> \o PopLoop
PopSucc(e) == <<Deref("next", e, "succ", e)>>
PopUnlinked(e, next) == <<Release(e), Retain(head), Op("unlink", e, next)>>
PopEnd(e, next) ==
  <<Release(next), Release(e), Op("shrink", e, e), Store("next", e, NULL),
    Store("prev", e, NULL), Release(e), Op("return", e, e)>>

\* What follows a deref_link that returned a node, and one that returned NULL.
Acquired(as, e, n) ==
  CASE as = "push" -> PushTry(e, n)
    [] as = "back" -> <<Store("prev", e, n), Op("back", e, n)>>
    [] as = "pop" /\ n = tail -> <<Release(tail), Op("return", NULL, NULL)>>
    [] as = "pop" /\ n # tail -> <<Op("first", n, n)>>
    [] as = "succ" -> <<Op("unprev", e, n)>>
    [] as = "retain" -> <<>>
Failed(as, e) ==
  CASE as = "push" -> PushLoop(e)
    [] as = "back" -> <<Op("segfault", e, e)>>
    [] as = "pop" -> <<Op("return", NULL, NULL)>>
    [] as = "succ" -> PopSucc(e)
    [] as = "retain" -> <<>>

-----------------------------------------------------------------------------
(* refcnt.c *)

\* deref_link_internal: read the link, then look at the node, then count.  In between
\* the other thread may release what the link held.
DerefLink(t) ==
  /\ At(t, "deref")
  /\ LET i == It(t)
         p == link[i.f][i.n]
     IN  /\ Then(t, IF p.to = NULL \/ (p.mark /\ i.as # "succ")
                    THEN Failed(i.as, i.m)
                    ELSE <<Look(p.to, i.as, i.m)>>)
         /\ popping' = IF i.as = "pop" /\ p.to = tail THEN Empty ELSE popping
  /\ UNCHANGED <<link, refs, length, made, last>>

DerefDelete(t) ==
  /\ At(t, "look")
  /\ Then(t, <<[It(t) EXCEPT !.op = IF delete[It(t).n] THEN "recheck" ELSE "claim"]>>)
  /\ UNCHANGED <<link, refs, length, made, popping, last>>

DerefCount(t) ==
  /\ At(t, "recheck")
  /\ Then(t, IF count[It(t).n] = 0 THEN Failed(It(t).as, It(t).m)
                                   ELSE <<[It(t) EXCEPT !.op = "claim"]>>)
  /\ UNCHANGED <<link, refs, length, made, popping, last>>

DerefClaim(t) ==
  /\ At(t, "claim")
  /\ count' = [count EXCEPT ![It(t).n] = @ + 1]
  /\ Then(t, Acquired(It(t).as, It(t).m, It(t).n))
  /\ UNCHANGED <<link, delete, free_list, freed, length, made, popping, last>>

\* release_ref: count down, and terminate the node at 0.  delete is a lock of a kind,
\* taken for the time of the test.
\* Mutant of ReleaseRead: no test.
ReleaseRead_untested(t) ==
  /\ At(t, "release")
  /\ LET n == It(t).n
     IN  Then(t, <<Op("decrement", n, n), Op("mark", n, n)>>)
  /\ UNCHANGED <<link, refs, length, made, popping, last>>
ReleaseRead(t) ==
  /\ At(t, "release")
  /\ LET n == It(t).n
     IN  Then(t, (IF count[n] > 0 THEN <<Op("decrement", n, n)>> ELSE <<>>)
                 \o <<Op("mark", n, n)>>)
  /\ UNCHANGED <<link, refs, length, made, popping, last>>

ReleaseDecrement(t) ==
  /\ At(t, "decrement")
  /\ count' = [count EXCEPT ![It(t).n] = @ - 1]
  /\ Then(t, <<>>)
  /\ UNCHANGED <<link, delete, free_list, freed, length, made, popping, last>>

ReleaseMark(t) ==
  /\ At(t, "mark")
  /\ LET n == It(t).n
     IN  /\ delete' = [delete EXCEPT ![n] = TRUE]
         /\ Then(t, IF delete[n] THEN <<Op("gc?", head, head)>> ELSE <<Op("test", n, n)>>)
  /\ UNCHANGED <<link, count, free_list, freed, length, made, popping, last>>

ReleaseTest(t) ==
  /\ At(t, "test")
  /\ LET n == It(t).n
     IN  Then(t, IF count[n] = 0 THEN <<Op("terminate", n, n)>> ELSE <<Op("unmark", n, n)>>)
  /\ UNCHANGED <<link, refs, length, made, popping, last>>

ReleaseTerminate(t) ==
  /\ At(t, "terminate")
  /\ free_list' = Append(free_list, It(t).n)
  /\ Then(t, <<Op("gc?", head, head)>>)
  /\ UNCHANGED <<link, count, delete, freed, length, made, popping, last>>

ReleaseUnmark(t) ==
  /\ At(t, "unmark")
  /\ delete' = [delete EXCEPT ![It(t).n] = FALSE]
  /\ Then(t, <<Op("gc?", head, head)>>)
  /\ UNCHANGED <<link, count, free_list, freed, length, made, popping, last>>

\* The size of free_list is its write_count less its read_count, read one after the other:
\* a size of the past, or less, so that gc may stop too early, as it may in GcCollect.  (The
\* difference is negative, that is huge, only for a thread that slept between the two
\* reads while more than the list held came and went.)
ReleaseThreshold(t) ==
  /\ At(t, "gc?")
  /\ Then(t, IF Len(free_list) > gc_threshold THEN <<Op("gc", head, head)>> ELSE <<>>)
  /\ UNCHANGED <<link, refs, length, made, popping, last>>

\* gc: both threads may be in it.  It ends when rqueue_read returns NULL.
GcTest(t) ==
  /\ At(t, "gc")
  /\ Then(t, IF Len(free_list) > Limit THEN <<Op("collect", head, head)>> ELSE <<>>)
  /\ UNCHANGED <<link, refs, length, made, popping, last>>

GcCollect(t) ==
  /\ At(t, "collect")
  /\ \/ Then(t, <<>>) /\ UNCHANGED <<free_list, freed>>
     \/ /\ free_list # <<>>
        /\ freed' = freed \cup {Head(free_list)}
        /\ free_list' = Tail(free_list)
        /\ Then(t, <<Op("gc", head, head)>>)
  /\ UNCHANGED <<link, count, delete, length, made, popping, last>>

\* store_ref: swap the link, count the new one, release the old one.
StoreRead(t) ==
  /\ At(t, "store")
  /\ LET i == It(t)
     IN  Then(t, <<[op |-> "swap", f |-> i.f, n |-> i.n, m |-> i.m, old |-> link[i.f][i.n]]>>)
  /\ UNCHANGED <<link, refs, length, made, popping, last>>

StoreSwap(t) ==
  /\ At(t, "swap")
  /\ LET i == It(t)
         retain == IF i.m = NULL THEN <<>> ELSE <<Retain(i.m)>>
         release == IF i.old.to = NULL THEN <<>> ELSE <<Release(i.old.to)>>
     IN  IF link[i.f][i.n] = i.old
         THEN link' = [link EXCEPT ![i.f][i.n] = Ptr(i.m)] /\ Then(t, retain \o release)
         ELSE Then(t, <<Store(i.f, i.n, i.m)>>) /\ UNCHANGED link
  /\ UNCHANGED <<refs, length, made, popping, last>>

-----------------------------------------------------------------------------
(* queue_push_right *)

\* create_entry
Push ==
  /\ todo[Producer] = <<>>
  /\ made < MaxPush
  /\ made' = made + 1
  /\ count' = [count EXCEPT ![made + 1] = 1]
  /\ todo' = [todo EXCEPT ![Producer] = PushLoop(made + 1)]
  /\ UNCHANGED <<link, delete, free_list, freed, length, popping, last>>

\* ATOMIC_CAS of a link: does it succeed?
Cas(f, n, old, new) ==
  link' = IF link[f][n] = old THEN [link EXCEPT ![f][n] = new] ELSE link

PushLink ==
  /\ At(Producer, "link")
  /\ LET e == It(Producer).n
         prev == It(Producer).m
         old == MarkOff(link["next"][e])
     IN  /\ Cas("next", prev, old, Ptr(e))
         /\ Then(Producer, IF link["next"][prev] = old THEN PushLinked(e, prev)
                                                       ELSE PushAgain(e, prev))
  /\ UNCHANGED <<refs, length, made, popping, last>>

PushBack ==
  /\ At(Producer, "back")
  /\ LET e == It(Producer).n
         prev == It(Producer).m
     IN  /\ Cas("prev", tail, Ptr(prev), Ptr(e))
         /\ Then(Producer, IF link["prev"][tail] = Ptr(prev) THEN PushEnd(e, prev)
                                                             ELSE PushBackAgain(e, prev))
  /\ UNCHANGED <<refs, length, made, popping, last>>

PushGrow ==
  /\ At(Producer, "grow")
  /\ length' = length + 1
  /\ Then(Producer, <<>>)
  /\ UNCHANGED <<link, refs, made, popping, last>>

-----------------------------------------------------------------------------
(* queue_pop_left *)

Pop ==
  /\ todo[Consumer] = <<>>
  /\ todo' = [todo EXCEPT ![Consumer] = PopLoop]
  /\ popping' = Undecided
  /\ UNCHANGED <<link, refs, length, made, last>>

\* Is the entry the first, and is it linked?  The latter gives link1.
PopFirst ==
  /\ At(Consumer, "first")
  /\ LET e == It(Consumer).n
     IN  Then(Consumer, IF link["prev"][e] = Ptr(head) THEN <<Op("peek", e, e)>> ELSE PopAgain(e))
  /\ UNCHANGED <<link, refs, length, made, popping, last>>

PopPeek ==
  /\ At(Consumer, "peek")
  /\ LET e == It(Consumer).n
         link1 == link["next"][e].to
     IN  Then(Consumer, IF link1 = NULL THEN PopAgain(e) ELSE <<Op("marknext", e, link1)>>)
  /\ UNCHANGED <<link, refs, length, made, popping, last>>

\* The instant at which the entry leaves the queue: nobody appends to it any more.
\* Mutant of PopMarkNext: the entry is not marked.
PopMarkNext_unmarked ==
  /\ At(Consumer, "marknext")
  /\ LET e == It(Consumer).n
     IN  /\ popping' = e
         /\ Then(Consumer, <<Op("prev", e, e)>>)
  /\ UNCHANGED <<link, refs, length, made, last>>
PopMarkNext ==
  /\ At(Consumer, "marknext")
  /\ LET e == It(Consumer).n
         link1 == Ptr(It(Consumer).m)
     IN  /\ Cas("next", e, link1, MarkOn(link1))
         /\ IF link["next"][e] = link1
            THEN popping' = e /\ Then(Consumer, <<Op("prev", e, e)>>)
            ELSE UNCHANGED popping /\ Then(Consumer, PopAgain(e))
  /\ UNCHANGED <<refs, length, made, last>>

PopReadPrev ==
  /\ At(Consumer, "prev")
  /\ LET e == It(Consumer).n
     IN  Then(Consumer, <<Op(IF link["prev"][e].to = NULL THEN "prev" ELSE "markprev", e,
                             link["prev"][e].to)>>)
  /\ UNCHANGED <<link, refs, length, made, popping, last>>

PopMarkPrev ==
  /\ At(Consumer, "markprev")
  /\ LET e == It(Consumer).n
         link2 == Ptr(It(Consumer).m)
     IN  /\ Cas("prev", e, link2, MarkOn(link2))
         /\ Then(Consumer, IF link["prev"][e] = link2 THEN PopSucc(e) ELSE <<Op("prev", e, e)>>)
  /\ UNCHANGED <<refs, length, made, popping, last>>

\* Take the entry out of the chain backwards, waiting for a push that has not yet put it in ...
PopUnlinkPrev ==
  /\ At(Consumer, "unprev")
  /\ LET e == It(Consumer).n
         next == It(Consumer).m
     IN  /\ Cas("prev", next, Ptr(e), Ptr(head))
         /\ Then(Consumer, IF link["prev"][next] = Ptr(e) THEN PopUnlinked(e, next)
                                                          ELSE <<Release(next)>> \o PopSucc(e))
  /\ UNCHANGED <<refs, length, made, popping, last>>

\* ... and forwards.
PopUnlinkNext ==
  /\ At(Consumer, "unlink")
  /\ LET e == It(Consumer).n
         next == It(Consumer).m
     IN  /\ Cas("next", head, Ptr(e), Ptr(next))
         /\ Then(Consumer, (IF link["next"][head] = Ptr(e) THEN <<Release(e), Retain(next)>>
                                                           ELSE <<>>) \o PopEnd(e, next))
  /\ UNCHANGED <<refs, length, made, popping, last>>

PopShrink ==
  /\ At(Consumer, "shrink")
  /\ length' = length - 1
  /\ Then(Consumer, <<>>)
  /\ UNCHANGED <<link, refs, made, popping, last>>

\* v was read from the entry before the last releases.
PopReturn ==
  /\ At(Consumer, "return")
  /\ last' = IF It(Consumer).n = NULL THEN Empty ELSE It(Consumer).n
  /\ popping' = Idle
  /\ Then(Consumer, <<>>)
  /\ UNCHANGED <<link, refs, length, made>>

-----------------------------------------------------------------------------
\* A queue after queue_init, when Earlier entries have been pushed and popped.
Init ==
  /\ link = [next |-> [n \in Node |-> Ptr(IF n = head THEN tail ELSE NULL)],
             prev |-> [n \in Node |-> Ptr(IF n = tail THEN head ELSE NULL)]]
  /\ count = [n \in Node |-> IF n \in {head, tail} THEN 2 ELSE 0]
  /\ delete = [n \in Node |-> n \in Old]
  /\ free_list = [i \in 1 .. Earlier |-> tail + i] /\ freed = {}
  /\ length = 0 /\ made = 0
  /\ todo = [t \in Threads |-> <<>>]
  /\ popping = Idle /\ last = Empty

RefStep(t) ==
  \/ DerefLink(t) \/ DerefDelete(t) \/ DerefCount(t) \/ DerefClaim(t)
  \/ ReleaseRead(t) \/ ReleaseDecrement(t) \/ ReleaseMark(t) \/ ReleaseTest(t)
  \/ ReleaseTerminate(t) \/ ReleaseUnmark(t) \/ ReleaseThreshold(t)
  \/ GcTest(t) \/ GcCollect(t)
  \/ StoreRead(t) \/ StoreSwap(t)
PushStep == PushLink \/ PushBack \/ PushGrow \/ RefStep(Producer)
PopStep ==
  \/ PopFirst \/ PopPeek \/ PopMarkNext \/ PopReadPrev \/ PopMarkPrev
  \/ PopUnlinkPrev \/ PopUnlinkNext \/ PopShrink \/ PopReturn \/ RefStep(Consumer)

Next == Push \/ PushStep \/ Pop \/ PopStep

Spec == Init /\ [][Next]_vars

\* A thread that is in a call runs.
FairSpec == Spec /\ WF_vars(PushStep) /\ WF_vars(PopStep)
-----------------------------------------------------------------------------
(* Properties. *)

\* The chain from the head, and the entries of it that are not marked: the queue.
Nth[i \in 0 .. MaxPush] ==
  IF i = 0 THEN link["next"][head].to
           ELSE IF Nth[i - 1] \in Entries THEN link["next"][Nth[i - 1]].to ELSE Nth[i - 1]
Kept[i \in 0 .. MaxPush] ==
  IF i = 0 THEN <<>>
  ELSE IF Nth[i - 1] \in Entries /\ ~link["next"][Nth[i - 1]].mark
       THEN Append(Kept[i - 1], Nth[i - 1]) ELSE Kept[i - 1]
Items == Kept[MaxPush]

\* Links, counts and instructions keep their types.  No count goes below 0, although
\* release_ref tests it in one access and decrements it in another.
TypeOK ==
  /\ link \in [{"next", "prev"} -> [Node -> Ptrs]]
  /\ count \in [Node -> Nat]
  /\ delete \in [Node -> BOOLEAN]
  /\ free_list \in Seq(Node)
  /\ freed \subseteq Node
  /\ length \in -1 .. MaxPush
  /\ made \in 0 .. MaxPush
  /\ \A t \in Threads : \A i \in 1 .. Len(todo[t]) :
       todo[t][i].n \in Node \cup {NULL} /\ todo[t][i].m \in Node \cup {NULL}
  /\ popping \in Entries \cup {Empty, Idle, Undecided}
  /\ last \in Entries \cup {Empty}

\* The call of push under way, and whether its value is in the queue yet.
Pushing ==
  IF todo[Producer] = <<>> THEN Idle
  ELSE [value |-> made,
        done |-> \A i \in 1 .. Len(todo[Producer]) :
                   LET o == todo[Producer][i]
                   IN  o.op # "link" /\ ~(o.op \in {"deref", "look", "recheck", "claim"}
                                          /\ o.as = "push")]

Abstract == INSTANCE Fifo WITH
  Values <- Entries, items <- Items, pushing <- Pushing

\* queue_push_right and queue_pop_left implement Fifo: no value is lost, doubled or
\* overtaken, and pop returns NULL only if the queue was empty during the call.
FifoImplemented == Abstract!Spec

\* gc frees no entry that a thread is still going to access, nor one that a link of an
\* entry in the queue leads to: not even when a push has read tail->prev and stopped
\* before it counted its reference, while pops went on.
NoUseAfterFree ==
  /\ \A t \in Threads : \A i \in 1 .. Len(todo[t]) :
       todo[t][i].op # "return" => {todo[t][i].n, todo[t][i].m} \cap freed = {}
  /\ \A n \in {head, tail} \cup ToSet(Items), f \in {"next", "prev"} : link[f][n].to \notin freed

\* queue_push_right does not come to the retry at tail->prev, which uses the result of
\* deref_link without a look whether it is NULL: once an entry is linked to the last one,
\* no pop changes tail->prev.
NoRetryBack ==
  \A i \in 1 .. Len(todo[Producer]) :
    LET o == todo[Producer][i]
    IN  o.op # "segfault" /\ ~(o.op = "deref" /\ o.as = "back")

Quiet == \A t \in Threads : todo[t] = <<>>

\* Between calls an entry in the queue, and each sentinel, has one reference for itself
\* and one per link to it, and q->length is the length.
RefsBalanced ==
  Quiet =>
    LET live == {head, tail} \cup ToSet(Items)
    IN  /\ length = Len(Items)
        /\ \A n \in live :
             /\ ~delete[n]
             /\ count[n] = 1 + Cardinality({l \in {"next", "prev"} \X live : link[l[1]][l[2]].to = n})

\* The threads do not wait for each other forever: push waits for a pop that has taken
\* out the last entry backwards but not forwards, pop for a push that has linked its
\* entry forwards but not backwards.
CallsEnd == \A t \in Threads : todo[t] # <<>> ~> todo[t] = <<>>

(* What the comments say. *)

\* refcnt.h on deref_link: "Objects marked for deletion (whose refcount is 0) are ignored
\* and their refcount untouched".
DeletedUntouched == \A n \in ToSet(free_list) : count[n] = 0

\* refcnt.h on termination: "its refcount reached 0 and nobody is referencing it at the
\* moment".  pop still clears the links of the entry and releases it.
TerminatedUnused ==
  \A i \in 1 .. Len(todo[Consumer]) :
    todo[Consumer][i].op = "store" => todo[Consumer][i].n \notin ToSet(free_list)

\* queue.c on release_ref in destroy_entry: "this will also release the entry itself".
PoppedReleased ==
  Quiet => \A n \in 1 .. made : n \in ToSet(Items) \cup ToSet(free_list) \cup freed

-----------------------------------------------------------------------------
(* The invariant on links that makes NoRetryBack inductive.  It takes counts  *)
(* as they come: a deref_link that fails only makes its caller try again.     *)

\* Instructions of refcnt.c that lead to nothing else, and of store_ref.
Counting ==
  [op : {"release", "decrement", "mark", "test", "terminate", "unmark", "gc?", "gc", "collect"},
   n : Node, m : Node]
  \cup [op : {"look", "recheck", "claim"}, n : Node, as : {"retain"}, m : Node]
Storing(f, e, new) ==
  [op : {"store"}, f : {f}, n : {e}, m : new]
  \cup [op : {"swap"}, f : {f}, n : {e}, m : new, old : Ptrs]

\* What the call of t has to come to: its last instruction.
Aim(t) == IF todo[t] = <<>> THEN Op("idle", NULL, NULL) ELSE todo[t][Len(todo[t])]

Looks == {"look", "recheck", "claim"}
Unlinked == Aim(Producer).op \in {"deref", "link"} \cup Looks   \* entry made is not in the list yet
Linking == Aim(Producer).op = "back"     \* it is, but tail->prev does not lead to it
linked == IF Unlinked THEN made - 1 ELSE made

\* The instructions before the last one: counting, and storing links that belong to
\* the thread alone.
Before(t) ==
  LET a == Aim(t)
  IN  Counting \cup
      (IF t = Producer
       THEN IF a.op = "link" THEN Storing("next", made, {tail}) \cup Storing("prev", made, Node)
            ELSE IF Unlinked THEN Storing("next", made, {NULL}) \cup Storing("prev", made, {NULL})
            ELSE {}
       ELSE IF a.op = "return" /\ a.n # NULL
            THEN {Op("shrink", a.n, a.n)} \cup Storing("next", a.n, {NULL}) \cup Storing("prev", a.n, {NULL})
            ELSE {})
Toward(s, before, aim) == \E u \in Seq(before) : s = Append(u, aim)
InCall(t) == todo[t] # <<>> => Toward(todo[t], Before(t), Aim(t))

PushAims ==
  {Deref("prev", tail, "push", made)}
  \cup [op : Looks, n : 0 .. linked, as : {"push"}, m : {made}]
  \cup [op : {"link", "back"}, n : {made}, m : 0 .. made - 1]
  \cup {Op("grow", made, made)}
StoresNext(s) == \E i \in 1 .. Len(s) : s[i].op \in {"store", "swap"} /\ s[i].f = "next"
PushInv ==
  todo[Producer] # <<>> =>
    /\ made >= 1
    /\ Aim(Producer) \in PushAims
    /\ Aim(Producer).op = "link" => link["next"][made] = Ptr(tail) \/ StoresNext(todo[Producer])
    /\ Linking => /\ link["prev"][tail] = Ptr(Aim(Producer).m)
                  /\ link["next"][Aim(Producer).m].to # tail

PopAims ==
  {Deref("next", head, "pop", head)}
  \cup [op : Looks, n : 1 .. linked \cup {tail}, as : {"pop"}, m : {head}]
  \cup {Deref("next", e, "succ", e) : e \in 1 .. linked}
  \cup [op : Looks, n : 1 .. linked \cup {tail}, as : {"succ"}, m : 1 .. linked]
  \cup [op : {"first", "peek", "marknext", "prev", "markprev", "unprev", "unlink"},
        n : 1 .. linked, m : Node \cup {NULL}]
  \cup [op : {"return"}, n : 1 .. linked \cup {NULL}, m : 1 .. linked \cup {NULL}]

\* The entry that pop is about to take out, and is taking out.
Taking(a, e) ==
  \/ a.op \in {"first", "peek", "marknext", "prev", "markprev", "unprev", "unlink"} /\ a.n = e
  \/ a.op \in Looks /\ a.as = "pop" /\ a.n = e
  \/ a.op \in {"deref"} \cup Looks /\ a.as = "succ" /\ a.m = e
Marked(a, e) ==
  \/ a.op \in {"prev", "markprev", "unprev", "unlink"} /\ a.n = e
  \/ a.op \in {"deref"} \cup Looks /\ a.as = "succ" /\ a.m = e
Succ(a, e, n) ==
  \/ a.op \in {"unprev", "unlink"} /\ a.n = e /\ a.m = n
  \/ a.op \in Looks /\ a.as = "succ" /\ a.m = e /\ a.n = n
PopAt(a) ==
  /\ a \in PopAims
  /\ a.op = "marknext" => a.m # NULL
  /\ \A e \in Entries : Taking(a, e) => link["next"][head] = Ptr(e)
  /\ \A e \in Entries : Marked(a, e) => link["next"][e].mark /\ link["next"][e].to # NULL
  /\ \A e \in Entries, n \in Node \cup {NULL} : Succ(a, e, n) => link["next"][e] = MarkOn(Ptr(n))
  /\ a.op = "unlink" /\ a.m = tail => link["prev"][tail] = Ptr(head) /\ ~Linking
PopInv == todo[Consumer] # <<>> => PopAt(Aim(Consumer))

\* Where the links lead.  Only one entry is in front of the tail; tail->prev leads to it.
ChainInv ==
  /\ link["next"][head] \in {Ptr(n) : n \in 1 .. linked \cup {tail}}
  /\ \A n \in Node : link["next"][n].to \in 1 .. linked \cup {tail, NULL}
  /\ link["prev"][tail] \in {Ptr(n) : n \in 0 .. linked}
  /\ \A n \in Node : link["next"][n] = Ptr(tail) =>
       \/ n = made /\ (Unlinked \/ Linking)
       \/ link["prev"][tail] = Ptr(n) /\ ~Linking

LinkInv ==
  /\ link \in [{"next", "prev"} -> [Node -> Ptrs]] /\ made \in 0 .. MaxPush
  /\ DOMAIN todo = Threads
  /\ \A t \in Threads : InCall(t)
  /\ PushInv /\ PopInv /\ ChainInv

-----------------------------------------------------------------------------
(* What more it takes that the list is Fifo: the order of the list, what pop  *)
(* has decided, and that the entry pop looks at has not lost its count, for   *)
(* then queue_pop_left would return NULL although the queue is not empty.     *)

\* The first entry of the list, and the first that pop has not marked.
First == IF link["next"][head].to = tail THEN linked + 1 ELSE link["next"][head].to
Oldest == IF First <= linked /\ link["next"][First].mark THEN First + 1 ELSE First

\* The list leads through the entries in the order of their pushes.  Only the first may
\* be marked, by the pop under way, and nothing can be appended to an entry taken out.
OrderInv ==
  /\ \A n \in First .. linked : link["next"][n].to = IF n < linked THEN n + 1 ELSE tail
  /\ \A n \in First .. linked : link["next"][n].mark => n = First /\ Marked(Aim(Consumer), n)
  /\ \A n \in 1 .. First - 1 : link["next"][n] # Ptr(tail)
  /\ Aim(Consumer).op = "return" => Aim(Consumer).n < First

\* What pop is bound to return, by the place it is at.
Decides(a) ==
  CASE a.op = "idle" -> Idle
    [] a.op = "return" -> IF a.n = NULL THEN Empty ELSE a.n
    [] a.op \in {"prev", "markprev", "unprev", "unlink"} -> a.n
    [] a.op \in {"deref"} \cup Looks /\ a.as = "succ" -> a.m
    [] a.op \in Looks /\ a.as = "pop" /\ a.n = tail -> Empty
    [] OTHER -> Undecided
DecidedInv == popping = Decides(Aim(Consumer))

\* How many instructions of s are in S.
Occurs(S, s) == Cardinality({i \in 1 .. Len(s) : s[i] \in S})

\* Instructions that a reference to e is kept for, or that give one back; and the ones that
\* count a link that leads to e already.
Owes(e) ==
  [op : {"release", "decrement", "first", "peek", "marknext"}, n : {e}, m : Node \cup {NULL}]
  \cup [op : {"link", "back", "unprev", "unlink"}, n : Node, m : {e}]
Takes(e) == [op : Looks, n : {e}, as : {"retain"}, m : Node]
Debt(t, e) == Occurs(Owes(e), todo[t]) - Occurs(Takes(e), todo[t])
Links(e) == Cardinality({l \in {"next", "prev"} \X Node : link[l[1]][l[2]].to = e})
InUse == {e \in First .. made : e <= linked => ~link["next"][e].mark}

\* At every moment the count of an entry that pop has not marked is made up of its own
\* reference, the links to it, and what the threads hold, less what they have yet to count.
CountsExplained ==
  \A e \in InUse : count[e] = 1 + Links(e) + Debt(Producer, e) + Debt(Consumer, e)

\* Nobody knows an entry that was never in the list.
Named == 0 .. linked \cup {tail, NULL}
Unnamed ==
  {o \in Counting : o.n \notin Named}
  \cup [op : {"store"}, f : {"next", "prev"}, n : Entries, m : Node \ Named]
  \cup [op : {"swap"}, f : {"next", "prev"}, n : Entries, m : Node \ Named, old : Ptrs]
NamedInv ==
  /\ \A f \in {"next", "prev"}, n \in Node : link[f][n].to \in Named
  /\ \A t \in Threads : Occurs(Unnamed, todo[t]) = 0

\* push has at most one link to an entry still to count, pop keeps a reference meanwhile.
Sources ==
  [op : Looks, n : Entries, as : {"retain"}, m : Node] \cup Storing("prev", made, Node)
Paired(s) ==
  \A i \in 1 .. Len(s), e \in Entries :
    s[i] \in Takes(e) => i < Len(s) /\ s[i + 1] = Release(e)
BackedInv == Occurs(Sources, todo[Producer]) <= 1 /\ Paired(todo[Consumer])

FifoInv ==
  /\ LinkInv /\ OrderInv /\ DecidedInv
  /\ count \in [Node -> Int] /\ CountsExplained /\ NamedInv /\ BackedInv

=============================================================================
