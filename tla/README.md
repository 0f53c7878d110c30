# A TLA+ model of treedb

treedb keeps trees ("maps") of branches for OctopusNote. Browsers talk to it
through redis; each browser tab sees a map through a *view*, a second tree that
overlays the part of the map that the tab has opened. The map is kept in memory
and in two files per map. This directory holds specifications of that server,
TLC configurations that check them on small instances, and TLAPS proofs of what
matters most for instances of every size.

## The system

| part | state | operations | source |
|---|---|---|---|
| branch tree | `branch_t` objects: parent, child_list, total_branch_n; an index by id | add, detach, position, totals | `branch.c` |
| persistence | `bhead`, an array of records (id, parent id, position, child count) addressed by `findex`; an sqlite table of texts by id | one record or row per write; load everything | `io.c` |
| map operations | `map_t`: root, branch_n, indexes | insert, insert_in_path, move, move_to_path, update, delete | `map.c` |
| views | `view_t`, `vbranch_t`; every branch lists the vbranches that stand for it | init, destroy, expand, unfold; every map operation updates every view | `view.c`, `vbranch.c`, `map.c` |
| threads | one *sub* thread, one *pub* thread, one thread per map; an in-queue and an out-queue per map; libevent events | receive, wake, drain, acknowledge, publish | `channel.c`, `map.c`, `app.c` |
| search | an sqlite full text index | two queries | `search.c` |
| queues | a lock-free doubly linked list; reference counts on its entries; two ring buffers under those | push right, pop left; retain, release, collect; read, write | `lib/queue.c`, `lib/refcnt.c`, `lib/rqueue.c` |
| red-black trees | nodes by id: branches, vbranches, views, maps | find, replace, delete; a traverser | `lib/rb.c` |
| helpers | none | ids in hexadecimal, texts cut to a length, JSON getters | `helpers.c` |
| linked list | never used | | `lib/linklist.c` |

They interact so. The sub thread gets a request from redis, finds its map (or
clones a template map into a new one and starts a thread for it), pushes the
request on the map's in-queue and activates the map thread's event. The map
thread runs the operation: it changes the tree, then all views and writes the
records that changed, and leaves messages for browsers and an ack on its
out-queue; then it activates the pub thread's event. The pub thread walks all
maps and publishes what is in their out-queues.

What is hard here:

* *Crashes.* An operation is several writes. Nothing is logged and there is no
  transaction around them.
* *Fan-out.* One operation must change every view by what that view can see of
  it, and tell its browser exactly that. `move` alone has four cases per view.
* *Wake-ups.* Threads drain a queue and sleep; events are created by the thread
  that waits for them, after other threads may already want to activate them; the
  index of maps is read and extended without a lock.
* *Lock-free code.* The queues between the threads and the two structures under them
  are compare-and-swap code with windows between any two accesses. The index of maps
  is a plain red-black tree that one thread walks while another inserts.
* *Crossing messages.* A browser shows its change before the server has agreed, and
  asks for the next one before it has heard of the others'.
* *Totals and counts* are kept by differences, in the server and in the browsers.

For each part the properties that make it correct:

* tree: parents and child lists agree; totals count; the index is exact; all
  branches hang below the root;
* files: between operations a reload gives the same map; during one, at most one
  edge of the file is old; the server can start after a crash; records are not reused;
* views: one vbranch per branch; a vbranch is folded or has all the children; the
  browser's copy equals the view; hidden counts are exact; the order is the tree's;
* threads: no request and no reply is left to a sleeping thread; acks in order;
  every request is answered;
* queues: FIFO whatever the interleaving; counts balance; no use after free; nobody waits
  forever; a ring gives no value twice and stays a ring;
* red-black trees: balanced, a dictionary; a walk that is overtaken by insertions visits
  everything once, in order, and ends;
* sessions: when all messages have arrived every browser shows the server's tree.

## Modules

| module | models | extends |
|---|---|---|
| `Branch` | `branch.c` as operators on tree values | |
| `Store` | one map: operations, files, crash, load; its refinement of `DurableTree` | `Branch` |
| `DurableTree` | abstract: a tree of ids that changes by one edge at a time | |
| `MCStore` | instances | `Store` |
| `Views` | views and browsers of one map | `Branch` |
| `MCViews` | instances | `Views` |
| `Channel` | threads, queues, events | |
| `MCChannel` | instances | `Channel` |
| `Queue` | `queue.c` and `refcnt.c`, access by access | |
| `Fifo` | abstract: calls that take effect at one instant on a sequence | |
| `Ring` | `rqueue.c`, access by access | |
| `RbTree` | `rb.c` as operators on trees; an insertion as the sequence of its writes | |
| `RedBlack` | an index used by one thread | `RbTree` |
| `Dict` | abstract: a function from ids to items | |
| `MapIndex` | `app->map_index`, written by one thread and walked by another | `RbTree` |
| `Session` | two browsers, the map's thread, and the messages between them | `Helpers` |
| `Helpers` | `utf8slice` as an operator | |
| `MCQueue`, `MCRing`, `MCRedBlack`, `MCMapIndex`, `MCSession` | instances | |
| `BranchProofs` | lemmas on `branch_add`, `branch_detach`, `branch_get_pos`; on ancestors and totals | `Branch` |
| `StoreProofs` | types and links, any clients; index, edges of the file, start after a crash | `Store`, `BranchProofs` |
| `TreeProofs` | reachability, totals | `StoreProofs` |
| `RecordProofs` | what is in the files and what is still to be written; the file implements `DurableTree` | `TreeProofs` |
| `ChannelProofs` | wake-ups, order of acks | `Channel` |
| `QueueProofs` | the links of the lock-free list | `Queue` |
| `FifoProofs` | its order and its reference counts; it implements `Fifo` | `QueueProofs` |
| `RingProofs` | the links and the values of a ring | `Ring` |

Every module has, just before a definition it changes, operators named
`<definition>_<how>` ("Mutant of ..."): plausible slips in that code. Nothing uses
them; each was put in place of the definition to see that a property notices.

### Branch and Store

A `branch_t` object is named by its `findex`: the code hands out one findex per
object and never two objects for one. A tree is a record of three functions, and
`branch_add`, `branch_detach`, `branch_increase` are operators from trees to trees.
A loop over a child list that copies all but one entry is `RemoveAt`; that the entry
is there exactly once is `TreeConsistent`, which is proved. `TotalsCount`'s
`Ancestors` is the walk `while((b=b->parent))`.

`Store` has the map in memory (`branch_n`, `root`, `tree`, `bid`, `text`, `index`),
the files (`bhead`, `filesize`, `row`) and the operation under way: `todo`, the
writes it has still to make, in the order of `io_branch_new`, `io_branch_moved` or
`io_branch_deleted`, and `pc`, where its loop continues. Memory changes in the first
step of an operation and each write is a step `Flush`, so a `Crash` may come between
any two. A record is computed when it is written, as `io_save_branch_head` does; as
one thread serves a map, memory is the same then as when the operation decided to
write it. `delete` is a loop of moves and a detach; `insert_in_path` and
`move_to_path` are a descent by name, creating what is missing, and an insert or a
move. Every request that the code refuses with an early return leaves everything as
it was, and is no step.

`Load` is `io_load_map`: skip records of id 0, index the others, set parents, fill
slots. Of two records that claim one slot the later wins (`Slot`), as in the loop; the
other branch keeps its parent and its place in the index but is in no child list
(`Unlisted`), and the server runs on with it. A crash just after the first
record of an insert that shifts siblings leads there, since each of them needs a write. The history
variable `intact` says that no load has met this. Afterwards inserts, updates, paths, moves
and deletes of other branches go on as the code does them (a branch that is not listed has
the position -1, which `io_save_branch_head` writes as 65535; `delete` of its parent does not
move it to the root); moving or deleting the branch itself makes `branch_detach` copy one
entry more than it has room for (`MoveUnlisted`, `DeleteUnlisted`, `PathMoveUnlisted`).

`LoadExit` is the code's own "Abnormality detected" exit. `LoadDamaged` is where the loader
finds no root, writes outside a list or leaves a slot unset. That, and the copy above, is
undefined: the model calls the process damaged and goes no further than its next start.

So the properties come in two kinds. `TypeOK`, `IndexExact`, `DatalessAreLeaves`,
`RecordsNeverReused` and the sound half of `TreeConsistent` (a child list holds only
children of its branch, each once) are checked whatever the loads found; for `TypeOK` and
that half it is also proved. That lists are
complete, totals, reachability, the reload, and the edges in the file (`EdgesCurrent`,
`NoAbnormality`, `DurableTreeImplemented`) are claimed while `intact`: for every crash and
every operation up to the first load that finds two records in one slot.

A branch whose head was written but not its row comes back with `data == NULL`, and
any operation on it dereferences NULL. Operations that would start on it are disabled
(the process would die: `Crash` is always possible); a loop that meets one on its way
is `Segfault`.

Contents are `Texts`; `fold` is what `strcasecmp` compares. `Far` stands for the
positions 9999 and 999999, past the end of every list. Ids that `insert_path` makes
are `GenBase + branch_n`; clients may send the same ids.

### Views

A view `s` is a record: the vbranches on each branch's list that belong to it (`att`),
their parents and child lists, and its index. No operation reads another view's
vbranches, so insert, move and delete are operators on one view
(`InsertInView`, `MoveInView` with one operator per case of the code, `DeleteInView`)
that `Spread` applies to all views, each with the messages for its browser. The code
does the same in loops over the root's vbranch list. `move` updates the views before
the tree, and so does the model: `MoveInView` gets the old tree.

The browser is not in this repository. It is modelled by what the messages carry: it
keeps a parent for each branch it was told of, and a number for each folded branch,
and makes its own change before asking for it. Messages arrive before the next
operation here (`Session` is about those that do not). Because a vbranch may get a double (see below), `vbranch_t` objects
are pairs of a branch and 0 or 1. Endpoints of `map_init_view` come from the request
or from a search (`search_find`, `search_find2`); both are an arbitrary list of live
branches here (`Endpoints`).

`Habits` says which requests browsers make although the server does not cope with
them: inserting below a branch they have not loaded ("insert folded"), and expanding
again ("expand again"). The runs have none; see below for what either does. `Delete` in `Views` is only asked
for branches of at most one child, and not by a browser that shows that child: it would
be told to move what it has just dropped.

### Channel

`sub`, `thread[m]` and `pub` are program counters; a step ends where another thread
could see the difference. An event is absent, idle or active; `event_active` on an
active event does nothing, and libevent clears it before calling the handler, which is
what makes "drain, then sleep" right. `MapSignal` on an absent `out_event` is the
NULL dereference of a map thread that is faster than the pub thread at start-up: the
process dies. `PubNext` may miss maps or visit new ones if the sub thread changes the
index during the walk.

External to it: redis delivers each request once, memory is sequentially consistent,
libevent's functions are atomic. That a queue is FIFO with atomic operations is what
`Queue` shows; what a walk of the index may miss is what `MapIndex` shows.

### Queue and Fifo

A map's queues have one thread that pushes on the right and one that pops on the left,
so the model has a producer and a consumer. Entries are named in the order of their
creation. Each thread has a list of instructions, `todo`; a step executes the first one,
which is one access to shared memory, and may put others in front: the body of a call
(`deref_link`, `release_ref`, `retain_ref`, `store_ref`), or the next round of a loop. So
the text of the two functions is in `PushLoop` ... `PushEnd` and `PopLoop` ... `PopEnd`
and the accesses are the actions.

`Fifo` is what `Channel` takes a queue for. The refinement maps the queue to the entries
that the chain from the head reaches and that are not marked: a push takes effect with the
compare-and-swap that links its entry forwards, a pop with the one that marks `next`, an
empty pop with the read of `head->next`.

`NoUseAfterFree` rests on what the code rests on: `gc` leaves half of its threshold
(512) of the newest terminated nodes alone, and a thread does not sleep through that many
pops inside `deref_link`. In the model the limit is 3 (`gc_threshold` 6), there are 3
pushes, and `Earlier = 5` nodes are on `free_list` before them: the second entry that is
terminated makes `gc` run, while the push of the third may still stand between its read of
`tail->prev`, which leads to that entry, and its count. A smaller limit, as in the mutant,
fails there. `gc` and `release_ref` read the two counters of `free_list` in one step each
(`GcTest`, `ReleaseThreshold`); the code reads one after the other. What a second access
could change is when `gc` stops, and `GcCollect` may stop after any round.

### Ring

`rqueue.c` in its blocking mode, the only one used. `Init` chooses between its two uses,
records of `Rings`: `free_list` (written by `release_ref`, read by `gc` only while it is
longer than a limit, `keep`) and `node_pool` (written by `gc`, read by `new_node`, also when
empty). Only `node_pool` has a callback for values that are overwritten, `free`
(`refcnt.c:49`); what writers give to it is the history variable `freed`. A value is named
when it is written, so a node that `malloc` hands out again would be a new value.

Any thread may write or read at any time, up to `writes` values. `ReadOnce` and `RingIntact`
hold whatever happens. The other two hold while `calm`: every write began with fewer than
`room` values in the ring, counting those on their way, and no write was overtaken by more than
`lag` others before it had its page. Nothing in `rqueue.c` or the scheduler ensures that.
What speaks for it is size: `free_list` has 1536 pages and `gc` is called from 1025 values on
(but does nothing while another read is under way), `node_pool` has 65536; and a
writer of `free_list` would have to sleep through 512 writes, the number that `gc` leaves
there, before its stale tail can meet the head. In the run `keep` is 2 and `lag` 1; in a ring
with more room a `lag` equal to `keep` fails, so `node_pool`, which may be read empty, has the lag 0. What happens
otherwise is listed below.

### RbTree, RedBlack, Dict, MapIndex

A node is named by its key. The two mirrored halves of the code are one, with a direction
`d`. An insertion is the list of writes that `rb_probe` makes, in its order: `RedBlack`
applies all of them in one step (branch, vbranch and view indexes belong to one thread),
`MapIndex` one per step, against a walk that is itself one read per step. `Wild` and
`Garbage` are what `malloc` left in a new node. `Choice` bounds which items are tried for
which key.

`MapIndex` remembers in `overlapped` whether an insertion was under way during a call of
`rb_t_next` in this walk. Insertions *between* calls are what `rb_generation` is for, and
with those alone nothing goes wrong; during a call it does (below). `WalkEnds` needs no
such condition: a walk never circles.

### Session and Helpers

Requests pass through one queue to the map's thread, messages through one queue per view.
A browser applies its own change and sends it; the server applies or refuses it (`move`
compares `oldParentId`, and answers a late request with the branch's place) and tells the
others. Views see every branch here, as folding is in `Views`; siblings have no order.
`Init` chooses who asks for what (`Sessions`): both browsers move, every branch once each;
or one of them moves, writes and deletes; or one moves and the other writes. With other
mixtures `Converged` fails (below), so these are the sessions the protocol supports.

Texts are sequences of characters of 1 to 4 bytes; `update` cuts their bytes with
`utf8slice`. The browser that wrote a text longer than the limit is not told that it was
cut, so `Converged` lets it show the whole of it; the cut must fall between characters.

## Runs

| run | instance | checks | result |
|---|---|---|---|
| `MCStore` | 4 records, 2 client ids (one also generated), 2 spellings of a name, paths of 1 name | types, links, reachability, index, reload, edges, start, data, totals, record numbers, `DurableTree` | holds (257,000 states) |
| `MCStoreLive` | 4 records, paths of 2 names, deletes with 2 children | operations end | holds (25,000) |
| `MCStoreParents` | deletes with 2 children | `NoAbnormality` | **violated** |
| `MCViews` | 5 branches, 1 view, 2 endpoints | types, one vbranch, overlay, browser's copy, counts | holds (6,800 states, 459,000 steps) |
| `MCViewsOrder` | 4 branches | `InOrder` | **violated** |
| `MCChannel` | 2 maps; 2 requests for the one on disk, 1 for the one to be created | types, requests, replies, order, every request is answered | holds (295,000) |
| `MCQueue` | 3 pushes, any number of pops, 5 older nodes on `free_list` | types, use after free, retries, counts between and during calls, `Fifo`, calls end | holds (579,000) |
| `MCRing` | `free_list` of 4 pages, 6 writes; `node_pool` of 3 pages, 4 writes; 2 threads (symmetric) | read once, ring intact; order, nothing refused or freed while calm | holds (4.7 million) |
| `MCRedBlack` | 10 keys, any insertions and deletions | balance and count, `Dict` | holds (68,000) |
| `MCMapIndex` | 6 keys, 2 maps on disk, 5 maps at most | no fault, order, none missed, walks end | holds (733,000) |
| `MCMapIndexAssert` | the same | `AssertionsHold` | **violated** |
| `MCSession` | 2 browsers, 3 branches (symmetric), a short text and one that is cut | `Converged` | holds (675,000) |

Why the bounds are enough. A record is never reused, so `MaxBranch` bounds inserts over
a whole life, deletes included: with 4 there are trees of depth 3, siblings that shift,
and an id that is deleted and used again. `GenBase = 2` makes generated and
client ids meet. One view is enough: all of a view's changes are its own, no operation
reads another view's vbranches, and requests come from that view's browser or from
`Nobody`, which stands for every other one; so the view is the one that asks and the one
that only hears of it.
A move between two *different* folded branches, the case of two counts, needs the root,
two folded branches and a branch below each: five. Two maps, one created by its first
request, are the race of the index; two requests are what a second push during the
drain needs.

Three pushes put one entry between two others and let the first be terminated while the
third reads `tail->prev`; five older nodes make `gc` free memory at that time. Four writes
fill a ring of three pages and overwrite a value of it, six go around one of four, each with
another thread that writes or reads between any two accesses. Deletions whose repair climbs more than one level need a tree of black height 3 and
more than seven nodes, so ten keys. Five maps are rotated at the root and below it while a
walk stands at each of them. Three branches are enough for two moves that would make a
circle together and one that follows a third branch.

`CHECK_DEADLOCK FALSE`: in `MCChannel` once all requests are answered, or the process has
died, nothing happens any more; in `MCRing` and `MCSession` the bound on calls is used up;
in `MCMapIndex` a fault is the end of the process.

### What the violated runs show

* `MCStoreParents`: `delete` loops `for (i = 0; i < b->child_n; i++)` while every round
  moves a child away, so it skips every second child. With two children the second
  stays below the deleted branch; at the next start its parent has no record and the
  server exits. ("todo: forbid deleting branch with children", `map.c:802`.)
* `MCViewsOrder`: `vbranch_add` asks for the branch's position before the branch has
  moved, so the view's order is not the tree's. The browser is sent the right position
  in `mapMove`; what it gets later from the view (`mapInsert`, `mapInit`) is in the
  view's order.
* `MCMapIndexAssert`: while the pub thread searches for its node in `trav_refresh`, the
  sub thread's `rb_probe` rotates a subtree; the search then comes to an empty link and
  `assert (i != NULL)` (`rb.c:450`) ends the server.

Further disagreements, each shown by checking the named property on a changed instance:

* `OnlyDeletedSkipped` of `Store` with 0 in `ClientIds`: id 0 is accepted from clients
  (`helpers.c:196`) but marks deleted records ("skip deleted branches", `io.c:225`), so
  such a branch is gone after a restart.
* `Overlay` of `Views` with the habit "insert folded": the part of the condition in
  `insert` that would expand a folded branch is commented out (`map.c:145`), though the
  comment above still describes it. The view then shows one child and believes it has
  them all.
* `OneVbranch` with the habit "expand again": `view_expand_to` does not look whether the
  children are there. The comment of `branch_attach_vbranch` (`branch.c:166`) warns of the
  double it makes.
* `DeletedUntouched` of `Queue`: `deref_link` tests a node and counts a reference
  afterwards (`refcnt.c:97`), so a count of a terminated node does change, against
  `refcnt.h:79`. Only the nodes that `gc` keeps protect its memory.
* `TerminatedUnused`: `queue_push_right` publishes an entry in `tail->prev` before it
  counts that reference (`queue.c:296`, `:304`); a pop in between terminates the entry
  while it has still to clear its links, against `refcnt.h:36`.
* `PoppedReleased`: two releases that meet at the delete flag (`refcnt.c:131`) may both
  leave the entry to the other, and it is never freed (a leak, against `queue.c:151`).
* `NotRefused` of `Store` (`NoAbnormality` without `intact`) with 5 records and 3 client ids: after a load
  in which two records claim one slot, `delete` of the parent takes its `child_n` for the number
  of its children, leaves the unlisted one below a record that it zeroes, and the next start ends
  with "Abnormality detected" although the clients behave. (With 4 records the branch that took
  the slot has no row, and the delete is a segmentation fault; with 5 it may have a
  deleted branch's id, whose row is still there.)
* `ReadInOrder` of `Ring` without `calm`, already for one thread on a ring that gets full: the
  only writer uses the last page without moving the tail (`rqueue.c:200`), and its next write
  after a read replaces that value, although "writers will stop if the ringbuffer is full"
  (`rqueue.h:39`).
* `NothingDropped` without `calm`, its first half: at a full `node_pool` a writer reads the value
  on the last page (`rqueue.c:241`), a read takes that value, and the writer passes it to `free`
  all the same (`rqueue.c:243`; its compare-and-swap failed, so its own value is lost too). The
  node is then in an entry and with `malloc`.
* `NothingDropped` without `calm`, its second half: a writer compares a tail and a head that it
  read at different times (`rqueue.c:191`) and returns -2, "if the buffer is full"
  (`rqueue.h:80`), for a ring with room. `release_ref` ignores the result and the node is on no
  list.
* `InOrder` of `MapIndex` without `~overlapped`: an insertion in the middle of
  `rb_t_next` can make a walk visit maps out of order.
* `Converged` of `Session` in three more sessions: two browsers that move one branch twice
  (the old parent is no version, `map.c:471`); one that moves and one that deletes (a move
  below a deleted branch is dropped without a correction, `map.c:450`, and the browser
  loses the branch with the deleted one); two that write one text (each is told of the
  other's only, `map.c:387`, and one keeps an old text).

## Fairness

`Store`: weak fairness of `Flush` and of the continuation of an operation: the thread
runs to the end of an operation without waiting for anything. No fairness of requests,
crashes or restarts. `Channel`: weak fairness of each thread's steps, one condition per
thread, since threads are scheduled by the operating system and none of their steps
waits for a lock; `SubReceive`, a request from outside, has none. `Queue`: weak fairness of
the steps of a thread that is in a call, none of new calls; the loops that wait for the
other thread are in that sense busy, so it is its fairness that ends them. `MapIndex`: the
same for `rb_probe`'s writes and for a walk under way; that walks begin is up to events.

## Proofs

All of it is for any number of branches up to 65535 (`MaxBranchAssumption`: `child_n` is
16 bits wide), any ids, texts, maps and requests (`MaxRequests` is any bound per map), pushes
(`MaxPush`), any number of threads at a ring, and rings of any size from 3 pages on
(`RingsAssumption`; `RQUEUE_MIN_SIZE`).

* `BranchProofs`: a detach takes exactly one entry out, an add puts exactly one in,
  both keep trees well typed and `Linked`.
* `StoreProofs`: `TypeCorrect`, `LinksCorrect`. The invariant is `TypeOK /\ SoundInv`:
  that lists are sound, and complete while `intact`; and that an object not yet handed out is
  blank, without which `insert` could link one that is linked already. No assumption on
  clients: ids 0 and deletes with many children included; and none on loads: the slots of a
  list that `Load` fills with the later of two records hold children of that branch, each at
  its own position. If no slot is claimed twice they are all its children.
  Its second part: `IndexCorrect`, `OneStaleEdge`, `StartsWhileIntact`, assuming
  `ClientsBehave` (no id 0, and at most one child in a delete; the violated run and the
  disagreements show that neither can be dropped), and for states in which `intact` holds, as
  all further theorems about `Store`. The invariant `StoreInv` joins the index, `LiveInv` (linked
  branches have ids, so has the root; a delete has at most one child left to move),
  `EdgesAgree` and `FileInv` (ids in the file are unique and every parent has a record).
  The argument: an operation changes the id or the parent of one branch; the first
  write of its list is that branch's record; so from the second write on the file has the
  edges of memory, where parents exist. `insert`'s new record names a parent whose record
  is already there; a deleted branch has no children whose records could name it.
* `TreeProofs`: `Reachable`, `TotalsCorrect`, for the same clients. The invariant `TreeInv`
  adds `FileRooted`: in the *file* every record leads to the one root record, at any instant
  a crash may come. Without it nothing would be known of the tree that `Load` builds. The
  argument is on `Ancestors`, what the walk along `parent` visits: a move below
  a branch that is not below the moved one adds exactly the new parent's ancestors and takes
  the old parent's away, for the moved branch and for all below it, and the totals change by
  the same differences along the same two paths. Facts about a walk of any length come from
  `BoundedInduction`, induction over a set instead of a predicate: the steps for which a fact
  holds are a set of numbers up to `MaxBranch`, which has a largest element.
* `RecordProofs`: `NumbersKept`, `DatalessLeaves`, `NothingLost`. `RecordInv` says that
  whatever the files lack is on the list of writes: a head that differs from memory, a row, or
  the one record by which the file is too short (`HeadsPending`, `RowsPending`, `SizePending`);
  that writes address records in use (`WritesBelow`), and that a parent's row exists
  (`ParentRows`, `ParentData`). When the list is empty, file and memory are equal, and the
  slots that `io_load_map` fills are the child lists.
  Its second part: `FileIsDurableTree`. A step that writes no head leaves the edges; a
  `Flush` of a head changes one record, in one of four ways: the first record ever is
  `CreateRoot`, a new one `AddLeaf`, an id that becomes 0 `RemoveLeaf`, another parent
  `Reparent`; a head that only gets a new position or count is a stutter. That a new parent is
  not below the branch comes from `FileRooted` before and after the write.
* `ChannelProofs`: `ChannelTypes`, `RequestsKept`, `RepliesKept`. The invariant
  `ChannelInv` adds to the two properties that a thread which runs has its event, that a
  queue in use has a thread (`ThreadInv`), and that whenever the index has changed under
  a walk there is still a request on its way or the pub thread's event is active
  (`PubInv`): the map that was missed will be walked again. And `AcksOrdered`, from
  `OrderInv`: the in-queue holds the requests after the one taken last, without a gap, and
  the last reply is the ack of the last request that has one.
* `QueueProofs`: `NoRetry`, for any number of pushes and any threshold. What a thread has to
  do is a list; `LinkInv` describes it by its last instruction, the `Aim`, and says of those
  before it only that they count references or store links that belong to the thread
  (`Before`). So every step of `refcnt.c` is dealt with by one lemma, and reference counts
  need no invariant: a `deref_link` that fails only makes its caller try again. What is left
  is about links: `tail->prev` leads to the only entry whose `next` is the unmarked tail,
  except while a push is between its two compare-and-swaps (`ChainInv`); the entry that a pop
  is at is `head->next`, marked from a certain point on (`PopInv`). A push that has linked its
  entry holds that place: a pop of the entry before it finds `next` is not the tail any more,
  and leaves `tail->prev` alone (`PushInv`).
* `FifoProofs`: `CountsRight` and `FifoRefined`, for any number of pushes and pops and any
  threshold of `gc` (`SignalsAssumption`: the names of the history variables for "no call" and
  "not decided" are no entries). The order of the list alone does not make it a `Fifo`: `queue_pop_left`
  takes a `deref_link` of `head->next` that fails for an empty queue, so an entry in the list
  must never lose its count. `FifoInv` is `LinkInv` and
  * `OrderInv`: the list leads through the entries in the order of their pushes, from `First`
    to the last that was linked, and only `First` may be marked;
  * `DecidedInv`: the history variable `popping` is what the place of the pop implies;
  * `CountsExplained`: the count of an entry in use is its own reference, the links to it,
    and the `Debt` of the two threads: how many instructions on their lists give a reference
    back, less how many are still to count a link that is there already;
  * `NamedInv`: no link and no instruction leads to an entry that was never linked, so a new
    entry starts with a count that is explained;
  * `BackedInv`: a push has at most one link still to count, and a pop that has one is going
    to release the same entry next; so what is not counted yet never exceeds what is held,
    the count is positive and `deref_link` of an entry in use succeeds.

  Each step moves references between counts, links and lists, one lemma per instruction;
  facts about lists are about `Occurs`, how often an instruction of some kind is on one. The
  step and stutter cases of `Fifo` then come from `Items` being `Oldest .. linked`, proved of
  the recursive functions `Nth` and `Kept` by the bounded induction described above.
* `RingProofs`: `ReadsOnce` and `RingKept`, also for rings that are full or whose writers
  overwrite and free values, and without any bound on how long a call lasts. `ReadsOnce` is
  about reads only: who else has a value that was freed is not its subject. `RingInv` says that only one
  read is inside the lock (`LockInv`); that at *every* moment the pages have an order in which
  `next` and `prev` agree and only the link to the head has a flag (`CircleInv`: from the swap of a
  read to its move, it is the ring with the new head, of which `rb` does not know yet); that
  what the read has found out, head, next page and links of the reader page, is still so when
  it uses it (`ReadInv`: writers change flags only); and that a changed flag belongs to a
  writer that is going to restore it (`FlagInv`). `CircleSwap` is the heart: the pages with the
  reader page in the place of the head are a ring again. For `ReadOnce`, `OnceInv`: a value
  not yet stored is nowhere else (`FreshInv`), pages hold different values (`ValueInv`), and a
  page has a value that was read only while that read is about to clear it (`TakenInv`).

Only model-checked, and why:

* liveness (`OperationsEnd`, `Answered`, `CallsEnd`, `WalkEnds`): out of the prover's reach;
* `RedBlack` and `MapIndex`: `RbTree` is recursive over trees, which the prover cannot follow;
* the other properties of `Queue`: `TypeOK` (no count below 0) and `RefsBalanced` are also
  about entries that were taken out, delete flags and the sentinels, of whose counts `FifoInv`
  says nothing. `NoUseAfterFree` is no theorem for all constants: it holds only while fewer
  pops pass a sleeping thread than `gc` keeps nodes;
* `ReadInOrder` and `NothingDropped` of `Ring`: which `lag` and `room` are enough depends on the
  ring and on how far it is read empty (see the disagreements);
* `Views`: what a view becomes and what a browser makes of several messages are folds with an
  operator as their parameter, about which the prover cannot reason; the operators would have
  to be written as recursive functions first;
* `Session`: `Converged` holds for the sessions listed, not for all (see the disagreements), and
  the texts are folds over characters.

## Not modelled

Search queries and the full text index; JSON, and ids in hexadecimal (data that no property
tells apart); the `mapRemoveMark` message; `mapVisible`/`mapInvisible` (a flag that is only
copied into messages and decides nothing); functions that nothing calls (`io_resave_map`,
`view_create_clone`, `view_expand_tox`, the XML importer, all of `linklist.c`; the other end,
the clearing and the destruction of queues; the overwriting mode of rings; `rb_copy`,
`rb_t_prev`, `rb_t_insert` and the rest of the traverser); errors of the disk and of memory
allocation; loss of machine power (writes that returned are taken as durable); weak memory
(accesses are sequentially consistent); the inside of libevent, hiredis and sqlite. A clone
copies the template's files while the template may be changing: the image is one that a
crash could leave, as long as the copy is one read. In `Session`, inserts, and browsers that
delete a branch whose children they show.

## Plan

1. Done: `Branch`, `Store`, `DurableTree`, `Views`, `Channel` and the first four proof modules.
2. Done: the libraries under them, `Queue` with `Fifo`, `Ring`, `RbTree` with `RedBlack`,
   `Dict` and `MapIndex`; the crossing of requests and messages, `Session`.
3. Done: theorems for every safety property of `Store` and `Channel`, the refinement of
   `DurableTree`, and `NoRetryBack` of `Queue`.
4. Done: the queue implements `Fifo`, its entries' reference counts; the ring.
5. Left: `Views` with recursive functions for its folds, then its `TypeOK` and `OneVbranch`;
   counts and delete flags of entries that were taken out of a queue.
