--------------------------------- MODULE Ring ---------------------------------
(***************************************************************************)
(* The lock-free ring of lib/rqueue.c in blocking mode, as free_list and    *)
(* node_pool of a queue: both threads write to it (release_ref, gc) and     *)
(* both read from it (gc, new_node).                                        *)
(*                                                                          *)
(* Size pages form a ring; one more, the reader page, is outside.  A read   *)
(* puts the reader page in the place of the head page, which becomes the    *)
(* reader page.  The link to the head page has a flag; a writer at the end  *)
(* of the ring changes it for a while, so that no read moves the head.      *)
(* A step has at most one access to memory that other threads may change.   *)
(***************************************************************************)
EXTENDS Integers, Sequences, FiniteSets, SequencesExt

CONSTANTS
  Threads,
  RQUEUE_MAX_RETRIES,
  Rings                 \* the rings that Init chooses from

ASSUME RingsAssumption ==
  \A ring \in Rings :
    /\ ring.name \in {"free_list", "node_pool"}
    /\ ring.size \in Nat /\ ring.size >= 3     \* pages of the ring; RQUEUE_MIN_SIZE
    /\ ring.keep \in Nat         \* gc reads only while more values than this are in free_list: 512;
                                 \* 0 for node_pool, which new_node reads in any case
    /\ ring.writes \in Nat       \* bound: calls of rqueue_write
    /\ ring.room \in Nat \ {0}   \* for calm: how many values a write may leave in the ring,
    /\ ring.lag \in Nat          \* and through how many writes of others it may last

VARIABLES
  use,       \* which ring this is; never changes
  rb,        \* the rqueue_t and its pages
  call,      \* where each thread is in rqueue_read or rqueue_write, and its locals
  started,   \* how many values were handed to rqueue_write
  placed,    \* history: the values in the order in which writers got their pages
  got,       \* history: the values in the order in which rqueue_read took them
  freed,     \* history: the values that writers gave to free_value_cb
  calm       \* history: no write began in a ring that was nearly full, or while another
             \* had been on its way for long (nothing in the code makes it so)

vars == <<use, rb, call, started, placed, got, freed, calm>>

Pages == 0 .. use.size
None == 0                    \* a NULL value
Values == 1 .. use.writes

Ptr(p, flag) == [to |-> p, flag |-> flag]
HEAD == "head"
UPDATE == "update"
Plain == "plain"

Local == [pc |-> "idle", value |-> None, was |-> None, temp |-> 0, commit |-> 0, next |-> Ptr(0, Plain),
          head |-> 0, writes |-> 0, tail |-> 0, retries |-> 0, did_update |-> FALSE,
          old |-> Ptr(0, Plain), lag |-> 0]

At(t, pc) == call[t].pc = pc
Go(t, pc) == call' = [call EXCEPT ![t].pc = pc]
Set(t, pc, field, v) == call' = [call EXCEPT ![t].pc = pc, ![t][field] = v]
History == <<use, started, placed, got, freed, calm>>

-----------------------------------------------------------------------------
(* rqueue_write *)

\* A writer that has no page yet.
Placing == {"tail", "commit", "next", "head", "full?", "reads", "alone?", "claim", "lost"}

\* release_ref and gc write.
Write(t) ==
  /\ At(t, "idle")
  /\ started < use.writes
  /\ started' = started + 1
  /\ rb' = [rb EXCEPT !.num_writers = @ + 1]
  /\ call' = [u \in Threads |->
                IF u = t THEN [Local EXCEPT !.pc = "tail", !.value = started + 1]
                ELSE [call[u] EXCEPT !.lag = IF call[u].pc \in Placing /\ @ < use.lag THEN @ + 1 ELSE @]]
  /\ calm' = /\ calm
             /\ Len(placed) - Len(got) + Cardinality({u \in Threads : call[u].pc \in Placing}) < use.room
             /\ \A u \in Threads : call[u].pc \in Placing => call[u].lag < use.lag
  /\ UNCHANGED <<use, placed, got, freed>>

WriteTail(t) == At(t, "tail") /\ Set(t, "commit", "temp", rb.tail) /\ UNCHANGED <<rb, History>>

WriteCommit(t) ==
  At(t, "commit") /\ Set(t, "next", "commit", rb.commit) /\ UNCHANGED <<rb, History>>

WriteNext(t) ==
  /\ At(t, "next")
  /\ Set(t, "head", "next", Ptr(rb.next[call[t].temp].to, Plain))
  /\ UNCHANGED <<rb, History>>

\* Is the next page the head?  Then the ring may be full.
\* Mutant of WriteHead: one page earlier.
WriteHead_margin(t) ==
  /\ At(t, "head")
  /\ Set(t, IF rb.head \notin {call[t].next.to, rb.next[call[t].next.to].to} THEN "claim"
            ELSE IF call[t].temp = call[t].commit THEN "full?" ELSE "alone?", "head", rb.head)
  /\ UNCHANGED <<rb, History>>
WriteHead(t) ==
  /\ At(t, "head")
  /\ Set(t, IF call[t].next.to # rb.head THEN "claim"
            ELSE IF call[t].temp = call[t].commit THEN "full?" ELSE "alone?", "head", rb.head)
  /\ UNCHANGED <<rb, History>>

WriteWrites(t) ==
  At(t, "full?") /\ Set(t, "reads", "writes", rb.writes) /\ UNCHANGED <<rb, History>>

WriteFull(t) ==
  /\ At(t, "reads")
  /\ Go(t, IF call[t].writes # rb.reads THEN "refused" ELSE "claim")
  /\ UNCHANGED <<rb, History>>

\* The only writer uses the last page and leaves rb->tail there.
WriteAlone(t) ==
  /\ At(t, "alone?")
  /\ IF rb.num_writers = 1
     THEN Set(t, "flag", "tail", call[t].temp) /\ placed' = Append(placed, call[t].value)
     ELSE Go(t, "refused") /\ UNCHANGED placed
  /\ UNCHANGED <<use, rb, started, got, freed, calm>>

\* ATOMIC_CAS_RETURN(rb->tail, temp_page, next_page).
\* Mutant of WriteClaim: a writer that lost the page uses it nevertheless.
WriteClaim_lost(t) ==
  /\ At(t, "claim")
  /\ rb' = IF rb.tail = call[t].temp THEN [rb EXCEPT !.tail = call[t].next.to] ELSE rb
  /\ Set(t, "flag", "tail", call[t].temp)
  /\ placed' = Append(placed, call[t].value)
  /\ UNCHANGED <<use, started, got, freed, calm>>
WriteClaim(t) ==
  /\ At(t, "claim")
  /\ IF rb.tail = call[t].temp
     THEN /\ rb' = [rb EXCEPT !.tail = call[t].next.to]
          /\ Set(t, "flag", "tail", call[t].temp)
          /\ placed' = Append(placed, call[t].value)
     ELSE Set(t, "lost", "tail", rb.tail) /\ UNCHANGED <<rb, placed>>
  /\ UNCHANGED <<use, started, got, freed, calm>>

\* The loop ends without a page of its own when the other is at the end of the ring, or
\* after too many tries.
WriteLost(t) ==
  /\ At(t, "lost")
  /\ IF rb.next[call[t].tail].flag # UPDATE /\ call[t].retries < RQUEUE_MAX_RETRIES
     THEN Set(t, "tail", "retries", call[t].retries + 1) /\ UNCHANGED placed
     ELSE Go(t, "flag") /\ placed' = Append(placed, call[t].value)
  /\ UNCHANGED <<use, rb, started, got, freed, calm>>

WriteFlag(t) ==
  /\ At(t, "flag")
  /\ LET c == call[t]
         link == rb.next[c.tail]
         hit == link.flag = HEAD
     IN  /\ rb' = IF hit THEN [rb EXCEPT !.next[c.tail].flag = UPDATE] ELSE rb
         /\ call' = [call EXCEPT ![t].pc = "old", ![t].did_update = hit, ![t].next = link]
  /\ UNCHANGED History

WriteOld(t) ==
  At(t, "old") /\ Set(t, "value", "was", rb.value[call[t].tail]) /\ UNCHANGED <<rb, History>>

\* What was on the page is freed, if the ring has a callback (node_pool), whether it was
\* still there or a read has taken it meanwhile; then the new value is on no page.
WriteValue(t) ==
  /\ At(t, "value")
  /\ rb' = [rb EXCEPT !.value[call[t].tail] = IF @ = call[t].was THEN call[t].value ELSE @]
  /\ freed' = IF use.name = "node_pool" /\ call[t].was # None THEN freed \cup {call[t].was} ELSE freed
  /\ Go(t, IF call[t].did_update THEN "unflag" ELSE "count")
  /\ UNCHANGED <<use, started, placed, got, calm>>

WriteUnflag(t) ==
  /\ At(t, "unflag")
  /\ rb' = [rb EXCEPT !.next[call[t].tail] =
              IF @ = Ptr(call[t].next.to, UPDATE) THEN Ptr(call[t].next.to, HEAD) ELSE @]
  /\ Go(t, "count")
  /\ UNCHANGED History

WriteCount(t) ==
  /\ At(t, "count")
  /\ rb' = [rb EXCEPT !.writes = @ + 1]
  /\ Go(t, "last?")
  /\ UNCHANGED History

\* The writer that is alone commits: its own page, or at a full ring rb->tail.
WriteLast(t) ==
  /\ At(t, "last?")
  /\ Go(t, IF rb.num_writers = 1 THEN "publish" ELSE "leave")
  /\ UNCHANGED <<rb, History>>

WriteRefused(t) ==
  /\ At(t, "refused")
  /\ Go(t, IF rb.num_writers = 1 THEN "rbtail" ELSE "leave")
  /\ UNCHANGED <<rb, History>>

WriteRefusedTail(t) ==
  At(t, "rbtail") /\ Set(t, "publish", "tail", rb.tail) /\ UNCHANGED <<rb, History>>

\* Nobody else writes rb->commit meanwhile: num_writers is more than 1 for the others.
WritePublish(t) ==
  /\ At(t, "publish")
  /\ rb' = [rb EXCEPT !.commit = call[t].tail]
  /\ Go(t, "leave")
  /\ UNCHANGED History

WriteReturn(t) ==
  /\ At(t, "leave")
  /\ rb' = [rb EXCEPT !.num_writers = @ - 1]
  /\ call' = [call EXCEPT ![t] = Local]
  /\ UNCHANGED History

-----------------------------------------------------------------------------
(* rqueue_read *)

\* new_node and gc read.  A call tries up to RQUEUE_MAX_RETRIES times; here it may give up
\* after any of them, and a try that finds read_sync taken and is repeated is no step.
Read(t) ==
  /\ At(t, "idle")
  /\ use.keep = 0 \/ rb.writes - rb.reads > use.keep
  /\ call' = [call EXCEPT ![t] = [Local EXCEPT !.pc = "lock"]]
  /\ UNCHANGED <<rb, History>>

\* Mutant of ReadLock: read_sync is not tested.
ReadLock_open(t) ==
  /\ At(t, "lock")
  /\ Set(t, "rcommit", "head", rb.head)
  /\ UNCHANGED <<rb, History>>
ReadLock(t) ==
  /\ At(t, "lock")
  /\ IF rb.read_sync
     THEN call' = [call EXCEPT ![t] = Local] /\ UNCHANGED rb
     ELSE Set(t, "rcommit", "head", rb.head) /\ rb' = [rb EXCEPT !.read_sync = TRUE]
  /\ UNCHANGED History

ReadCommit(t) ==
  At(t, "rcommit") /\ Set(t, "rtail", "commit", rb.commit) /\ UNCHANGED <<rb, History>>

ReadTail(t) == At(t, "rtail") /\ Set(t, "rnext", "tail", rb.tail) /\ UNCHANGED <<rb, History>>

ReadNext(t) ==
  /\ At(t, "rnext")
  /\ Set(t, "rold", "next", rb.next[call[t].head])
  /\ UNCHANGED <<rb, History>>

ReadOld(t) ==
  At(t, "rold") /\ Set(t, "empty?", "old", rb.next[rb.reader]) /\ UNCHANGED <<rb, History>>

\* Is there nothing to read?
ReadEmpty(t) ==
  /\ At(t, "empty?")
  /\ LET c == call[t]
         empty == rb.reader = c.commit \/ (c.head = c.tail /\ c.commit # c.tail) \/ rb.writes = 0
     IN  Go(t, IF empty THEN "unlock" ELSE "detach")
  /\ UNCHANGED <<rb, History>>

\* The reader page gets the links of the head page ...
ReadDetach(t) ==
  /\ At(t, "detach")
  /\ IF rb.next[rb.reader] = call[t].old
     THEN /\ rb' = [rb EXCEPT !.next[rb.reader] = Ptr(call[t].next.to, HEAD),
                              !.prev[rb.reader] = rb.prev[call[t].head]]
          /\ Go(t, "swap")
     ELSE UNCHANGED rb /\ Go(t, "again")
  /\ UNCHANGED History

\* ... and its place, unless a writer has changed the flag.
ReadSwap(t) ==
  /\ At(t, "swap")
  /\ LET p == rb.prev[call[t].head]
         hit == rb.next[p] = Ptr(call[t].head, HEAD)
     IN  /\ rb' = IF hit THEN [rb EXCEPT !.next[p] = Ptr(rb.reader, Plain)] ELSE rb
         /\ Go(t, IF hit THEN "move" ELSE "again")
  /\ UNCHANGED History

ReadMove(t) ==
  /\ At(t, "move")
  /\ rb' = [rb EXCEPT !.head = call[t].next.to, !.prev[call[t].next.to] = rb.reader,
                      !.reader = call[t].head]
  /\ Go(t, "take")
  /\ UNCHANGED History

ReadTake(t) ==
  /\ At(t, "take")
  /\ Set(t, "clear", "was", rb.value[rb.reader])
  /\ got' = IF rb.value[rb.reader] = None THEN got ELSE Append(got, rb.value[rb.reader])
  /\ UNCHANGED <<use, rb, started, placed, freed, calm>>

ReadClear(t) ==
  /\ At(t, "clear")
  /\ rb' = [rb EXCEPT !.value[rb.reader] = IF @ = call[t].was THEN None ELSE @]
  /\ Go(t, "rcount")
  /\ UNCHANGED History

ReadCount(t) ==
  /\ At(t, "rcount")
  /\ rb' = [rb EXCEPT !.reads = @ + 1]
  /\ Go(t, "unlock")
  /\ UNCHANGED History

\* A try has failed: the next one, or the end.
ReadAgain(t) ==
  /\ At(t, "again")
  /\ rb' = [rb EXCEPT !.read_sync = FALSE]
  /\ \E pc \in {"lock", "idle"} : call' = [call EXCEPT ![t] = [Local EXCEPT !.pc = pc]]
  /\ UNCHANGED History

ReadReturn(t) ==
  /\ At(t, "unlock")
  /\ rb' = [rb EXCEPT !.read_sync = FALSE]
  /\ call' = [call EXCEPT ![t] = Local]
  /\ UNCHANGED History

-----------------------------------------------------------------------------
\* rqueue_create: pages 0 to use.size - 1 in the ring, page use.size for the reader.
rqueue_create ==
  [head |-> 0, tail |-> 0, commit |-> 0, reader |-> use.size,
   next |-> [p \in Pages |-> IF p = use.size - 1 THEN Ptr(0, HEAD)
                             ELSE Ptr(IF p = use.size THEN 0 ELSE p + 1, Plain)],
   prev |-> [p \in Pages |-> IF p \in {0, use.size} THEN use.size - 1 ELSE p - 1],
   value |-> [p \in Pages |-> None],
   writes |-> 0, reads |-> 0, read_sync |-> FALSE, num_writers |-> 0]

Init ==
  /\ use \in Rings
  /\ rb = rqueue_create
  /\ call = [t \in Threads |-> Local]
  /\ started = 0 /\ placed = <<>> /\ got = <<>> /\ freed = {} /\ calm = TRUE

WriteStep(t) ==
  \/ WriteTail(t) \/ WriteCommit(t) \/ WriteNext(t) \/ WriteHead(t) \/ WriteWrites(t)
  \/ WriteFull(t) \/ WriteAlone(t) \/ WriteClaim(t) \/ WriteLost(t) \/ WriteFlag(t)
  \/ WriteOld(t) \/ WriteValue(t) \/ WriteUnflag(t) \/ WriteCount(t) \/ WriteLast(t)
  \/ WriteRefused(t) \/ WriteRefusedTail(t) \/ WritePublish(t) \/ WriteReturn(t)
ReadStep(t) ==
  \/ ReadLock(t) \/ ReadCommit(t) \/ ReadTail(t) \/ ReadNext(t) \/ ReadOld(t)
  \/ ReadEmpty(t) \/ ReadDetach(t) \/ ReadSwap(t) \/ ReadMove(t) \/ ReadTake(t) \/ ReadClear(t)
  \/ ReadCount(t) \/ ReadAgain(t) \/ ReadReturn(t)

Next == \E t \in Threads : Write(t) \/ WriteStep(t) \/ Read(t) \/ ReadStep(t)

Spec == Init /\ [][Next]_vars

-----------------------------------------------------------------------------
(* Properties. *)

Quiet == \A t \in Threads : At(t, "idle")

\* rqueue_read returns no value that was written once to two callers.  It does not say that
\* the caller owns it: the writer at a full node_pool may free the value that is read
\* (NothingDropped), and malloc may hand out its memory again, which is a new value here.
ReadOnce == \A i, j \in 1 .. Len(got) : got[i] = got[j] => i = j

\* While the ring is used calmly (calm, which nothing in the code ensures), values are read
\* in the order in which they got their pages, and none is lost.  (In a full ring the
\* only writer overwrites a value.)
ReadInOrder == calm => IsPrefix(got, placed)

\* And rqueue_write, which returns "-2 if the buffer is full", neither refuses a value
\* (release_ref ignores that, its node would be on no list) nor frees one that is on a
\* page or that a read takes at the same time (the node would be in use and with malloc).
\* Without calm it does both: see the README.
NothingDropped == calm => freed = {} /\ \A t \in Threads : ~At(t, "refused")

\* The pages from the head on.
Around[i \in 0 .. use.size] == IF i = 0 THEN rb.head ELSE rb.next[Around[i - 1]].to

\* Between calls the links form a ring of all pages but the reader page, prev against
\* next, with one flag, before the head.
RingIntact ==
  Quiet =>
    LET ring == Pages \ {rb.reader}
    IN  /\ {Around[i] : i \in 0 .. use.size - 1} = ring /\ Around[use.size] = rb.head
        /\ \A p \in ring : /\ rb.prev[rb.next[p].to] = p
                           /\ rb.next[p].flag = (IF rb.next[p].to = rb.head THEN HEAD ELSE Plain)

=============================================================================
