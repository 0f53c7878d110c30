------------------------------- MODULE Channel -------------------------------
(***************************************************************************)
(* The threads of the server and how a request travels through them         *)
(* (channel.c, map_event, thread_map and the end of map_proc in map.c):     *)
(*                                                                          *)
(*   redis -> sub thread -> in_q -> map thread -> out_q -> pub thread -> redis *)
(*                                                                          *)
(* There is one map thread per map.  Threads wake each other with libevent  *)
(* events: activating an active event changes nothing, and the loop of the  *)
(* waiting thread clears the event before it calls the handler.  The sub    *)
(* thread creates a map on its first request, a clone of a template, while  *)
(* the pub thread may be walking the index of maps; nothing locks it.       *)
(*                                                                          *)
(* The queues are FIFO and their operations atomic: see Queue and Fifo.     *)
(* External: redis delivers each request once; memory is sequentially       *)
(* consistent.                                                              *)
(***************************************************************************)
EXTENDS Integers, Sequences, FiniteSets

CONSTANTS
  Maps,          \* the ids of maps in requests
  Loaded,        \* the maps that app_load_maps found
  MaxRequests    \* bound: requests for each map

ASSUME LoadedAssumption == Loaded \subseteq Maps
ASSUME MaxRequestsAssumption == MaxRequests \in [Maps -> Nat]

VARIABLES
  alive,       \* FALSE after a segmentation fault or a failed assertion
  sub,         \* the sub thread: where it is in onMessage, and the map of the request
  thread,      \* the map threads
  pub,         \* the pub thread: the maps its traversal will still visit
  map_index,   \* app->map_index
  in_event,    \* map->in_event: "none" (NULL), "idle" or "active"
  out_event,   \* app->out_event
  in_q, out_q, \* map->in_q, map->out_q
  received,    \* how many requests of a map onMessage was called with
  current,     \* the request that a map thread works on
  published    \* what redis got for a map

queues == <<in_q, out_q>>
vars == <<alive, sub, thread, pub, map_index, in_event, out_event, queues,
          received, current, published>>

Nothing == "no map"
Requests == Nat \ {0}     \* the requests for a map, in the order of their arrival
Replies == [to : Requests, kind : {"change", "ack"}]
Events == {"none", "idle", "active"}

SubAt(pc, m) == [pc |-> pc, map |-> m]
Waiting == SubAt("wait", Nothing)

\* event_active, on an event that exists.
Activate(e) == IF e = "none" THEN "none" ELSE "active"

-----------------------------------------------------------------------------
(* The sub thread: onMessage. *)

SubReceive(m) ==
  /\ alive /\ sub = Waiting
  /\ received[m] < MaxRequests[m]
  /\ received' = [received EXCEPT ![m] = @ + 1]
  /\ sub' = SubAt(IF m \in map_index THEN "push" ELSE "put", m)
  /\ UNCHANGED <<alive, thread, pub, map_index, in_event, out_event, queues, current, published>>

\* map_create_clone: map_load puts the map into the index ...
SubPut ==
  /\ alive /\ sub.pc = "put"
  /\ map_index' = map_index \cup {sub.map}
  /\ sub' = SubAt("spawn", sub.map)
  /\ UNCHANGED <<alive, thread, pub, in_event, out_event, queues, received, current, published>>

\* ... and then starts its thread.
SubSpawn ==
  /\ alive /\ sub.pc = "spawn"
  /\ thread' = [thread EXCEPT ![sub.map] = "start"]
  /\ sub' = SubAt("push", sub.map)
  /\ UNCHANGED <<alive, pub, map_index, in_event, out_event, queues, received, current, published>>

\* Mutant of SubPush: the wrong end of the queue.
SubPush_left ==
  /\ alive /\ sub.pc = "push"
  /\ in_q' = [in_q EXCEPT ![sub.map] = <<received[sub.map]>> \o @]
  /\ sub' = SubAt("signal", sub.map)
  /\ UNCHANGED <<alive, thread, pub, map_index, in_event, out_event, out_q, received, current,
                 published>>
SubPush ==
  /\ alive /\ sub.pc = "push"
  /\ in_q' = [in_q EXCEPT ![sub.map] = Append(@, received[sub.map])]
  /\ sub' = SubAt("signal", sub.map)
  /\ UNCHANGED <<alive, thread, pub, map_index, in_event, out_event, out_q, received, current,
                 published>>

\* The map thread may not have created its event yet.
SubSignal ==
  /\ alive /\ sub.pc = "signal"
  /\ in_event' = [in_event EXCEPT ![sub.map] = Activate(@)]
  /\ sub' = Waiting
  /\ UNCHANGED <<alive, thread, pub, map_index, out_event, queues, received, current, published>>

-----------------------------------------------------------------------------
(* A map thread: thread_map, map_event, map_proc. *)

MapStart(m) ==
  /\ alive /\ thread[m] = "start"
  /\ in_event' = [in_event EXCEPT ![m] = "idle"]
  /\ thread' = [thread EXCEPT ![m] = "armed"]
  /\ UNCHANGED <<alive, sub, pub, map_index, out_event, queues, received, current, published>>

\* Mutant of MapArm: the thread does not look at what arrived before its event existed.
MapArm_quiet(m) ==
  /\ alive /\ thread[m] = "armed"
  /\ thread' = [thread EXCEPT ![m] = "loop"]
  /\ UNCHANGED <<alive, sub, pub, map_index, in_event, out_event, queues, received, current,
                 published>>
MapArm(m) ==
  /\ alive /\ thread[m] = "armed"
  /\ in_event' = [in_event EXCEPT ![m] = Activate(@)]
  /\ thread' = [thread EXCEPT ![m] = "loop"]
  /\ UNCHANGED <<alive, sub, pub, map_index, out_event, queues, received, current, published>>

MapWake(m) ==
  /\ alive /\ thread[m] = "loop" /\ in_event[m] = "active"
  /\ in_event' = [in_event EXCEPT ![m] = "idle"]
  /\ thread' = [thread EXCEPT ![m] = "drain"]
  /\ UNCHANGED <<alive, sub, pub, map_index, out_event, queues, received, current, published>>

\* Mutant of MapPop: the loop does not stop at NULL, which 0 stands for.
MapPop_null(m) ==
  /\ alive /\ thread[m] = "drain"
  /\ thread' = [thread EXCEPT ![m] = "work"]
  /\ current' = [current EXCEPT ![m] = IF in_q[m] = <<>> THEN 0 ELSE Head(in_q[m])]
  /\ in_q' = [in_q EXCEPT ![m] = IF @ = <<>> THEN @ ELSE Tail(@)]
  /\ UNCHANGED <<alive, sub, pub, map_index, in_event, out_event, out_q, received, published>>

\* map_event pops until the queue is empty.
MapPop(m) ==
  /\ alive /\ thread[m] = "drain"
  /\ \/ /\ in_q[m] = <<>>
        /\ thread' = [thread EXCEPT ![m] = "loop"]
        /\ UNCHANGED <<in_q, current>>
     \/ /\ in_q[m] # <<>>
        /\ thread' = [thread EXCEPT ![m] = "work"]
        /\ current' = [current EXCEPT ![m] = Head(in_q[m])]
        /\ in_q' = [in_q EXCEPT ![m] = Tail(@)]
  /\ UNCHANGED <<alive, sub, pub, map_index, in_event, out_event, out_q, received, published>>

\* map_proc: what the operation tells the views, as one message or none (the map itself
\* is in Store and Views), ...
MapProc(m) ==
  /\ alive /\ thread[m] = "work"
  /\ \/ out_q' = [out_q EXCEPT ![m] = Append(@, [to |-> current[m], kind |-> "change"])]
     \/ UNCHANGED out_q
  /\ thread' = [thread EXCEPT ![m] = "ack"]
  /\ UNCHANGED <<alive, sub, pub, map_index, in_event, out_event, in_q, received, current,
                 published>>

\* ... the ack, which errors get too (a text that is no JSON, which gets none, was
\* already refused by onMessage), ...
MapAck(m) ==
  /\ alive /\ thread[m] = "ack"
  /\ out_q' = [out_q EXCEPT ![m] = Append(@, [to |-> current[m], kind |-> "ack"])]
  /\ thread' = [thread EXCEPT ![m] = "signal"]
  /\ UNCHANGED <<alive, sub, pub, map_index, in_event, out_event, in_q, received, current,
                 published>>

\* ... and the event of the pub thread: event_active(NULL) if that has not started yet.
MapSignal(m) ==
  /\ alive /\ thread[m] = "signal"
  /\ alive' = (out_event # "none")
  /\ out_event' = Activate(out_event)
  /\ thread' = [thread EXCEPT ![m] = "drain"]
  /\ UNCHANGED <<sub, pub, map_index, in_event, queues, received, current, published>>

-----------------------------------------------------------------------------
(* The pub thread: thread_pub, user_event_cb, map_index_traverse, map_each. *)

Pubs == [pc : {"start", "loop", "next"}, map : {Nothing}, left : SUBSET Maps, seen : SUBSET Maps]
        \cup [pc : {"drain"}, map : Maps, left : SUBSET Maps, seen : SUBSET Maps]
PubAt(pc, m, left, seen) == [pc |-> pc, map |-> m, left |-> left, seen |-> seen]
PubLoop == PubAt("loop", Nothing, {}, {})

PubStart ==
  /\ alive /\ pub.pc = "start"
  /\ out_event' = "idle"
  /\ pub' = PubLoop
  /\ UNCHANGED <<alive, sub, thread, map_index, in_event, queues, received, current, published>>

PubWake ==
  /\ alive /\ pub.pc = "loop" /\ out_event = "active"
  /\ out_event' = "idle"
  /\ pub' = PubAt("next", Nothing, map_index, map_index)
  /\ UNCHANGED <<alive, sub, thread, map_index, in_event, queues, received, current, published>>

\* The sub thread is inserting a map into the index, or has since the walk began.
IndexChanged == sub.pc = "put" \/ map_index # pub.seen

\* rb_t_next: the next map.  A walk that overlaps an insertion may go on from anywhere:
\* miss maps, visit some twice, end, or take the process with it (see MapIndex).
PubNext ==
  /\ alive /\ pub.pc = "next"
  /\ \/ \E m \in pub.left : pub' = PubAt("drain", m, pub.left \ {m}, pub.seen) /\ UNCHANGED alive
     \/ pub.left = {} /\ pub' = PubLoop /\ UNCHANGED alive
     \/ /\ IndexChanged
        /\ \E left \in SUBSET map_index : pub' = PubAt("next", Nothing, left, map_index)
        /\ UNCHANGED alive
     \/ IndexChanged /\ alive' = FALSE /\ UNCHANGED pub
  /\ UNCHANGED <<sub, thread, map_index, in_event, out_event, queues, received, current,
                 published>>

\* Mutant of PubPop: one reply per walk.
PubPop_one ==
  /\ alive /\ pub.pc = "drain"
  /\ pub' = PubAt("next", Nothing, pub.left, pub.seen)
  /\ \/ out_q[pub.map] = <<>> /\ UNCHANGED <<out_q, published>>
     \/ /\ out_q[pub.map] # <<>>
        /\ published' = [published EXCEPT ![pub.map] = Append(@, Head(out_q[pub.map]))]
        /\ out_q' = [out_q EXCEPT ![pub.map] = Tail(@)]
  /\ UNCHANGED <<alive, sub, thread, map_index, in_event, out_event, in_q, received, current>>

\* map_each publishes until the queue is empty.
PubPop ==
  /\ alive /\ pub.pc = "drain"
  /\ \/ /\ out_q[pub.map] = <<>>
        /\ pub' = PubAt("next", Nothing, pub.left, pub.seen)
        /\ UNCHANGED <<out_q, published>>
     \/ /\ out_q[pub.map] # <<>>
        /\ published' = [published EXCEPT ![pub.map] = Append(@, Head(out_q[pub.map]))]
        /\ out_q' = [out_q EXCEPT ![pub.map] = Tail(@)]
        /\ UNCHANGED pub
  /\ UNCHANGED <<alive, sub, thread, map_index, in_event, out_event, in_q, received, current>>

-----------------------------------------------------------------------------
\* app_load_maps has started the threads of the maps on disk; channel_init follows.
Init ==
  /\ alive = TRUE
  /\ sub = Waiting
  /\ thread = [m \in Maps |-> IF m \in Loaded THEN "start" ELSE "none"]
  /\ pub = PubAt("start", Nothing, {}, {})
  /\ map_index = Loaded
  /\ in_event = [m \in Maps |-> "none"]
  /\ out_event = "none"
  /\ in_q = [m \in Maps |-> <<>>] /\ out_q = [m \in Maps |-> <<>>]
  /\ received = [m \in Maps |-> 0]
  /\ current = [m \in Maps |-> 1]
  /\ published = [m \in Maps |-> <<>>]

SubStep == SubPut \/ SubSpawn \/ SubPush \/ SubSignal
MapStep(m) ==
  MapStart(m) \/ MapArm(m) \/ MapWake(m) \/ MapPop(m) \/ MapProc(m) \/ MapAck(m) \/ MapSignal(m)
PubStep == PubStart \/ PubWake \/ PubNext \/ PubPop

Next ==
  \/ \E m \in Maps : SubReceive(m) \/ MapStep(m)
  \/ SubStep \/ PubStep

Spec == Init /\ [][Next]_vars

\* Every thread that can run runs; requests need not come.
FairSpec == Spec /\ WF_vars(SubStep) /\ WF_vars(PubStep) /\ \A m \in Maps : WF_vars(MapStep(m))

-----------------------------------------------------------------------------
(* Properties. *)

\* The threads, queues and events keep their types: map_event works on real requests
\* only, never on the NULL of an empty queue.
TypeOK ==
  /\ alive \in BOOLEAN
  /\ sub \in {Waiting} \cup [pc : {"put", "spawn", "push", "signal"}, map : Maps]
  /\ thread \in [Maps -> {"none", "start", "armed", "loop", "drain", "work", "ack", "signal"}]
  /\ pub \in Pubs
  /\ map_index \subseteq Maps
  /\ in_event \in [Maps -> Events]
  /\ out_event \in Events
  /\ in_q \in [Maps -> Seq(Requests)]
  /\ out_q \in [Maps -> Seq(Replies)]
  /\ received \in [Maps -> Nat]
  /\ current \in [Maps -> Requests]
  /\ published \in [Maps -> Seq(Replies)]

\* A request in a queue is never forgotten: its map thread is on its way to the queue,
\* or its event is active, or onMessage is about to activate it.
NoLostRequest ==
  \A m \in Maps : in_q[m] # <<>> =>
    \/ thread[m] \in {"start", "armed", "drain", "work", "ack", "signal"}
    \/ thread[m] = "loop" /\ (in_event[m] = "active" \/ sub = SubAt("signal", m))

\* A request on its way, whose ack will wake the pub thread once more.
Outstanding ==
  \/ sub.pc \in {"put", "spawn", "push"}
  \/ \E m \in Maps : in_q[m] # <<>> \/ thread[m] \in {"work", "ack", "signal"}

\* Nor is a reply, although a walk of the index that races with a new map may miss
\* its queue: then a request is outstanding, or the pub thread is to walk once more.
NoLostReply ==
  alive => \A m \in Maps : out_q[m] # <<>> =>
    \/ thread[m] \in {"ack", "signal"}
    \/ out_event = "active"
    \/ pub.pc = "drain" /\ pub.map = m
    \/ pub.pc \in {"next", "drain"} /\ m \in pub.left
    \/ Outstanding

\* The replies of a map in the order in which redis gets them.
Replied(m) == published[m] \o out_q[m]

\* A change is followed by the ack of its request, an ack by a reply to the next request.
AckOrder(m) ==
  /\ Replied(m) # <<>> => Replied(m)[1].to = 1
  /\ \A i \in 1 .. Len(Replied(m)) - 1 :
       LET r == Replied(m)[i]
           next == Replied(m)[i + 1]
       IN  IF r.kind = "change" THEN next = [to |-> r.to, kind |-> "ack"]
           ELSE next.to = r.to + 1

\* Redis gets the acks of a map in the order of the requests, each once, and what an
\* operation changed right before its ack.
AcksInOrder == \A m \in Maps : AckOrder(m)

\* Every request is answered, or the process died: no thread sleeps through its event.
Answered ==
  \A m \in Maps : \A n \in 1 .. MaxRequests[m] :
    received[m] >= n ~> (~alive \/ \E i \in 1 .. Len(published[m]) :
                                     published[m][i] = [to |-> n, kind |-> "ack"])

-----------------------------------------------------------------------------
(* The invariants that make the properties above inductive. *)

\* A thread has its event once it runs, and a queue that is used has a thread.
ThreadInv ==
  /\ sub # Waiting => received[sub.map] > 0
  /\ sub.pc = "spawn" => sub.map \in map_index
  /\ sub.pc \in {"push", "signal"} => thread[sub.map] # "none"
  /\ \A m \in map_index : thread[m] # "none" \/ sub = SubAt("spawn", m)
  /\ \A m \in Maps : thread[m] # "none" => m \in map_index
  /\ \A m \in Maps : thread[m] \notin {"none", "start"} => in_event[m] # "none"
  /\ \A m \in Maps : in_q[m] # <<>> => thread[m] # "none"

\* Replies are in queues of maps that the pub thread finds, and when the index has
\* changed under its walk there is a reason to walk again.
PubInv ==
  /\ pub.pc = "start" => out_event = "none"
  /\ \A m \in Maps : out_q[m] # <<>> => m \in map_index
  /\ alive /\ pub.pc \in {"next", "drain"} /\ pub.seen # map_index =>
       Outstanding \/ out_event = "active"

\* The requests of a map that were queued, that its thread took, and that have their ack.
Pushed(m) ==
  received[m] - (IF sub.map = m /\ sub.pc \in {"put", "spawn", "push"} THEN 1 ELSE 0)
Popped(m) == Pushed(m) - Len(in_q[m])
Acked(m) == Popped(m) - (IF thread[m] \in {"work", "ack"} THEN 1 ELSE 0)

\* A queue holds the requests after the one that was taken last.
RequestOrder(m) ==
  /\ \A i \in 1 .. Len(in_q[m]) : in_q[m][i] = Popped(m) + i
  /\ thread[m] \in {"work", "ack"} => current[m] = Popped(m)

\* The last reply is the ack of the last request that has one, or what the request
\* changed that has none yet.
ReplyOrder(m) ==
  /\ Replied(m) = <<>> => Acked(m) = 0
  /\ Replied(m) # <<>> =>
       LET last == Replied(m)[Len(Replied(m))]
       IN  \/ last = [to |-> Acked(m), kind |-> "ack"]
           \/ thread[m] = "ack" /\ last = [to |-> current[m], kind |-> "change"]

OrderInv == \A m \in Maps : RequestOrder(m) /\ ReplyOrder(m)

ChannelInv == ThreadInv /\ NoLostRequest /\ PubInv /\ NoLostReply

=============================================================================
