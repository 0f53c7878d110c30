---------------------------- MODULE ChannelProofs ----------------------------
(***************************************************************************)
(* Proofs about the threads of Channel: for any set of maps and any number  *)
(* of requests, no wake-up is lost on the way of a request or of a reply.   *)
(***************************************************************************)
EXTENDS Channel, SequenceTheorems, TLAPS

\* What a step of one thread leaves alone it leaves alone for good: the steps of Next,
\* one by one.
LEMMA NextSteps ==
  ASSUME Next
  PROVE  \/ \E m \in Maps : \/ SubReceive(m) \/ MapStart(m) \/ MapArm(m) \/ MapWake(m)
                             \/ MapPop(m) \/ MapProc(m) \/ MapAck(m) \/ MapSignal(m)
         \/ SubPut \/ SubSpawn \/ SubPush \/ SubSignal
         \/ PubStart \/ PubWake \/ PubNext \/ PubPop
  BY Zenon DEF Next, SubStep, MapStep, PubStep

\* What queue_push_right and queue_pop_left keep of a queue's type.
LEMMA QueueTypes ==
  ASSUME NEW S, NEW q \in Seq(S)
  PROVE  /\ \A e \in S : Append(q, e) \in Seq(S)
         /\ q # <<>> => Head(q) \in S /\ Tail(q) \in Seq(S)
  OBVIOUS

\* A queue is not empty after queue_push_right.
LEMMA PushedNotEmpty == ASSUME NEW S, NEW q \in Seq(S), NEW e PROVE Append(q, e) # <<>>
  <1>1. Len(Append(q, e)) = Len(q) + 1 /\ Len(q) \in Nat
    OBVIOUS
  <1> QED
    BY <1>1

\* Types are kept; a request is numbered from 1 because onMessage counted it.
LEMMA TypeStep == TypeOK /\ ThreadInv /\ [Next]_vars => TypeOK'
  <1> SUFFICES ASSUME TypeOK, ThreadInv, [Next]_vars PROVE TypeOK'
    OBVIOUS
  <1> USE DEF TypeOK
  <1>1. ASSUME NEW m \in Maps, SubReceive(m) PROVE TypeOK'
    BY <1>1, MaxRequestsAssumption DEF SubReceive, queues, SubAt, Waiting
  <1>2. ASSUME NEW m \in Maps, MapStart(m) PROVE TypeOK'
    BY <1>2 DEF MapStart, queues, Events
  <1>3. ASSUME NEW m \in Maps, MapArm(m) PROVE TypeOK'
    BY <1>3 DEF MapArm, queues, Activate, Events
  <1>4. ASSUME NEW m \in Maps, MapWake(m) PROVE TypeOK'
    BY <1>4 DEF MapWake, queues, Events
  <1>5. ASSUME NEW m \in Maps, MapPop(m) PROVE TypeOK'
    <2>1. in_q[m] # <<>> => Head(in_q[m]) \in Requests /\ Tail(in_q[m]) \in Seq(Requests)
      BY QueueTypes
    <2>2. in_q' \in [Maps -> Seq(Requests)] /\ current' \in [Maps -> Requests]
      <3>1. CASE in_q[m] = <<>>
        BY <1>5, <3>1 DEF MapPop
      <3>2. CASE in_q[m] # <<>>
        <4> DEFINE h == Head(in_q[m])
                   rest == Tail(in_q[m])
        <4>1. in_q' = [in_q EXCEPT ![m] = rest] /\ current' = [current EXCEPT ![m] = h]
          BY <1>5, <3>2 DEF MapPop
        <4>2. h \in Requests /\ rest \in Seq(Requests)
          BY <2>1, <3>2
        <4> HIDE DEF h, rest
        <4> QED
          BY <4>1, <4>2
      <3> QED
        BY <3>1, <3>2
    <2>3. thread' \in [Maps -> {"none", "start", "armed", "loop", "drain", "work", "ack", "signal"}]
      BY <1>5 DEF MapPop
    <2> QED
      BY <1>5, <2>2, <2>3 DEF MapPop, queues
  <1>6. ASSUME NEW m \in Maps, MapProc(m) PROVE TypeOK'
    <2>1. [to |-> current[m], kind |-> "change"] \in Replies
      BY DEF Replies
    <2>2. Append(out_q[m], [to |-> current[m], kind |-> "change"]) \in Seq(Replies)
      BY <2>1, QueueTypes
    <2> QED
      BY <1>6, <2>2, ZenonT(60) DEF MapProc, queues
  <1>7. ASSUME NEW m \in Maps, MapAck(m) PROVE TypeOK'
    <2>1. [to |-> current[m], kind |-> "ack"] \in Replies
      BY DEF Replies
    <2>2. Append(out_q[m], [to |-> current[m], kind |-> "ack"]) \in Seq(Replies)
      BY <2>1, QueueTypes
    <2> QED
      BY <1>7, <2>2 DEF MapAck, queues
  <1>8. ASSUME NEW m \in Maps, MapSignal(m) PROVE TypeOK'
    BY <1>8 DEF MapSignal, queues, Activate, Events
  <1>9. CASE SubPut
    BY <1>9 DEF SubPut, queues, SubAt, Waiting
  <1>10. CASE SubSpawn
    BY <1>10 DEF SubSpawn, queues, SubAt, Waiting
  <1>11. CASE SubPush
    <2>1. sub.map \in Maps /\ sub # Waiting
      BY <1>11 DEF SubPush, SubAt, Waiting
    <2>2. received[sub.map] \in Requests
      BY <2>1, MaxRequestsAssumption DEF ThreadInv, Requests
    <2>3. Append(in_q[sub.map], received[sub.map]) \in Seq(Requests)
      BY <2>1, <2>2, QueueTypes
    <2> QED
      BY <1>11, <2>1, <2>3 DEF SubPush, SubAt, queues
  <1>12. CASE SubSignal
    BY <1>12 DEF SubSignal, queues, SubAt, Waiting, Activate, Events
  <1>13. CASE PubStart
    BY <1>13 DEF PubStart, queues, PubAt, PubLoop, Pubs, Events
  <1>14. CASE PubWake
    BY <1>14 DEF PubWake, queues, PubAt, Pubs, Events
  <1>15. CASE PubNext
    <2>1. pub.left \in SUBSET Maps /\ pub.seen \in SUBSET Maps
      BY DEF Pubs
    <2>2. \A m \in pub.left : PubAt("drain", m, pub.left \ {m}, pub.seen) \in Pubs
      BY <2>1 DEF PubAt, Pubs
    <2>3. PubLoop \in Pubs
      BY DEF PubLoop, PubAt, Pubs
    <2>4. \A left \in SUBSET map_index : PubAt("next", Nothing, left, map_index) \in Pubs
      BY DEF PubAt, Pubs
    <2>5. pub' \in Pubs /\ alive' \in BOOLEAN
      BY <1>15, <2>2, <2>3, <2>4, Zenon DEF PubNext
    <2> QED
      BY <1>15, <2>5 DEF PubNext, queues
  <1>16. CASE PubPop
    <2>1. pub.map \in Maps /\ pub.left \in SUBSET Maps /\ pub.seen \in SUBSET Maps
      BY <1>16 DEF PubPop, Pubs
    <2>2. CASE out_q[pub.map] = <<>>
      BY <1>16, <2>1, <2>2 DEF PubPop, queues, PubAt, Pubs
    <2>3. CASE out_q[pub.map] # <<>>
      <3>1. Head(out_q[pub.map]) \in Replies /\ Tail(out_q[pub.map]) \in Seq(Replies)
        BY <2>1, <2>3, QueueTypes
      <3>2. Append(published[pub.map], Head(out_q[pub.map])) \in Seq(Replies)
        BY <2>1, <3>1, QueueTypes
      <3> DEFINE rest == Tail(out_q[pub.map])
                 more == Append(published[pub.map], Head(out_q[pub.map]))
      <3>3. out_q' = [out_q EXCEPT ![pub.map] = rest] /\ UNCHANGED pub
            /\ published' = [published EXCEPT ![pub.map] = more]
        BY <1>16, <2>3 DEF PubPop
      <3>4. rest \in Seq(Replies) /\ more \in Seq(Replies)
        BY <3>1, <3>2
      <3> HIDE DEF rest, more
      <3>5. out_q' \in [Maps -> Seq(Replies)] /\ published' \in [Maps -> Seq(Replies)]
        BY <3>3, <3>4
      <3> QED
        BY <1>16, <3>3, <3>5 DEF PubPop, queues
    <2> QED
      BY <2>2, <2>3
  <1>17. CASE UNCHANGED vars
    BY <1>17 DEF vars, queues, TypeOK
  <1> QED
    BY <1>1, <1>2, <1>3, <1>4, <1>5, <1>6, <1>7, <1>8, <1>9, <1>10, <1>11, <1>12, <1>13,
       <1>14, <1>15, <1>16, <1>17, NextSteps

\* Threads get their events, and queues their threads, before they are used.
LEMMA ThreadStep == TypeOK /\ ThreadInv /\ [Next]_vars => ThreadInv'
  <1> SUFFICES ASSUME TypeOK, ThreadInv, [Next]_vars PROVE ThreadInv'
    OBVIOUS
  <1> USE DEF TypeOK, ThreadInv, SubAt, Waiting
  <1>1. ASSUME NEW m \in Maps, SubReceive(m) PROVE ThreadInv'
    <2>1. received'[m] > 0
      BY <1>1, MaxRequestsAssumption DEF SubReceive
    <2>2. m \in map_index => thread[m] # "none"
      BY <1>1 DEF SubReceive
    <2> QED
      BY <1>1, <2>1, <2>2 DEF SubReceive, queues
  <1>2. ASSUME NEW m \in Maps, MapStart(m) PROVE ThreadInv'
    BY <1>2 DEF MapStart, queues
  <1>3. ASSUME NEW m \in Maps, MapArm(m) PROVE ThreadInv'
    BY <1>3 DEF MapArm, queues, Activate
  <1>4. ASSUME NEW m \in Maps, MapWake(m) PROVE ThreadInv'
    BY <1>4 DEF MapWake, queues
  <1>5. ASSUME NEW m \in Maps, MapPop(m) PROVE ThreadInv'
    <2>1. thread'[m] \in {"loop", "work"} /\ \A k \in Maps \ {m} : thread'[k] = thread[k]
      BY <1>5 DEF MapPop
    <2>2. \A k \in Maps \ {m} : in_q'[k] = in_q[k]
      BY <1>5 DEF MapPop
    <2>3. \A k \in Maps : in_q'[k] # <<>> => thread'[k] # "none"
      BY <2>1, <2>2
    <2> QED
      BY <1>5, <2>1, <2>3, SMTT(40) DEF MapPop
  <1>6. ASSUME NEW m \in Maps, MapProc(m) PROVE ThreadInv'
    BY <1>6 DEF MapProc, queues
  <1>7. ASSUME NEW m \in Maps, MapAck(m) PROVE ThreadInv'
    BY <1>7 DEF MapAck, queues
  <1>8. ASSUME NEW m \in Maps, MapSignal(m) PROVE ThreadInv'
    BY <1>8 DEF MapSignal, queues, Activate
  <1>9. CASE SubPut
    BY <1>9 DEF SubPut, queues
  <1>10. CASE SubSpawn
    BY <1>10 DEF SubSpawn, queues
  <1>11. CASE SubPush
    BY <1>11 DEF SubPush, queues
  <1>12. CASE SubSignal
    BY <1>12 DEF SubSignal, queues, Activate
  <1>13. CASE PubStart
    BY <1>13 DEF PubStart, queues, PubAt, PubLoop
  <1>14. CASE PubWake
    BY <1>14 DEF PubWake, queues, PubAt
  <1>15. CASE PubNext
    BY <1>15 DEF PubNext, queues, PubAt, PubLoop
  <1>16. CASE PubPop
    BY <1>16 DEF PubPop, queues, PubAt
  <1>17. CASE UNCHANGED vars
    BY <1>17 DEF vars, queues
  <1> QED
    BY <1>1, <1>2, <1>3, <1>4, <1>5, <1>6, <1>7, <1>8, <1>9, <1>10, <1>11, <1>12, <1>13,
       <1>14, <1>15, <1>16, <1>17, NextSteps

\* No step forgets a request: who empties an event goes on to empty the queue.
LEMMA RequestStep == TypeOK /\ ThreadInv /\ NoLostRequest /\ [Next]_vars => NoLostRequest'
  <1> SUFFICES ASSUME TypeOK, ThreadInv, NoLostRequest, [Next]_vars PROVE NoLostRequest'
    OBVIOUS
  <1> USE DEF TypeOK, ThreadInv, NoLostRequest, SubAt, Waiting
  <1>1. ASSUME NEW m \in Maps, SubReceive(m) PROVE NoLostRequest'
    BY <1>1 DEF SubReceive, queues
  <1>2. ASSUME NEW m \in Maps, MapStart(m) PROVE NoLostRequest'
    BY <1>2 DEF MapStart, queues
  <1>3. ASSUME NEW m \in Maps, MapArm(m) PROVE NoLostRequest'
    BY <1>3 DEF MapArm, queues, Activate
  <1>4. ASSUME NEW m \in Maps, MapWake(m) PROVE NoLostRequest'
    BY <1>4 DEF MapWake, queues
  <1>5. ASSUME NEW m \in Maps, MapPop(m) PROVE NoLostRequest'
    BY <1>5 DEF MapPop, queues
  <1>6. ASSUME NEW m \in Maps, MapProc(m) PROVE NoLostRequest'
    BY <1>6 DEF MapProc, queues
  <1>7. ASSUME NEW m \in Maps, MapAck(m) PROVE NoLostRequest'
    BY <1>7 DEF MapAck, queues
  <1>8. ASSUME NEW m \in Maps, MapSignal(m) PROVE NoLostRequest'
    BY <1>8 DEF MapSignal, queues, Activate
  <1>9. CASE SubPut
    BY <1>9 DEF SubPut, queues
  <1>10. CASE SubSpawn
    BY <1>10 DEF SubSpawn, queues
  <1>11. CASE SubPush
    BY <1>11 DEF SubPush, queues
  <1>12. CASE SubSignal
    BY <1>12 DEF SubSignal, queues, Activate
  <1>13. CASE PubStart
    BY <1>13 DEF PubStart, queues, PubAt, PubLoop
  <1>14. CASE PubWake
    BY <1>14 DEF PubWake, queues, PubAt
  <1>15. CASE PubNext
    BY <1>15 DEF PubNext, queues, PubAt, PubLoop
  <1>16. CASE PubPop
    BY <1>16 DEF PubPop, queues, PubAt
  <1>17. CASE UNCHANGED vars
    BY <1>17 DEF vars, queues
  <1> QED
    BY <1>1, <1>2, <1>3, <1>4, <1>5, <1>6, <1>7, <1>8, <1>9, <1>10, <1>11, <1>12, <1>13,
       <1>14, <1>15, <1>16, <1>17, NextSteps

\* While the index is ahead of the walk there is a reason to walk again.
LEMMA PubStepInv == TypeOK /\ ThreadInv /\ PubInv /\ [Next]_vars => PubInv'
  <1> SUFFICES ASSUME TypeOK, ThreadInv, PubInv, [Next]_vars PROVE PubInv'
    OBVIOUS
  <1> USE DEF TypeOK, ThreadInv, PubInv, SubAt, Waiting, Outstanding, Pubs
  <1>1. ASSUME NEW m \in Maps, SubReceive(m) PROVE PubInv'
    BY <1>1 DEF SubReceive, queues
  <1>2. ASSUME NEW m \in Maps, MapStart(m) PROVE PubInv'
    BY <1>2 DEF MapStart, queues
  <1>3. ASSUME NEW m \in Maps, MapArm(m) PROVE PubInv'
    BY <1>3 DEF MapArm, queues, Activate
  <1>4. ASSUME NEW m \in Maps, MapWake(m) PROVE PubInv'
    BY <1>4 DEF MapWake, queues
  <1>5. ASSUME NEW m \in Maps, MapPop(m) PROVE PubInv'
    BY <1>5, ZenonT(60) DEF MapPop, queues
  <1>6. ASSUME NEW m \in Maps, MapProc(m) PROVE PubInv'
    BY <1>6 DEF MapProc, queues
  <1>7. ASSUME NEW m \in Maps, MapAck(m) PROVE PubInv'
    BY <1>7 DEF MapAck, queues
  <1>8. ASSUME NEW m \in Maps, MapSignal(m) PROVE PubInv'
    BY <1>8 DEF MapSignal, queues, Activate
  <1>9. CASE SubPut
    BY <1>9 DEF SubPut, queues
  <1>10. CASE SubSpawn
    BY <1>10 DEF SubSpawn, queues
  <1>11. CASE SubPush
    <2>1. sub.map \in Maps /\ in_q'[sub.map] # <<>>
      <3>1. sub.map \in Maps
        BY <1>11 DEF SubPush
      <3>2. in_q'[sub.map] = Append(in_q[sub.map], received[sub.map])
        BY <1>11, <3>1 DEF SubPush
      <3> QED
        BY <3>1, <3>2, PushedNotEmpty
    <2> QED
      BY <1>11, <2>1 DEF SubPush
  <1>12. CASE SubSignal
    BY <1>12 DEF SubSignal, queues, Activate
  <1>13. CASE PubStart
    BY <1>13 DEF PubStart, queues, PubAt, PubLoop
  <1>14. CASE PubWake
    BY <1>14 DEF PubWake, queues, PubAt
  <1>15. CASE PubNext
    <2> USE <1>15 DEF PubNext, queues, PubAt, PubLoop
    <2>1. pub.pc = "next"
      OBVIOUS
    <2>2. CASE ~alive'
      BY <2>1, <2>2
    <2>3. CASE alive'
      <3>1. pub'.pc = "loop" \/ pub'.seen = map_index \/ pub'.seen = pub.seen
        BY <2>3
      <3>2. pub'.pc # "start" /\ out_event' = out_event /\ map_index' = map_index /\ out_q' = out_q
        BY <2>1, <2>3
      <3>3. Outstanding' <=> Outstanding
        OBVIOUS
      <3> QED
        BY <2>1, <2>3, <3>1, <3>2, <3>3
    <2> QED
      BY <2>2, <2>3
  <1>16. CASE PubPop
    BY <1>16 DEF PubPop, queues, PubAt
  <1>17. CASE UNCHANGED vars
    BY <1>17 DEF vars, queues
  <1> QED
    BY <1>1, <1>2, <1>3, <1>4, <1>5, <1>6, <1>7, <1>8, <1>9, <1>10, <1>11, <1>12, <1>13,
       <1>14, <1>15, <1>16, <1>17, NextSteps

\* No step forgets a reply.
LEMMA ReplyStep == TypeOK /\ ThreadInv /\ PubInv /\ NoLostReply /\ [Next]_vars => NoLostReply'
  <1> SUFFICES ASSUME TypeOK, ThreadInv, PubInv, NoLostReply, [Next]_vars PROVE NoLostReply'
    OBVIOUS
  <1> USE DEF TypeOK, ThreadInv, PubInv, NoLostReply, SubAt, Waiting, Outstanding, Pubs, IndexChanged
  <1>1. ASSUME NEW m \in Maps, SubReceive(m) PROVE NoLostReply'
    BY <1>1 DEF SubReceive, queues
  <1>2. ASSUME NEW m \in Maps, MapStart(m) PROVE NoLostReply'
    BY <1>2 DEF MapStart, queues
  <1>3. ASSUME NEW m \in Maps, MapArm(m) PROVE NoLostReply'
    BY <1>3 DEF MapArm, queues, Activate
  <1>4. ASSUME NEW m \in Maps, MapWake(m) PROVE NoLostReply'
    BY <1>4 DEF MapWake, queues
  <1>5. ASSUME NEW m \in Maps, MapPop(m) PROVE NoLostReply'
    BY <1>5, ZenonT(60) DEF MapPop, queues
  <1>6. ASSUME NEW m \in Maps, MapProc(m) PROVE NoLostReply'
    BY <1>6 DEF MapProc, queues
  <1>7. ASSUME NEW m \in Maps, MapAck(m) PROVE NoLostReply'
    BY <1>7 DEF MapAck, queues
  <1>8. ASSUME NEW m \in Maps, MapSignal(m) PROVE NoLostReply'
    BY <1>8 DEF MapSignal, queues, Activate
  <1>9. CASE SubPut
    BY <1>9 DEF SubPut, queues
  <1>10. CASE SubSpawn
    BY <1>10 DEF SubSpawn, queues
  <1>11. CASE SubPush
    <2>1. sub.map \in Maps /\ in_q'[sub.map] # <<>>
      <3>1. sub.map \in Maps
        BY <1>11 DEF SubPush
      <3>2. in_q'[sub.map] = Append(in_q[sub.map], received[sub.map])
        BY <1>11, <3>1 DEF SubPush
      <3> QED
        BY <3>1, <3>2, PushedNotEmpty
    <2> QED
      BY <1>11, <2>1 DEF SubPush
  <1>12. CASE SubSignal
    BY <1>12 DEF SubSignal, queues, Activate
  <1>13. CASE PubStart
    BY <1>13 DEF PubStart, queues, PubAt, PubLoop
  <1>14. CASE PubWake
    BY <1>14 DEF PubWake, queues, PubAt
  <1>15. CASE PubNext
    BY <1>15 DEF PubNext, queues, PubAt, PubLoop
  <1>16. CASE PubPop
    BY <1>16 DEF PubPop, queues, PubAt
  <1>17. CASE UNCHANGED vars
    BY <1>17 DEF vars, queues
  <1> QED
    BY <1>1, <1>2, <1>3, <1>4, <1>5, <1>6, <1>7, <1>8, <1>9, <1>10, <1>11, <1>12, <1>13,
       <1>14, <1>15, <1>16, <1>17, NextSteps

-----------------------------------------------------------------------------
\* When channel_init runs, every queue is empty and every loaded map has its thread.
LEMMA ChannelInit == Init => TypeOK /\ ChannelInv
  <1> SUFFICES ASSUME Init PROVE TypeOK /\ ChannelInv
    OBVIOUS
  <1>1. TypeOK
    BY LoadedAssumption, MaxRequestsAssumption
       DEF Init, TypeOK, PubAt, Pubs, Events, Requests, Replies
  <1>2. ThreadInv /\ NoLostRequest
    BY LoadedAssumption DEF Init, ThreadInv, NoLostRequest, SubAt, Waiting
  <1>3. PubInv /\ NoLostReply
    BY DEF Init, PubInv, NoLostReply, PubAt
  <1> QED
    BY <1>1, <1>2, <1>3 DEF ChannelInv

\* The inductive invariant of the threads.
LEMMA ChannelInvariant == Spec => [](TypeOK /\ ChannelInv)
  <1>1. TypeOK /\ ChannelInv /\ [Next]_vars => (TypeOK /\ ChannelInv)'
    BY TypeStep, ThreadStep, RequestStep, PubStepInv, ReplyStep DEF ChannelInv
  <1> QED
    BY ChannelInit, <1>1, PTL DEF Spec

\* Queues, events and threads hold what the code puts there, for any set of maps and
\* any number of requests.
THEOREM ChannelTypes == Spec => []TypeOK
  BY ChannelInvariant, PTL

\* For any number of maps, created at any moment, a request that onMessage has queued
\* is never left in the queue of a map thread that sleeps.
THEOREM RequestsKept == Spec => []NoLostRequest
  BY ChannelInvariant, PTL DEF ChannelInv

\* A reply in an out_q always has somebody to fetch it, even if the walk of the pub
\* thread raced with new maps and missed its queue.
THEOREM RepliesKept == Spec => []NoLostReply
  BY ChannelInvariant, PTL DEF ChannelInv

-----------------------------------------------------------------------------
(* The order of requests and replies. *)

\* A reply that the pub thread has taken from a queue is published in its place.
LEMMA PoppedReply ==
  ASSUME NEW S, NEW p \in Seq(S), NEW q \in Seq(S), q # <<>>
  PROVE  Append(p, Head(q)) \o Tail(q) = p \o q
  <1> DEFINE a == Append(p, Head(q))
             t == Tail(q)
  <1>1. Head(q) = q[1] /\ Head(q) \in S /\ Len(q) \in Nat \ {0}
    BY HeadTailProperties, EmptySeq
  <1>2. t \in Seq(S) /\ Len(t) = Len(q) - 1 /\ \A i \in 1 .. Len(t) : t[i] = q[i + 1]
    BY HeadTailProperties
  <1>3. a \in Seq(S) /\ Len(a) = Len(p) + 1 /\ Len(p) \in Nat /\ a[Len(p) + 1] = q[1]
        /\ \A i \in 1 .. Len(p) : a[i] = p[i]
    BY <1>1, AppendProperties
  <1> HIDE DEF a, t
  <1> DEFINE l == a \o t
             r == p \o q
  <1>4. /\ l \in Seq(S)
        /\ Len(l) = Len(a) + Len(t)
        /\ \A i \in 1 .. Len(a) + Len(t) : l[i] = IF i <= Len(a) THEN a[i] ELSE t[i - Len(a)]
    BY <1>2, <1>3, ConcatProperties
  <1>5. /\ r \in Seq(S)
        /\ Len(r) = Len(p) + Len(q)
        /\ \A i \in 1 .. Len(p) + Len(q) : r[i] = IF i <= Len(p) THEN p[i] ELSE q[i - Len(p)]
    BY ConcatProperties
  <1> HIDE DEF l, r
  <1>6. ASSUME NEW i \in 1 .. Len(p) + Len(q) PROVE l[i] = r[i]
    <2>1. l[i] = IF i <= Len(p) + 1 THEN a[i] ELSE t[i - (Len(p) + 1)]
      BY <1>1, <1>2, <1>3, <1>4
    <2>2. CASE i <= Len(p)
      BY <2>1, <2>2, <1>1, <1>3, <1>5
    <2>3. CASE i = Len(p) + 1
      BY <2>1, <2>3, <1>1, <1>3, <1>5
    <2>4. CASE i > Len(p) + 1
      <3>1. i - (Len(p) + 1) \in 1 .. Len(t) /\ (i - (Len(p) + 1)) + 1 = i - Len(p)
        BY <2>4, <1>1, <1>2, <1>3
      <3>2. t[i - (Len(p) + 1)] = q[i - Len(p)]
        BY <3>1, <1>2
      <3> QED
        BY <2>1, <2>4, <3>2, <1>1, <1>3, <1>5
    <2> QED
      BY <2>2, <2>3, <2>4, <1>1, <1>3
  <1>7. l = r
    <2>1. Len(l) = Len(r) /\ \A i \in 1 .. Len(l) : l[i] = r[i]
      BY <1>1, <1>2, <1>3, <1>4, <1>5, <1>6
    <2> QED
      BY <1>4, <1>5, <2>1, SeqEqual
  <1> QED
    BY <1>7 DEF a, t, l, r

\* A reply that a map thread pushes is the last that redis will get.
LEMMA PushedReply ==
  ASSUME NEW S, NEW p \in Seq(S), NEW q \in Seq(S), NEW e \in S
  PROVE  /\ Len(p \o q) \in Nat
         /\ p \o Append(q, e) # <<>>
         /\ Len(p \o Append(q, e)) = Len(p \o q) + 1
         /\ (p \o Append(q, e))[Len(p \o q) + 1] = e
         /\ \A i \in 1 .. Len(p \o q) : (p \o Append(q, e))[i] = (p \o q)[i]
         /\ p \o q = <<>> <=> Len(p \o q) = 0
  <1>1. p \o q \in Seq(S)
    BY ConcatProperties
  <1>2. Append(q, e) = q \o <<e>> /\ <<e>> \in Seq(S)
    BY AppendIsConcat
  <1>3. p \o Append(q, e) = (p \o q) \o <<e>>
    BY <1>2, ConcatAssociative
  <1>4. p \o Append(q, e) = Append(p \o q, e)
    BY <1>1, <1>3, AppendIsConcat
  <1> DEFINE r == p \o q
  <1> HIDE DEF r
  <1>5. r \in Seq(S) /\ p \o Append(q, e) = Append(r, e)
    BY <1>1, <1>4 DEF r
  <1>6. /\ Append(r, e) # <<>>
        /\ Len(Append(r, e)) = Len(r) + 1
        /\ Append(r, e)[Len(r) + 1] = e
        /\ \A i \in 1 .. Len(r) : Append(r, e)[i] = r[i]
    BY <1>5, AppendProperties
  <1>7. Len(r) \in Nat /\ (r = <<>> <=> Len(r) = 0)
    BY <1>5, EmptySeq
  <1> QED
    BY <1>5, <1>6, <1>7 DEF r

\* The counters are numbers.
LEMMA OrderTypes ==
  ASSUME TypeOK, NEW m \in Maps
  PROVE  /\ Pushed(m) \in Int /\ Popped(m) \in Int /\ Acked(m) \in Int
         /\ Len(in_q[m]) \in Nat
  <1>1. Len(in_q[m]) \in Nat /\ received[m] \in Nat
    BY DEF TypeOK
  <1> QED
    BY <1>1 DEF Pushed, Popped, Acked

\* A step that touches neither the queues of a map nor the request its thread works on
\* keeps the order of the map.
LEMMA SameOrder ==
  ASSUME NEW m \in Maps, RequestOrder(m), ReplyOrder(m), AckOrder(m),
         Pushed(m)' = Pushed(m), in_q'[m] = in_q[m], current'[m] = current[m],
         Replied(m)' = Replied(m),
         thread'[m] = thread[m] \/ {thread[m], thread'[m]} \cap {"work", "ack"} = {}
  PROVE  (RequestOrder(m) /\ ReplyOrder(m) /\ AckOrder(m))'
  <1>1. /\ thread'[m] \in {"work", "ack"} <=> thread[m] \in {"work", "ack"}
        /\ thread'[m] = "ack" <=> thread[m] = "ack"
    OBVIOUS
  <1>2. Popped(m)' = Popped(m)
    BY DEF Popped
  <1>3. Acked(m)' = Acked(m)
    BY <1>1, <1>2 DEF Acked
  <1>4. RequestOrder(m)'
    BY <1>1, <1>2 DEF RequestOrder
  <1>5. ReplyOrder(m)'
    BY <1>1, <1>3 DEF ReplyOrder
  <1>6. AckOrder(m)'
    BY DEF AckOrder
  <1> QED
    BY <1>4, <1>5, <1>6

\* A reply to the request that a map thread works on keeps the order of the acks.
LEMMA OneMoreReply ==
  ASSUME TypeOK, NEW m \in Maps, ReplyOrder(m), AckOrder(m), RequestOrder(m),
         thread[m] \in {"work", "ack"}, NEW kind \in {"change", "ack"},
         thread[m] = "work" => kind = "change",
         thread[m] = "ack" => kind = "ack",
         out_q'[m] = Append(out_q[m], [to |-> current[m], kind |-> kind]),
         published'[m] = published[m]
  PROVE  /\ Replied(m)' # <<>>
         /\ Replied(m)'[Len(Replied(m)')] = [to |-> current[m], kind |-> kind]
         /\ AckOrder(m)'
  <1> DEFINE e == [to |-> current[m], kind |-> kind]
             all == Replied(m)
             more == Replied(m)'
  <1>1. e \in Replies
    BY DEF TypeOK, Replies
  <1>2. published[m] \in Seq(Replies) /\ out_q[m] \in Seq(Replies)
    BY DEF TypeOK
  <1>3. /\ Len(all) \in Nat
        /\ more # <<>>
        /\ Len(more) = Len(all) + 1
        /\ more[Len(all) + 1] = e
        /\ \A i \in 1 .. Len(all) : more[i] = all[i]
        /\ all = <<>> <=> Len(all) = 0
    <2> DEFINE p == published[m]
               q == out_q[m]
    <2>1. all = p \o q /\ more = p \o Append(q, e)
      BY DEF Replied
    <2>2. p \in Seq(Replies) /\ q \in Seq(Replies) /\ e \in Replies
      BY <1>1, <1>2
    <2> HIDE DEF p, q, e, all, more
    <2> QED
      BY <2>1, <2>2, PushedReply
  <1>4. Acked(m) = current[m] - 1 /\ current[m] \in Nat /\ Acked(m) \in Int
    BY OrderTypes DEF RequestOrder, Acked, TypeOK, Requests
  <1>5. all # <<>> => \/ all[Len(all)] = [to |-> Acked(m), kind |-> "ack"]
                      \/ thread[m] = "ack" /\ all[Len(all)] = [to |-> current[m], kind |-> "change"]
    BY DEF ReplyOrder
  <1>6. all = <<>> => current[m] = 1
    BY <1>4 DEF ReplyOrder
  <1>7. all # <<>> => all[1].to = 1
    BY DEF AckOrder
  <1>8. ASSUME NEW i \in 1 .. Len(all) - 1
        PROVE  IF all[i].kind = "change" THEN all[i + 1] = [to |-> all[i].to, kind |-> "ack"]
               ELSE all[i + 1].to = all[i].to + 1
    BY <1>8 DEF AckOrder
  <1> HIDE DEF all, more
  <1>9. more[1].to = 1
    BY <1>3, <1>6, <1>7
  <1>10. ASSUME NEW i \in 1 .. Len(more) - 1
         PROVE  IF more[i].kind = "change" THEN more[i + 1] = [to |-> more[i].to, kind |-> "ack"]
                ELSE more[i + 1].to = more[i].to + 1
    <2>1. CASE i < Len(all)
      <3>1. i \in 1 .. Len(all) - 1 /\ more[i] = all[i] /\ more[i + 1] = all[i + 1]
        BY <1>3, <2>1
      <3> QED
        BY <3>1, <1>8
    <2>2. CASE i = Len(all)
      <3>1. all # <<>> /\ more[i] = all[Len(all)] /\ more[i + 1] = e
        BY <1>3, <2>2
      <3> QED
        BY <3>1, <1>4, <1>5
    <2> QED
      BY <1>3, <2>1, <2>2
  <1>11. AckOrder(m)'
    BY <1>9, <1>10 DEF AckOrder, more
  <1> QED
    BY <1>3, <1>11 DEF more

\* Every step of every thread keeps the order of requests and replies.
LEMMA OrderStep ==
  TypeOK /\ ThreadInv /\ OrderInv /\ AcksInOrder /\ [Next]_vars => OrderInv' /\ AcksInOrder'
  <1> SUFFICES ASSUME TypeOK, ThreadInv, OrderInv, AcksInOrder, [Next]_vars, NEW k \in Maps
               PROVE  (RequestOrder(k) /\ ReplyOrder(k) /\ AckOrder(k))'
    BY DEF OrderInv, AcksInOrder
  <1> DEFINE Goal == (RequestOrder(k) /\ ReplyOrder(k) /\ AckOrder(k))'
  <1> HIDE DEF Goal
  <1> SUFFICES Goal
    BY DEF Goal
  <1>a. RequestOrder(k) /\ ReplyOrder(k) /\ AckOrder(k)
    BY DEF OrderInv, AcksInOrder
  <1>b. ASSUME Pushed(k)' = Pushed(k), in_q'[k] = in_q[k], current'[k] = current[k],
               Replied(k)' = Replied(k),
               thread'[k] = thread[k] \/ {thread[k], thread'[k]} \cap {"work", "ack"} = {}
        PROVE  Goal
    BY <1>a, <1>b, SameOrder DEF Goal
  <1>c. ASSUME UNCHANGED <<in_q, out_q, current, published>>, Pushed(k)' = Pushed(k),
               thread'[k] = thread[k] \/ {thread[k], thread'[k]} \cap {"work", "ack"} = {}
        PROVE  Goal
    BY <1>b, <1>c DEF Replied
  <1>1. ASSUME NEW m \in Maps, SubReceive(m) PROVE Goal
    <2>1. Pushed(k)' = Pushed(k)
      BY <1>1 DEF SubReceive, Pushed, SubAt, Waiting, TypeOK
    <2> QED
      BY <1>1, <1>c, <2>1 DEF SubReceive, queues
  <1>2. ASSUME NEW m \in Maps, MapStart(m) \/ MapArm(m) \/ MapWake(m) \/ MapSignal(m) PROVE Goal
    <2>1. Pushed(k)' = Pushed(k) /\ UNCHANGED <<in_q, out_q, current, published>>
      BY <1>2 DEF MapStart, MapArm, MapWake, MapSignal, Pushed, queues
    <2>2. thread'[k] = thread[k] \/ {thread[k], thread'[k]} \cap {"work", "ack"} = {}
      BY <1>2 DEF MapStart, MapArm, MapWake, MapSignal, TypeOK
    <2> QED
      BY <1>c, <2>1, <2>2
  <1>3. ASSUME NEW m \in Maps, MapPop(m) PROVE Goal
    <2>1. Pushed(k)' = Pushed(k) /\ Replied(k)' = Replied(k)
      BY <1>3 DEF MapPop, Pushed, Replied
    <2>2. CASE k # m \/ in_q[m] = <<>>
      <3>1. in_q'[k] = in_q[k] /\ current'[k] = current[k]
        BY <1>3, <2>2 DEF MapPop, TypeOK
      <3>2. thread'[k] = thread[k] \/ {thread[k], thread'[k]} \cap {"work", "ack"} = {}
        BY <1>3, <2>2 DEF MapPop, TypeOK
      <3> QED
        BY <1>b, <2>1, <3>1, <3>2
    <2>3. CASE k = m /\ in_q[m] # <<>>
      <3> DEFINE q == in_q[k]
                 t == in_q'[k]
      <3>1. t = Tail(q) /\ current'[k] = Head(q) /\ thread'[k] = "work" /\ thread[k] = "drain"
        BY <1>3, <2>3 DEF MapPop, TypeOK
      <3>2. q \in Seq(Requests) /\ q # <<>>
        BY <2>3 DEF TypeOK
      <3>3. Len(q) \in Nat \ {0} /\ Head(q) = q[1] /\ Len(t) = Len(q) - 1
            /\ \A i \in 1 .. Len(t) : t[i] = q[i + 1]
        BY <3>1, <3>2, HeadTailProperties, EmptySeq
      <3>4. Popped(k) \in Int /\ Pushed(k) \in Int
        BY OrderTypes
      <3>5. Popped(k)' = Popped(k) + 1 /\ Acked(k)' = Acked(k)
        BY <2>1, <3>1, <3>3, <3>4 DEF Popped, Acked
      <3>6. \A i \in 1 .. Len(q) : q[i] = Popped(k) + i
        BY <1>a DEF RequestOrder
      <3>7. current'[k] = Popped(k)' /\ \A i \in 1 .. Len(t) : t[i] = Popped(k)' + i
        <4> HIDE DEF q, t
        <4> QED
          BY <3>1, <3>3, <3>4, <3>5, <3>6
      <3>8. RequestOrder(k)'
        BY <3>7 DEF RequestOrder
      <3>9. ReplyOrder(k)' /\ AckOrder(k)'
        BY <1>a, <2>1, <3>1, <3>5 DEF ReplyOrder, AckOrder
      <3> QED
        BY <3>8, <3>9 DEF Goal
    <2> QED
      BY <2>2, <2>3
  <1>4. ASSUME NEW m \in Maps, MapProc(m) PROVE Goal
    <2>1. Pushed(k)' = Pushed(k) /\ in_q'[k] = in_q[k] /\ current'[k] = current[k]
          /\ published'[k] = published[k]
      BY <1>4 DEF MapProc, Pushed
    <2>2. CASE k # m
      <3>1. Replied(k)' = Replied(k) /\ thread'[k] = thread[k]
        BY <1>4, <2>2 DEF MapProc, TypeOK, Replied
      <3> QED
        BY <1>b, <2>1, <3>1
    <2>3. CASE k = m
      <3>1. thread[k] = "work" /\ thread'[k] = "ack"
        BY <1>4, <2>3 DEF MapProc, TypeOK
      <3>2. Popped(k)' = Popped(k) /\ Acked(k)' = Acked(k)
        BY <2>1, <3>1 DEF Popped, Acked
      <3>3. RequestOrder(k)'
        BY <1>a, <2>1, <3>1, <3>2 DEF RequestOrder
      <3>4. CASE out_q' = out_q
        <4>1. Replied(k)' = Replied(k)
          BY <2>1, <3>4 DEF Replied
        <4>2. ReplyOrder(k)' /\ AckOrder(k)'
          BY <1>a, <3>1, <3>2, <4>1 DEF ReplyOrder, AckOrder
        <4> QED
          BY <3>3, <4>2 DEF Goal
      <3>5. CASE out_q' = [out_q EXCEPT ![m] = Append(@, [to |-> current[m], kind |-> "change"])]
        <4>1. out_q'[k] = Append(out_q[k], [to |-> current[k], kind |-> "change"])
          BY <2>3, <3>5 DEF TypeOK
        <4>2. /\ Replied(k)' # <<>>
              /\ Replied(k)'[Len(Replied(k)')] = [to |-> current[k], kind |-> "change"]
              /\ AckOrder(k)'
          BY <1>a, <2>1, <3>1, <4>1, OneMoreReply
        <4>3. ReplyOrder(k)'
          BY <2>1, <3>1, <4>2 DEF ReplyOrder
        <4> QED
          BY <3>3, <4>2, <4>3 DEF Goal
      <3> QED
        BY <1>4, <3>4, <3>5 DEF MapProc
    <2> QED
      BY <2>2, <2>3
  <1>5. ASSUME NEW m \in Maps, MapAck(m) PROVE Goal
    <2>1. Pushed(k)' = Pushed(k) /\ in_q'[k] = in_q[k] /\ current'[k] = current[k]
          /\ published'[k] = published[k]
      BY <1>5 DEF MapAck, Pushed
    <2>2. CASE k # m
      <3>1. Replied(k)' = Replied(k) /\ thread'[k] = thread[k]
        BY <1>5, <2>2 DEF MapAck, TypeOK, Replied
      <3> QED
        BY <1>b, <2>1, <3>1
    <2>3. CASE k = m
      <3>1. thread[k] = "ack" /\ thread'[k] = "signal"
        BY <1>5, <2>3 DEF MapAck, TypeOK
      <3>2. Popped(k)' = Popped(k) /\ Acked(k)' = current[k]
        BY <1>a, <2>1, <3>1, OrderTypes DEF Popped, Acked, RequestOrder
      <3>3. RequestOrder(k)'
        BY <1>a, <2>1, <3>1, <3>2 DEF RequestOrder
      <3>4. out_q'[k] = Append(out_q[k], [to |-> current[k], kind |-> "ack"])
        BY <1>5, <2>3 DEF TypeOK, MapAck
      <3>5. /\ Replied(k)' # <<>>
            /\ Replied(k)'[Len(Replied(k)')] = [to |-> current[k], kind |-> "ack"]
            /\ AckOrder(k)'
        BY <1>a, <2>1, <3>1, <3>4, OneMoreReply
      <3>6. ReplyOrder(k)'
        BY <3>2, <3>5 DEF ReplyOrder
      <3> QED
        BY <3>3, <3>5, <3>6 DEF Goal
    <2> QED
      BY <2>2, <2>3
  <1>6. CASE SubPut \/ SubSpawn \/ SubSignal
    <2>1. Pushed(k)' = Pushed(k) /\ UNCHANGED <<in_q, out_q, current, published>>
      BY <1>6 DEF SubPut, SubSpawn, SubSignal, Pushed, SubAt, Waiting, queues
    <2>2. thread'[k] = thread[k] \/ {thread[k], thread'[k]} \cap {"work", "ack"} = {}
      BY <1>6 DEF SubPut, SubSpawn, SubSignal, TypeOK
    <2> QED
      BY <1>c, <2>1, <2>2
  <1>7. CASE SubPush
    <2>1. sub.map \in Maps /\ sub.pc = "push" /\ sub' = SubAt("signal", sub.map)
      BY <1>7 DEF SubPush, TypeOK, SubAt, Waiting
    <2>2. Replied(k)' = Replied(k) /\ current'[k] = current[k] /\ thread'[k] = thread[k]
      BY <1>7 DEF SubPush, Replied
    <2>3. CASE k # sub.map
      <3>1. Pushed(k)' = Pushed(k) /\ in_q'[k] = in_q[k]
        BY <1>7, <2>1, <2>3 DEF SubPush, Pushed, SubAt, TypeOK
      <3> QED
        BY <1>b, <2>2, <3>1
    <2>4. CASE k = sub.map
      <3> DEFINE q == in_q[k]
                 t == in_q'[k]
      <3>1. t = Append(q, received[k])
        BY <1>7, <2>4 DEF SubPush, TypeOK
      <3>2. q \in Seq(Requests) /\ Len(q) \in Nat /\ received[k] \in Nat
        BY DEF TypeOK
      <3>3. Len(t) = Len(q) + 1 /\ t[Len(q) + 1] = received[k]
            /\ \A i \in 1 .. Len(q) : t[i] = q[i]
        BY <3>1, <3>2
      <3>4. Pushed(k) = received[k] - 1 /\ Pushed(k)' = received[k]
        BY <1>7, <2>1, <2>4, <3>2 DEF SubPush, Pushed, SubAt
      <3>5. Popped(k)' = Popped(k) /\ Popped(k) = received[k] - 1 - Len(q)
        BY <3>2, <3>3, <3>4 DEF Popped
      <3>6. Acked(k)' = Acked(k)
        BY <2>2, <3>5 DEF Acked
      <3>7. \A i \in 1 .. Len(q) : q[i] = Popped(k) + i
        BY <1>a DEF RequestOrder
      <3>8. \A i \in 1 .. Len(t) : t[i] = Popped(k)' + i
        <4> HIDE DEF q, t
        <4> QED
          BY <3>2, <3>3, <3>5, <3>7
      <3>9. RequestOrder(k)'
        BY <1>a, <2>2, <3>5, <3>8 DEF RequestOrder
      <3>10. ReplyOrder(k)' /\ AckOrder(k)'
        BY <1>a, <2>2, <3>6 DEF ReplyOrder, AckOrder
      <3> QED
        BY <3>9, <3>10 DEF Goal
    <2> QED
      BY <2>3, <2>4
  <1>8. CASE PubStart \/ PubWake \/ PubNext
    BY <1>8, <1>c DEF PubStart, PubWake, PubNext, queues, Pushed
  <1>9. CASE PubPop
    <2>1. pub.map \in Maps
      BY <1>9 DEF PubPop, TypeOK, Pubs
    <2>2. Pushed(k)' = Pushed(k) /\ in_q'[k] = in_q[k] /\ current'[k] = current[k]
          /\ thread'[k] = thread[k]
      BY <1>9 DEF PubPop, Pushed
    <2>3. CASE k # pub.map \/ out_q[pub.map] = <<>>
      <3>1. Replied(k)' = Replied(k)
        BY <1>9, <2>1, <2>3 DEF PubPop, Replied, TypeOK
      <3> QED
        BY <1>b, <2>2, <3>1
    <2>4. CASE k = pub.map /\ out_q[pub.map] # <<>>
      <3>1. published'[k] = Append(published[k], Head(out_q[k])) /\ out_q'[k] = Tail(out_q[k])
        BY <1>9, <2>4 DEF PubPop, TypeOK
      <3>2. published[k] \in Seq(Replies) /\ out_q[k] \in Seq(Replies) /\ out_q[k] # <<>>
        BY <2>4 DEF TypeOK
      <3>3. Replied(k)' = Replied(k)
        BY <3>1, <3>2, PoppedReply DEF Replied
      <3> QED
        BY <1>b, <2>2, <3>3
    <2> QED
      BY <2>3, <2>4
  <1>10. CASE UNCHANGED vars
    BY <1>10, <1>c DEF vars, queues, Pushed
  <1> QED
    BY <1>1, <1>2, <1>3, <1>4, <1>5, <1>6, <1>7, <1>8, <1>9, <1>10, NextSteps

\* For any number of maps and of requests, redis gets the acks of each map in the order
\* of its requests, none twice and none left out, each right after what it acknowledges.
THEOREM AcksOrdered == Spec => []AcksInOrder
  <1>1. Init => OrderInv /\ AcksInOrder
    BY DEF Init, OrderInv, RequestOrder, ReplyOrder, Pushed, Popped, Acked, Replied, AcksInOrder,
           AckOrder, Waiting, SubAt
  <1>2. TypeOK /\ ChannelInv /\ OrderInv /\ AcksInOrder /\ [Next]_vars => (OrderInv /\ AcksInOrder)'
    BY OrderStep DEF ChannelInv
  <1> QED
    BY <1>1, <1>2, ChannelInvariant, PTL DEF Spec

=============================================================================
